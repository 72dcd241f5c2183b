SPECIFICATION MCFair
CONSTANTS
  Parts = {"loop", "editor", "tab"}
  MaxPresses = 3
  MaxArgs = 2
  MaxFiles = 2
  Typed <- MCTyped
  Chars = {"a", " "}
  TermW = 8
  Prompt <- MCPrompt
  BufSize = 11
  KillSize = 6
  HIST_SIZE = 4
  Files <- MCFiles
  MaxSearch = 2
  MaxKeys = 5
  Lines <- MCLines
  Sorted <- MCSorted
  Dirs <- MCDirs
PROPERTIES ShellSafe LineRight Exits
CHECK_DEADLOCK FALSE
