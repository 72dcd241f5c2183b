SPECIFICATION MCSpec
CONSTANTS
  Parts = {"tree"}
  Writers = {"ncftp"}
  BookNames = {10, 20}
  OldBooks <- SomeBooks
  Rows = 2
  MaxBookSaves = 3
  MaxBookmarks = 4
  BookFields <- ShortFields
  TokenSize = 6
  Ncftps = {"p", "q"}
  SystemFiles <- ManagedFiles
  UserFiles <- OlderFiles
  MaxSets = 1
  Loggers = {1, 2}
  LogHosts = {"a", "b"}
  LogLine = 4
  MaxLogSize = 50
  OldLogs <- NineLines
  MaxLines = 4
  MaxEnds = 2
  Jobs = {"a", "b", "c", "d", "e"}
  Job <- JobFiles
  HomeDir <- Home
  There <- ServerDirs
  Inheritable <- LeftByNcftp
  MaxPasses = 2
  Waiting = {1}
  Delays = {0, 120, 30000, 40000}
  FirstSleeps = {0, 600, 86400}
  Factors = {12, 26}
  SleepPasses = 12
  Invocations <- CommandLines
  LoginDir <- LoggedInAt
  BookmarkDir <- Marked
  Arguments <- URLLists
  LsOptions <- AllLsOptions
  HostDirs <- HostTree
  MachineHosts <- MLSDHosts
  Root <- LoggedInAt
  SourceTrees <- Trees
  SourceDir <- InH
  TargetDir <- InW
  TreeItems <- FiveItems
  TreeOps <- FiveOps
  NameLengths <- Lengths
  PathSpace = 9
  PathSpare = 3
  DepthLimit = 4
  MaxTroubles = 2
INVARIANTS PutsWholeTrees
CHECK_DEADLOCK FALSE
