SPECIFICATION MCSpec
CONSTANTS
  MaxSize = 2
  MaxClock = 2
  Recent = 3
  MaxBlocks = 3
  Servers <- MCServers
  Requests <- MCRequests
  Texts <- MCTexts
  BlockSize = 3
  Pipes = {TRUE, FALSE}
  Streams <- MCStreams
  LineSize = 2
  ReadSize = 3
INVARIANTS TypeOK Resumable Tidy TextRight
PROPERTIES Delivers TargetWhole
CHECK_DEADLOCK FALSE
