SPECIFICATION FairSpec
CONSTANTS
  p1 = p1
  p2 = p2
  j1 = j1
  Procs = {p1, p2}
  Jobs = {j1}
  MaxNames = 3
  Capital = {}
  GlobalSpooler = FALSE
  LogHere = TRUE
  MaySignal = FALSE
  MayKill = FALSE
  MayFail = FALSE
PROPERTIES  Leaves
