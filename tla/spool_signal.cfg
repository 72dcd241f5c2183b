SPECIFICATION Spec
CONSTANTS
  p1 = p1
  j1 = j1
  j2 = j2
  Procs = {p1}
  Jobs = {j1, j2}
  MaxNames = 3
  Capital = {}
  GlobalSpooler = FALSE
  LogHere = TRUE
  MaySignal = TRUE
  MayKill = TRUE
  MayFail = TRUE
INVARIANTS NoJobLost
