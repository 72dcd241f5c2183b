SPECIFICATION Spec
CONSTANTS
  p1 = p1
  p2 = p2
  j1 = j1
  j2 = j2
  Procs = {p1, p2}
  Jobs = {j1, j2}
  MaxNames = 2
  Capital = {}
  GlobalSpooler = FALSE
  LogHere = FALSE
  MaySignal = FALSE
  MayKill = TRUE
  MayFail = TRUE
SYMMETRY Symmetry
INVARIANTS TypeOK RunOnce NoJobLost
PROPERTIES QueueSpec
