SPECIFICATION ViewSpec
CONSTANTS
  p1 = p1
  c1 = c1
  c2 = c2
  none = none
  Procs <- OneProc
  Contents <- TwoContents
  InlineSelector <- NoContents
  Verdicts <- AllPass
  Absent <- none
  Commands = {"setup", "start", "stop"}
  Faults = {}
  MaxMoves = 1
  Overlap = FALSE
INVARIANTS
  NotStartedIsStopped
