SPECIFICATION ViewSpec
CONSTANTS
  p1 = p1
  c1 = c1
  c2 = c2
  none = none
  Procs <- OneProc
  Contents <- TwoContents
  InlineSelector <- NoContents
  Verdicts <- AllPass
  Absent <- none
  Commands = {"setup", "edit", "validate", "start", "stop"}
  Faults = {"docker"}
  MaxMoves = 1
  Overlap = FALSE
INVARIANTS
  DegradedIsDisturbed
  LastStartIsTold
  DoctorPassMeansInSync
  DoctorSeesTrouble
SYMMETRY Symmetry
