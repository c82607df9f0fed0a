SPECIFICATION Spec
CONSTANTS
  p1 = p1
  p2 = p2
  Procs <- TwoProcs
  Binaries <- TwoPlaces
  MaxCommands = 3
  MaxBoots = 2
INVARIANTS
  TypeOK
  EnabledMeansRebootStarts
  DisabledStaysDown
PROPERTIES
  EnabledStarts
CHECK_DEADLOCK FALSE
