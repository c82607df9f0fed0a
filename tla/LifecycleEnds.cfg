SPECIFICATION FairSpec
CONSTANTS
  p1 = p1
  p2 = p2
  c1 = c1
  c2 = c2
  none = none
  Procs <- OneProc
  Contents <- OneContent
  InlineSelector <- NoContents
  Absent <- none
  Commands <- EveryCommand
  Faults = {"reject", "write", "docker"}
  Overlap = FALSE
PROPERTIES
  CommandsEnd
  StartingIsLeft
