SPECIFICATION Spec
CONSTANTS
  p1 = p1
  p2 = p2
  c1 = c1
  c2 = c2
  none = none
  Procs <- OneProc
  Contents <- TwoContents
  InlineSelector <- NoContents
  Absent <- none
  Commands = {"setup", "edit", "start", "refresh"}
  Faults = {}
  Overlap = FALSE
PROPERTIES
  RefreshResyncsDocker
