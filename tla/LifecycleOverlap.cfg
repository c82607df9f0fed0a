SPECIFICATION Spec
CONSTANTS
  p1 = p1
  p2 = p2
  c1 = c1
  c2 = c2
  none = none
  Procs <- TwoProcs
  Contents <- TwoContents
  InlineSelector <- SelectorContents
  Absent <- none
  Commands = {"setup", "start"}
  Faults = {}
  Overlap = TRUE
INVARIANTS
  NothingRenderedUnsaved
  RunningHasSucceeded
  UpMeansComplete
SYMMETRY Symmetry
