SPECIFICATION Spec
CONSTANTS
  p1 = p1
  p2 = p2
  c1 = c1
  c2 = c2
  none = none
  Procs <- OneProc
  Contents <- TwoContents
  InlineSelector <- SelectorContents
  Absent <- none
  Commands <- EveryCommand
  Faults = {"reject", "docker"}
  Overlap = FALSE
INVARIANTS
  StartRecordsAgree
  RunningIsWhatRuns
PROPERTIES
  KeepsPromise
