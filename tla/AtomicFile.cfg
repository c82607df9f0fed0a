SPECIFICATION FairSpec
CONSTANTS
  w1 = w1
  w2 = w2
  c1 = c1
  c2 = c2
  none = none
  half = half
  Writers <- TwoWriters
  Contents <- TwoContents
  Absent <- none
  Torn <- half
  Flushes = TRUE
  Faults <- EveryFault
INVARIANTS
  FileInv
  Whole
  AckedSurvives
PROPERTIES
  IsRegister
  CallsEnd
