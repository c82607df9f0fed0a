SPECIFICATION Spec
CONSTANTS
  none = none
  p1 = p1
  p2 = p2
  Nothing <- none
  Rank <- HostRank
  Procs <- TwoProcs
  Asks <- AsksThere
  Payloads <- AllPayloads
  SlotLimit = 5
  RetryLimit = 3
  MaxSetups = 2
INVARIANTS
  TypeOK
  SavedDeviceIsRegistered
  OneSlotUnlessLost
  RefusalIsFree
  SavedRoutesStandApart
  SavedCanBeRendered
PROPERTIES
  SetupsEnd
CHECK_DEADLOCK FALSE
