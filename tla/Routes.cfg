SPECIFICATION Spec
CONSTANTS
  none = none
  p1 = p1
  p2 = p2
  Nothing <- none
  Rank <- HostRank
  RegionCountries <- Regions
  Procs <- TwoProcs
  Asks <- SomeAsks
  GuidedSelectors <- PromptedSelectors
  Catalogs <- SomeCatalogs
  Latencies <- SomeLatencies
  InitialConfigs <- Configs
  MaxCommands = 2
INVARIANTS
  TypeOK
  PostureHolds
  NamesStandApart
  CountsAreMet
  AgainAddsNothing
  AppliedIsRecommended
PROPERTIES
  ExportsOnlyAdd
  HttpsStaysStartable
CHECK_DEADLOCK FALSE
