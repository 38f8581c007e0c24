SPECIFICATION Spec
CONSTANTS
  Scenes <- MCScenes
  Loopback <- MCLoopback
  Endings <- MCEndings
  ChainCap = 2
  MaxEdits = 4
  MaxRecords = 3
INVARIANTS
  TypeOK
  StandingRiskReported
  NothingInvented
  CleanWasBound
  VerdictIsOwned
  OwnedRiskPasses
