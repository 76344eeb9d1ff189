SPECIFICATION FairSpec
CONSTANTS
  Stations <- MCStations
  Periodic <- MCPeriodic
  Cos = "cos"
  Drains <- MCDrains
  CacheMax = 1
  ClientQueue = 1
  Refusals = TRUE
  InsertFails = TRUE
  MaxSeq = 3
INVARIANTS TypeOK NothingLost EvidenceKept ReplayInOrder
PROPERTY EdgeReplays
