SPECIFICATION FairSpec
CONSTANTS
  Stations <- MCStations
  Periodic <- MCPeriodic
  Cos = "cos"
  Drains <- MCDrains
  CacheMax = 1
  ClientQueue = 1
  Refusals = FALSE
  InsertFails = FALSE
  MaxSeq = 2
PROPERTY CacheReplayed
