SPECIFICATION Spec
CONSTANTS
  Entries <- MCEntries
  StationOf <- MCStationOf
  Carriers <- MCCarriers
  Interval <- MCInterval
  Rank <- MCRank
  MaxShift = 2
  PollTicks = 1
  MaxRead = 2
  Far = 20
INVARIANTS TypeOK NeverGivenUp
PROPERTIES NoCatchUp BacksOff
