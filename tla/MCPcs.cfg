SPECIFICATION PcsSpec
CONSTANTS
  Senders <- MCSenders
  Modes <- MCModes
  ModeOf <- MCModeOf
  Callers <- MCCallers
  BadLimit = 2
  LostReplies = TRUE
  Outages = TRUE
INVARIANTS PcsTypeOK PowerInMode
PROPERTIES KeepsPermit
