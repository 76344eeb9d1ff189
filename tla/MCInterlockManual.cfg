SPECIFICATION Spec
CONSTANTS
  Senders <- MCSenders
  Modes <- MCModes
  ModeOf <- MCModeOf
  Callers <- MCCallers
  BadLimit = 1
  LostReplies = TRUE
  Outages = FALSE
  Sources <- MCSources
  Fragile <- MCSources
  Debounce = 1
  AutoRelease = FALSE
  Hold = 1
  Confirm = 1
  DbFails = TRUE
  MaxCrashes = 1
INVARIANTS TypeOK StopFailedImpliesLatched LatchesAgree HaltHolds Armed
