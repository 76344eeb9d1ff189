SPECIFICATION Unattended
CONSTANTS
  Senders <- MCSenders
  Modes <- MCModes
  ModeOf <- MCModeOf
  Callers <- MCCallers
  BadLimit = 1
  LostReplies = TRUE
  Outages = FALSE
  Sources <- MCSources
  Fragile <- MCNoInputs
  Debounce = 2
  AutoRelease = TRUE
  Hold = 1
  Confirm = 1
  DbFails = FALSE
  MaxCrashes = 0
PROPERTIES EdgeHeard LatchStops AutoReleases
