SPECIFICATION Spec
CONSTANTS
  Senders <- MCNoSenders
  Modes <- MCModes
  ModeOf <- MCNoModes
  Callers <- MCCallers
  BadLimit = 1
  LostReplies = FALSE
  Outages = FALSE
  Sources <- MCSources
  Fragile <- MCNoInputs
  Debounce = 1
  AutoRelease = FALSE
  Hold = 0
  Confirm = 1
  DbFails = FALSE
  MaxCrashes = 0
INVARIANTS LatchesAgree
