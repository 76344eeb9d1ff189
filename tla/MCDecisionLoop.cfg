SPECIFICATION FairSpec
CONSTANTS
  Senders <- MCSenders
  Modes <- MCModes
  ModeOf <- MCModeOf
  Callers <- MCCallers
  BadLimit = 1
  LostReplies = TRUE
  Outages = FALSE
  Strategy = "strategy"
  Targets <- MCTargets
  Zero = "zero"
  Period = 2
  StaleAfter = 1
INVARIANTS TypeOK CacheTruthful
PROPERTIES Follows
