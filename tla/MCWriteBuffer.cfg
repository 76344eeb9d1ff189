SPECIFICATION FairSpec
CONSTANTS
  Writers <- MCWriters
  Hooked <- MCHooked
  Capacity = 2
  MaxPoints = 2
  Pushes = 4
INVARIANTS Bounded NothingLost StoredOnce TimeOrder NoStorm ExitFlushes
PROPERTIES DropsOldest EventuallySettled
CHECK_DEADLOCK FALSE
