SPECIFICATION Prompt
CONSTANTS
  Groups <- MCGroups
  Carrier = "unit"
  BitsOf <- MCBitsOf
  Scalars <- MCScalars
  AggrBits <- MCAggrBits
  Aggr = "aggr"
  Points <- MCPoints
  ClassC <- MCClassC
  ChangeCap = 1
  QueueCap = 1
INVARIANT NoChangeLost
CHECK_DEADLOCK FALSE
