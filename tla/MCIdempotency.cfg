SPECIFICATION Spec
CONSTANTS
  r1 = r1
  r2 = r2
  r3 = r3
  a1 = a1
  a2 = a2
  a3 = a3
  Requests <- MCRequests
  Attempts <- MCAttempts
  Cap = 2
  Ttl = 2
  Window = 2
  Skew = 1
  MaxTime = 3
SYMMETRY MCSymmetry
INVARIANTS IdemTypeOK TableBounded ExecutedOnce
PROPERTY FirstReceiptKept
CHECK_DEADLOCK FALSE
