CONSTANTS
  c1 = c1
  c2 = c2
  Chunks <- MCChunks
  MaxLen = 3
  MaxPulls = 5
SPECIFICATION CallSpec
INVARIANT FailedCallTraced
CHECK_DEADLOCK FALSE
