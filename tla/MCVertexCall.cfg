CONSTANTS
  c1 = c1
  c2 = c2
  Chunks <- MCChunks
  MaxLen = 3
  MaxPulls = 5
SPECIFICATION CallSpec
INVARIANTS
  VertexTypeOK
  PassThrough
  EmissionMatchesDelivered
  StopEndsSpan
PROPERTIES
  IterationEndsSpan
CHECK_DEADLOCK FALSE
