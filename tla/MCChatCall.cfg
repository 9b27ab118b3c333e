CONSTANTS
  stop = stop
  length = length
  NoResponse = NoResponse
  Reasons <- MCReasons
  MaxChoices = 2
  MaxN = 2
  DisableMetrics = FALSE
INIT Init
NEXT Next
INVARIANTS
  TypeOK
  SpanSettled
  OkMeansComplete
CHECK_DEADLOCK FALSE
