CONSTANTS
  t1 = t1
  u1 = u1
  u2 = u2
  None = None
  NoUsage = NoUsage
  StopAsyncIteration = StopAsyncIteration
  Fault = Fault
  TypeError = TypeError
  Texts <- MCTexts
  Usages <- MCUsages
  DisableMetrics = FALSE
  MaxLen = 3
  MaxPulls = 5
SPECIFICATION Spec
INVARIANT OkSpanHasMetrics
CHECK_DEADLOCK FALSE
