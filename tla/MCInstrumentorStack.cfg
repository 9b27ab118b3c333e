CONSTANTS
  Providers = {"reka", "azure_ai_inference"}
  MaxInstrumentCalls = 3
INIT Init
NEXT Next
INVARIANT OneSpanPerCall
