CONSTANTS
  c0 = c0
  c1 = c1
  Calls <- MCCalls
  NoCall = NoCall
  OpenAIEvents <- MCOpenAIEvents
  GeminiEvents <- MCGeminiEvents
  Repairs <- MCRepairs
  EmitUsage = TRUE
  MaxChunks = 5
SPECIFICATION StreamSpec
INVARIANTS
  StreamIsFramed
  DeltasNameTheirCall
  StructuredIsAllOrNothing
  TurnsAreServed
CHECK_DEADLOCK FALSE
