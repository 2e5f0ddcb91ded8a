SPECIFICATION MCSpec
CONSTANTS
  MaxReqs = 4
  MaxEmits = 0
  MaxGarbage = 0
  DispatchCap = 1
  ClientMethods = {"prompt", "cancel"}
  AgentCaps = {}
  AgentOutcomes = {"ok"}
  Faults = {"ctx"}
  WriteHonoursCtx = TRUE
  ReadHonoursCtx = TRUE
  MaxCalls = 1
  Few = 2
  MaxResponses = 1
  Kinds = {"approval"}
  DefaultTimeout = FALSE
  SupportsQuestion = TRUE
CHECK_DEADLOCK FALSE
INVARIANTS
  CallsWithinTurn
PROPERTIES
  ImplementsTurnEngine
  ImplementsRequests
  ReadLoopMovesOn
  CancelReturns
