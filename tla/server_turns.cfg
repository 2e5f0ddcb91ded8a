SPECIFICATION MCSpec
CONSTANTS
  MaxReqs = 3
  MaxEmits = 1
  MaxGarbage = 0
  DispatchCap = 1
  ClientMethods = {"prompt", "cancel", "replay", "initialize", "set_plan_mode"}
  AgentCaps = {"replay", "plan_mode"}
  AgentOutcomes = {"ok", "err"}
  Faults = {}
  WriteHonoursCtx = FALSE
  ReadHonoursCtx = TRUE
INVARIANTS
  SlotMatchesOperation
  AnsweredTurnFreesSlot
PROPERTIES
  ProtocolSpec
  RequestAnswered
