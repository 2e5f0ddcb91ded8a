SPECIFICATION MCSpec
CONSTANTS
  MaxReqs = 2
  MaxEmits = 0
  MaxGarbage = 1
  DispatchCap = 1
  ClientMethods = {"prompt", "cancel", "replay", "steer", "set_plan_mode", "initialize", "other"}
  AgentCaps = {"replay", "steer", "plan_mode"}
  AgentOutcomes = {"err"}
  Faults = {"hangup", "ctx", "close", "bad_params"}
  WriteHonoursCtx = FALSE
  ReadHonoursCtx = TRUE
INVARIANTS
  AtMostOneReply
  ServerInv
PROPERTIES
  ServeTerminates
