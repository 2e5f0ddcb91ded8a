SPECIFICATION FairSpec
CONSTANTS
  MaxReqs = 4
  MaxEmits = 0
  MaxGarbage = 0
  DispatchCap = 2
  ClientMethods = {"prompt", "steer", "cancel"}
  AgentCaps = {"steer"}
  AgentOutcomes = {"ok"}
  Faults = {}
  WriteHonoursCtx = TRUE
  ReadHonoursCtx = TRUE
PROPERTIES
  CancelAnswered
