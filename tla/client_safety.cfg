SPECIFICATION MCSpec
CONSTANTS
  MaxCalls = 2
  MaxLines = 3
  Few = 4
  DispatchCap = 1
  PeerTags = {"response", "event", "request", "malformed", "unknown", "garbage"}
  PeerAnswers = {"ok", "not_found"}
  InitCalls = {1}
  TimedCalls = {2}
  RunsDispatch = TRUE
  Faults = {"hangup", "shutdown", "handler", "shutdown_ctx", "dispatch_ctx", "read_raw"}
INVARIANTS
  TypeOK
  NoResponseMissed
  DispatchInOrder
