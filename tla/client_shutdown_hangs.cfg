SPECIFICATION MCFairSpec
CONSTANTS
  MaxCalls = 1
  MaxLines = 2
  Few = 3
  DispatchCap = 1
  PeerTags = {"response", "event"}
  PeerAnswers = {"ok"}
  InitCalls = {}
  TimedCalls = {}
  RunsDispatch = TRUE
  Faults = {"shutdown"}
PROPERTIES
  ShutdownReleasesCalls
