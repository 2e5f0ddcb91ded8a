SPECIFICATION MCFairSpec
CONSTANTS
  MaxCalls = 2
  MaxLines = 3
  Few = 4
  DispatchCap = 1
  PeerTags = {"response", "request"}
  PeerAnswers = {"ok"}
  InitCalls = {}
  TimedCalls = {2}
  RunsDispatch = TRUE
  Faults = {"shutdown", "hangup"}
PROPERTIES
  ResponseDelivered
  DeliverEnds
  RequestsReplied
  ShutdownEnds
  TransportErrorReleases
