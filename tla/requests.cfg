SPECIFICATION MCSpec
CONSTANTS
  MaxCalls = 2
  MaxResponses = 2
  Kinds = {"approval", "question", "hook"}
  DefaultTimeout = TRUE
  SupportsQuestion = FALSE
INVARIANTS
  PendingIsUnanswered
  RouteNeverBlocks
  RequestsInv
PROPERTIES
  CallsReturn
