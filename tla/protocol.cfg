SPECIFICATION MCSpec
CONSTANTS
  Supported = {PreToolUse, PostToolUse}
  Events = {PreToolUse, PostToolUse, Stop}
  HookIds = {h1, h2}
  Targets = {shell, file}
  MaxHooks = 2
  Chars = {"0", "1", "2", "9", ".", "x"}
  MaxVersion = 4
  IntRange = 256
  BadMatcher = BadMatcher
  None = None
  Nil = Nil
  Bad = Bad
  MaxHops = 2
  Scalars <- MCScalars
  JSON <- MCJSON
  Messages <- MCMessages
  Foreign <- MCForeign
CHECK_DEADLOCK FALSE
INVARIANTS
  NegotiatedInRange
  HookNotSkipped
  RelayNeverFails
  RoundTrip
