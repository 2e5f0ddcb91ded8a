SPECIFICATION MCSpec
CONSTANTS
  Writers = {w1, w2}
  Readers = {r1, r2, r3}
  Timed = {w1, r1, r2}
  Companies = {{}, {w1, w2}, {r1, r2}, {w2, r3}}
  PipeCap = 1
  MaxOut = 2
  None = None
  Senders = {a, b, c}
  Cap = 2
  MaxStderr = 4
INVARIANTS
  LinesUnbroken
  ReadsWhole
  NoSendOnClosed
  EOFIsFinal
  BlocksTogether
  LoggedInOrder
PROPERTIES
  CloseReleases
  ExitSeen
  DeadlineRespected
