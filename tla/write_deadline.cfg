SPECIFICATION Spec
CONSTANTS
  Writers = {w1, w2}
  Readers = {}
  Timed = {w1, w2}
  Companies = {{w1, w2}}
  PipeCap = 1
  MaxOut = 2
  None = None
PROPERTIES
  DeadlineRespected
