SPECIFICATION Spec
CONSTANTS
  a = a
  b = b
  None = None
  Caller = {a, b}
  Id = {0, 1}
  NoId = NoId
  BadId = BadId
  MaxStreams = 2
  MaxResponses <- OneAndNone
  Buffer = 3
PROPERTIES
  NobodyWaitsForEver
CHECK_DEADLOCK FALSE
