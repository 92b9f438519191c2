SPECIFICATION Spec
CONSTANTS
  a = a
  b = b
  None = None
  Caller = {a, b}
  Id = {0, 1}
  NoId = NoId
  BadId = BadId
  MaxStreams = 2
  MaxResponses <- TwoAndOne
  Buffer = 2
SYMMETRY AnyCaller
INVARIANTS
  SessionInv
  ResponsesAreItsOwn
  ClosedMeansEverything
PROPERTIES
  ClosedIsQuiet
  KeepsToTheProtocol
CHECK_DEADLOCK FALSE
