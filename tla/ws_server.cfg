SPECIFICATION Spec
CONSTANTS
  Id = {1, 2}
  NoId = 0
  BadId = 3
  MaxStreams = 2
  MaxResponses <- OneEach
  Buffer = 1
INVARIANTS
  ServerInv
  MessagesFindTheirOperation
PROPERTIES
  StopIsHonoured
  StreamsEnd
CHECK_DEADLOCK FALSE
