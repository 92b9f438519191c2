SPECIFICATION Spec
CONSTANTS
  Alphabet <- SortedNames2
  Strings <- Quoted2
  Blocks <- NoBlocks
  Ints = {"1", "2"}
  WideInts = {"99"}
  Floats = {"1.5"}
  Meta <- Meta2
  W <- Schema2
  RequestVars <- Vars2
  Requests <- AllRequests
  MaxDepth = 4
INVARIANTS
  AcceptedExecutes
  VariablesDefined
  MergedFieldsAgree
  AnswerIsOfTheDocument
  RecursionIsBounded
  DocumentRoundTrip
  LookAheadAgrees
CHECK_DEADLOCK FALSE
