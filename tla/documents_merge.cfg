SPECIFICATION Spec
CONSTANTS
  Alphabet <- SortedNames2
  Strings <- Quoted2
  Blocks <- NoBlocks
  Ints = {"1", "2"}
  WideInts = {"99"}
  Floats = {"1.5"}
  Meta <- Meta2
  W <- Schema2
  RequestVars <- Vars2
  Requests <- AllRequests
  MaxDepth = 4
INVARIANTS
  FragmentsOnlyAdd
CHECK_DEADLOCK FALSE
