SPECIFICATION Spec
CONSTANTS
  NodeCount = 2
  Parent <- FlatParent
  Key <- FlatKey
  Elements <- FlatElements
  MaxParallelism = 3
INVARIANTS
  PanicsAreHandled
