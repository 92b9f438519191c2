SPECIFICATION Spec
CONSTANTS
  f1 = f1
  f2 = f2
  None = None
  Firers = {f1, f2}
  Closers = {f1}
  MaxEvents = 2
  MaxParallelism = 2
  RootKinds = {"direct", "async", "many", "manyAsync", "missing", "skipped"}
  MaxAbandoned = 1
  Reader = "leaves"
INVARIANTS
  OpenStreamLosesNothing
  SubscriptionInv
PROPERTIES
  StreamContract
CHECK_DEADLOCK FALSE
