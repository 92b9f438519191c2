SPECIFICATION Spec
CONSTANTS
  f1 = f1
  f2 = f2
  None = None
  Firers = {f1}
  Closers = {f1}
  MaxEvents = 1
  MaxParallelism = 2
  RootKinds = {"async"}
  MaxAbandoned = 0
  Reader = "drains"
PROPERTIES
  FiringReturns
CHECK_DEADLOCK FALSE
