SPECIFICATION Spec
CONSTANTS
  MaxNow = 2
  WatchCap = 1
  CtlCap = 1
  StreamCap = 1
  Env <- Harsh
INVARIANTS TypeOK  RefusedLeavesNothing ReasonIsHeard
PROPERTIES  ImplementsGrant
CHECK_DEADLOCK FALSE
