SPECIFICATION Spec
CONSTANTS
  MaxNow = 2
  WatchCap = 1
  CtlCap = 1
  StreamCap = 1
  Env <- Talking
INVARIANT WithdrawnOnError
CHECK_DEADLOCK FALSE
