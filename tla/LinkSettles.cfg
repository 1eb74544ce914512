SPECIFICATION FairSpec
CONSTANTS
  MaxNow = 2
  WatchCap = 1
  CtlCap = 1
  StreamCap = 0
  Env <- Quiet
PROPERTY Settles
CHECK_DEADLOCK FALSE
