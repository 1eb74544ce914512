SPECIFICATION FairSpec
CONSTANTS
  InboundCap = 1
  AckBacklog = 2
  Conns <- BothWays
PROPERTY SignalEnds
CHECK_DEADLOCK FALSE
