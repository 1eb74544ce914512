SPECIFICATION FairSpec
CONSTANTS
  InboundCap = 1
  AckBacklog = 2
  Conns <- OneWay
INVARIANTS TypeOK OneRequest NoStreamLost
PROPERTIES SignalEnds OpenAnswered EndSpreads
CHECK_DEADLOCK FALSE
