SPECIFICATION FairSpec
CONSTANTS
  Preamble <- Magic
  Slack = 2
  Opening <- Openings
  Greeting <- Clients
  Here <- Local
  Skew <- Skews
  MaxNow = 3
  MaxSaid = 4
  Ages = {0, 3}
INVARIANTS TypeOK PreambleJudged OffsetsWithinLatency  ByeMeansAll
PROPERTIES ImplementsFeed EndIsHeard
CHECK_DEADLOCK FALSE
