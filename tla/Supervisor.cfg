SPECIFICATION FairSpec
CONSTANTS
  Host = {h1}
  Call = {c1, c2}
  Main = main
  Pid = {p1, p2}
  None = none
  MaxBorn = 2
  Env = {"fail", "reuse", "down", "refuse", "crash"}
INVARIANTS TypeOK OneRelayPerHost NoRelayUnowned ListedIsBacked
PROPERTIES  EverythingWithdrawn
CHECK_DEADLOCK FALSE
