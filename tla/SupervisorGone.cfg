SPECIFICATION Spec
CONSTANTS
  Host = {h1}
  Call = {c1}
  Main = main
  Pid = {p1, p2}
  None = none
  MaxBorn = 2
  Env = {}
PROPERTY GoneBeforeAnswer
CHECK_DEADLOCK FALSE
