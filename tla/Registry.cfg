SPECIFICATION Spec
CONSTANTS
  p1 = p1
  p2 = p2
  Unset = Unset
  Pid = {p1, p2}
  MaxBorn = 3
  MaxForeign = 1
  Destination <- Destinations
  Setting <- Settings
SYMMETRY Pids
INVARIANTS TypeOK NoChain PushedPinned  SignalsTheRelay ChoiceIsSole SoleIsFound LabelIsHost
CHECK_DEADLOCK FALSE
