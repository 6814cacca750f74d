SPECIFICATION Spec
CHECK_DEADLOCK FALSE
CONSTANTS
  s = s
  t = t
  Task = {s, t}
  Conns <- MCAnycastConns
  Capacity = 1
  Nothing = Nothing
  MaxConns = 2
  MaxTime = 0
INVARIANT
  EndpointsShown
