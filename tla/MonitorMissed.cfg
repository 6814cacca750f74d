SPECIFICATION FairSpec
CHECK_DEADLOCK FALSE
CONSTANTS
  s = s
  t = t
  Task = {s, t}
  Conns <- MCTcpConns
  Capacity = 1
  Nothing = Nothing
  MaxConns = 2
  MaxTime = 0
PROPERTIES
  EveryConnectionShown
