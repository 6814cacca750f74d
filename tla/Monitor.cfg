SPECIFICATION FairSpec
CHECK_DEADLOCK FALSE
CONSTANTS
  s = s
  t = t
  Task = {s, t}
  Conns <- MCConns
  Capacity = 2
  Nothing = Nothing
  MaxConns = 3
  MaxTime = 1
INVARIANTS
  TypeOK
  ShownAsPlaced
  LineTellsConnection
PROPERTIES
  EveryPlacedShown
