SPECIFICATION FairSpec
CHECK_DEADLOCK FALSE
CONSTANTS
  p = p
  q = q
  r = r
  eth0 = eth0
  eth1 = eth1
  Proc = {p, q, r}
  Iface <- MCIface
  NoFile = NoFile
  ReinitPanics = FALSE
  MaxStops = 3
INVARIANTS
  DeadFileHasCause
  ReachedMeansFiltered
PROPERTIES
  Recovers
