SPECIFICATION FairSpec
CONSTANTS
  p = p
  q = q
  r = r
  eth0 = eth0
  eth1 = eth1
  Proc = {p}
  Iface <- MCIface
  NoFile = NoFile
  ReinitPanics = TRUE
  MaxStops = 0
PROPERTIES
  Recovers
