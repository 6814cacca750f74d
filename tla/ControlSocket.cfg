SPECIFICATION FairSpec
CONSTANTS
  a = a
  b = b
  cidr = cidr
  x = x
  y = y
  IP = {a, b}
  NotIp = {cidr}
  NoTtl = NoTtl
  Ttls = {7, 8}
  NsPerSec = 2
  Word = 16
  Client = {x, y}
  Requests <- MCRequests
  Absent = Absent
  MaxEntries = 1
  Backlog = 2
  OverflowChecks = {TRUE, FALSE}
  UtcTimes = {2, 9}
  MaxStarts = 2
INVARIANTS
  ConnectOrder
  OnlyWholeRequests
PROPERTIES
  ImplementsBanService
  EveryClientReturns
