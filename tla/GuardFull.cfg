SPECIFICATION Spec
CONSTANTS
  a = a
  b = b
  d = d
  cidr = cidr
  s1 = s1
  s2 = s2
  s3 = s3
  c1 = c1
  IP = {a, b}
  NotIp = {cidr}
  NoTtl = NoTtl
  Ttls = {1}
  NsPerSec = 1
  Word = 32
  Slot = {s1, s2, s3}
  NoSlot = NoSlot
  Absent = Absent
  MaxEntries = 1
  CPU = {c1}
  Frames <- MCFrames
  NoFrame = NoFrame
  MaxBoot = 2
  Requests <- MCFull
  MaxCommands = 3
  MaxRestarts = 1
  Offsets = {0, 3}
SYMMETRY Symmetry
INVARIANT
  SuccessBlocks
