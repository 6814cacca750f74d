SPECIFICATION Spec
CONSTANTS
  a = a
  b = b
  s1 = s1
  s2 = s2
  s3 = s3
  c1 = c1
  IP = {a, b}
  Slot = {s1, s2, s3}
  NoSlot = NoSlot
  Absent = Absent
  MaxEntries = 2
  CPU = {c1}
  Frames <- MCFrames
  NoFrame = NoFrame
  EndTimes = {0, 1, 3}
  Word = 4
  MaxBoot = 2
SYMMETRY Symmetry
INVARIANTS
  FrameBounds
  VerdictLinearizable
  DropOnlyListed
