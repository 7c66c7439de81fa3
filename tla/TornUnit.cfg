SPECIFICATION Spec
CONSTANTS
  t1 = t1
  t2 = t2
  Threads = {t1, t2}
  Children = {}
  Observed <- OnlySeconds
  Declared <- NoUnit
  MaxSwaps = 1
INVARIANT RegisteredUnitIsWhole
