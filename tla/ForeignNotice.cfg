SPECIFICATION Spec
CONSTANTS
  t1 = t1
  c1 = c1
  Threads = {t1}
  Children = {c1}
  Observed <- OnlySeconds
  Declared <- NoUnit
  MaxSwaps = 1
INVARIANT NoticeHasOwnHandle
