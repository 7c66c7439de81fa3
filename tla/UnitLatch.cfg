SPECIFICATION Spec
CONSTANTS
  t1 = t1
  t2 = t2
  c1 = c1
  Threads = {t1, t2}
  Children = {c1}
  Observed <- Dimensional
  Declared <- NoUnit
  MaxSwaps = 1
CONSTRAINT ThreeSamples
SYMMETRY Symmetric
INVARIANTS TypeOK KindsAgree DroppedSampleLatchesNothing OneNotice SeriesOfItsAdapter
