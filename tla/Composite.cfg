SPECIFICATION Spec
CONSTANTS
  t1 = t1
  t2 = t2
  requests = requests
  depth = depth
  Threads = {t1, t2}
  Metrics = {requests, depth}
  Counters = {requests}
  DynamicLabels = {"GET"}
  Entries <- Given
  Foreign <- Strangers
  Watched = 3
  MaxCalls = 8
SYMMETRY Symmetric
INVARIANTS TypeOK HandlesAligned NoSampleLostOrDoubled
PROPERTY AsIfAttached
CHECK_DEADLOCK FALSE
