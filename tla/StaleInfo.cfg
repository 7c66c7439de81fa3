SPECIFICATION Spec
CONSTANTS
  a1 = a1
  a2 = a2
  a3 = a3
  a4 = a4
  Addresses = {a1, a2, a3, a4}
  Metrics <- OnlyInfo
  Labeled = {}
  DynamicLabels = {}
  Payloads <- TwoPayloads
  States = {}
  RefusedMetrics = {}
  RefusedLabels = {}
  Null = Null
  MaxUsers = 2
  MaxSamples = 4
SYMMETRY Symmetric
INVARIANT InfoIsReplaced
CHECK_DEADLOCK FALSE
