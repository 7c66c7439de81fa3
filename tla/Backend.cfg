SPECIFICATION Spec
CONSTANTS
  a1 = a1
  a2 = a2
  a3 = a3
  a4 = a4
  Addresses = {a1, a2, a3, a4}
  Metrics <- AllMetrics
  Labeled <- WithChildren
  DynamicLabels <- OneDynamic
  Payloads <- Versions
  States <- OneState
  RefusedMetrics <- MayFail
  RefusedLabels <- Clashing
  Null = Null
  MaxUsers = 3
  MaxSamples = 5
SYMMETRY Symmetric
INVARIANTS TypeOK BackendMatchesLedger LatestPayloadExported SoleHandleReplaces
CHECK_DEADLOCK FALSE
