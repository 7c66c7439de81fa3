SPECIFICATION Spec
CONSTANTS
  t1 = t1
  Threads = {t1}
  Kind = "standalone"
  HasParent = FALSE
  Fields <- AllFields
  SetterFields <- OnlyConfigure
  MaxSwaps = 0
  MaxWrites = 1
INVARIANT RegisteredWhole
