SPECIFICATION FairSpec
CONSTANTS
  t1 = t1
  t2 = t2
  Threads = {t1, t2}
  Kind = "scope"
  HasParent = TRUE
  Fields <- OneField
  SetterFields <- OnlyConfigure
  MaxSwaps = 1
  MaxWrites = 1
CONSTRAINT TwoReconfigurations
INVARIANTS TypeOK BindingIsFresh
PROPERTY UseReturns
