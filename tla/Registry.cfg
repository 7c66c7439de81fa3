SPECIFICATION Spec
CONSTANTS
  t1 = t1
  t2 = t2
  Threads = {t1, t2}
  Kind = "registry"
  HasParent = FALSE
  Fields <- TwoFields
  SetterFields <- SomeSetters
  MaxSwaps = 2
  MaxWrites = 2
CONSTRAINT TwoReconfigurations
SYMMETRY Symmetric
INVARIANTS IInv HandleBelongsToAdapter RegistrationsAdvance BindingNeverGoesBack
PROPERTY ImplementsLiveBinding
