SPECIFICATION Spec
CONSTANTS
  t1 = t1
  t2 = t2
  t3 = t3
  Threads = {t1, t2, t3}
  lib = lib
  app = app
  Names = {lib, app}
  custom = custom
  Given = {custom}
SYMMETRY Symmetric
INVARIANTS TypeOK ScopesInv OneScopePerName EveryoneSharesTheScope
PROPERTY ImplementsDirectory
