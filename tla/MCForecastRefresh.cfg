CONSTANTS
  f1 = f1
  f2 = f2
  w1 = w1
  w2 = w2
  None = None
  Refreshes = {f1, f2}
  Workers = {w1, w2}
  MaxImports = 2
  MaxFaults = 2
  MaxDirect = 0
SYMMETRY Symmetry
SPECIFICATION Spec
INVARIANTS
  TypeOK
  FreshRefreshIsCurrent
  OneRunPerRefresh
  CompletedIsPublished
  OneActive
CHECK_DEADLOCK FALSE
