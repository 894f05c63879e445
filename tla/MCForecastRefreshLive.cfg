CONSTANTS
  f1 = f1
  f2 = f2
  w1 = w1
  w2 = w2
  None = None
  Refreshes = {f1, f2}
  Workers = {w1, w2}
  MaxImports = 0
  MaxFaults = 1
  MaxDirect = 1
SPECIFICATION FairSpec
PROPERTY
  NoEternalSpinner
CHECK_DEADLOCK FALSE
