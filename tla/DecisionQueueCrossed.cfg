CONSTANTS
  n1 = n1
  f1 = f1
  a1 = a1
  Planners = {n1}
  Refreshers = {f1}
  Items = {a1}
  MaxRecs = 2
SPECIFICATION QueueSpec
PROPERTY RefreshSparesDecisions
CHECK_DEADLOCK FALSE
