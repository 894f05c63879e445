CONSTANTS
  r1 = r1
  r2 = r2
  x = x
  y = y
  headers = headers
  None = None
  Requests = {r1, r2}
  MaxRetries = 1
  Slack = 1
  Delays = {0}
  Payloads = {x, y}
  Cacheable = {}
  Policies = {headers}
  Permitting = {headers}
  MaxChanges = 0
  Owners <- MCOwners
  Attempts <- MCAttempts
  Keys <- MCKeys
  Deadline = 3
  Grace = 1
  Cooldown = 1
  Threshold = 1
  Amount = 1
  TokenLimit = 3
  PerMinute = 2
  PerDay = 2
  MaxDay = 0
SYMMETRY Symmetry
VIEW BreakerView
SPECIFICATION Spec
INVARIANTS
  OneProbe
PROPERTIES
  OnlyTheProbeMovesIt
CHECK_DEADLOCK FALSE
