CONSTANTS
  r1 = r1
  r2 = r2
  x = x
  headers = headers
  off = off
  None = None
  Requests = {r1, r2}
  MaxRetries = 1
  Slack = 1
  Delays = {0}
  Payloads = {x}
  Cacheable = {x}
  Policies = {headers, off}
  Permitting = {headers}
  MaxChanges = 1
  Owners <- MCOwners
  Attempts <- MCAttempts
  Keys <- MCKeys
  Deadline = 3
  Grace = 1
  Cooldown = 1
  Threshold = 1
  Amount = 1
  TokenLimit = 3
  PerMinute = 1
  PerDay = 1
  MaxDay = 1
SYMMETRY Symmetry
SPECIFICATION Spec
INVARIANTS
  TypeOK
  SingleFlight
  CallOnlyOnMiss
  DispatchAccounted
PROPERTIES
  WithdrawnConsentStops
CHECK_DEADLOCK FALSE
