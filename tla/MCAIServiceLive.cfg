CONSTANTS
  r1 = r1
  r2 = r2
  x = x
  headers = headers
  None = None
  Requests = {r1, r2}
  MaxRetries = 0
  Slack = 1
  Delays = {0}
  Payloads = {x}
  Cacheable = {x}
  Policies = {headers}
  Permitting = {headers}
  MaxChanges = 0
  Owners <- MCOwners
  Attempts <- MCAttempts
  Keys <- MCKeys
  Deadline = 2
  Grace = 1
  Cooldown = 1
  Threshold = 1
  Amount = 1
  TokenLimit = 3
  PerMinute = 2
  PerDay = 3
  MaxDay = 0
SPECIFICATION FairSpec
PROPERTIES
  EveryRequestEnds
  LeaseRecovers
  BreakerRecovers
  UsesScripts
CHECK_DEADLOCK FALSE
