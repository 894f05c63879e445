CONSTANTS
  o1 = o1
  b1 = b1
  b2 = b2
  key1 = key1
  None = None
  Owners = {o1}
  Attempts = {b1, b2}
  Keys = {key1}
  Deadline = 1
  Grace = 1
  Cooldown = 1
  Threshold = 2
  Amount = 1
  TokenLimit = 1
  PerMinute = 1
  PerDay = 1
  MaxDay = 1
  MaxEpoch = 3
  c1 = c1
  c2 = c2
  c3 = c3
  hello = hello
  digest2 = digest2
  Calls = {c1, c2, c3}
  Messages = {hello, digest2}
  NoCall = NoCall
  Tries = 2
  w1 = w1
  t1 = t1
  t2 = t2
  low = low
  high = high
  Writers = {w1}
  DigestTickers = {t1, t2}
  Levels = {low, high}
  LastDay = 2
  q1 = q1
  q2 = q2
  q3 = q3
  Requests = {q1, q2, q3}
  MaxRuns = 3
  p1 = p1
  p2 = p2
  Readers = {p1, p2}
  MaxWrites = 2
  i1 = i1
  i2 = i2
  i3 = i3
  i4 = i4
  Inferences = {i1, i2, i3, i4}
  MaxConcurrent = 2
  MaxQueued = 1
  Burst = 2
  north = north
  south = south
  west = west
  Stores = {north, south, west}
  Profiles <- MCProfiles
  Supplies = {0, 3, 5}
  PackSizes = {1, 2}
  Review = 1
  MinAllocation = 2
  MinTransfer = 1
  TransferLead = 1
  Parts = 60
  n1 = n1
  n2 = n2
  f1 = f1
  f2 = f2
  a1 = a1
  Planners = {n1, n2}
  Refreshers = {f1, f2}
  Items = {a1}
  MaxRecs = 2
INIT Init
NEXT Next
INVARIANTS
  StateTypeOK
  BudgetWithinLimit
  CounterMatchesReceipts
  AcceptedOnce
  RecordIsTrue
  SentOnceADay
  SameAnswer
  FreshAfterInvalidation
  ThrottleAccounts
  RationedEvenly
  DonorsKeepTheirDemand
PROPERTIES
  BreakerSpec
  DecisionsStand
CHECK_DEADLOCK FALSE
