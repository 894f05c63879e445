CONSTANTS
  s1 = s1
  s2 = s2
  Subs = {s1, s2}
  MaxEvents = 3
  MaxFaults = 1
  r1 = r1
  r2 = r2
  u1 = u1
  u2 = u2
  Returns = {r1, r2}
  Uploads = {u1, u2}
  Nobody = Nobody
  Payloads <- MCPayloads
  Sold = 2
  Paid = 1
  m1 = m1
  m2 = m2
  x1 = x1
  k1 = k1
  sold3 = sold3
  future = future
  Imports = {m1, m2}
  Removers = {x1}
  Subjects = {k1}
  SaleValues = {sold3, future}
  Invalid = {future}
  NoImport = NoImport
  MaxLines = 2
  MaxRows = 4
INIT Init
NEXT Next
SYMMETRY Symmetry
INVARIANTS
  ActiveIsVouchedFor
  LatestEventWins
  
PROPERTIES
  ReturnsKeepAccount
  SoldOnce
CHECK_DEADLOCK FALSE
