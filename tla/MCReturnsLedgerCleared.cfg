CONSTANTS
  r1 = r1
  u1 = u1
  Returns = {r1}
  Uploads = {u1}
  Nobody = Nobody
  Payloads <- MCPayloads
  Sold = 2
  Paid = 1
SPECIFICATION LedgerSpec
INVARIANT IdentitiesGoWithSales
CHECK_DEADLOCK FALSE
