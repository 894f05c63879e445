CONSTANTS
  s1 = s1
  s2 = s2
  Subs = {s1, s2}
  MaxEvents = 4
  MaxFaults = 0
SPECIFICATION BillingSpec
INVARIANT BilledOnce
CHECK_DEADLOCK FALSE
