CONSTANTS
  r1 = r1
  r2 = r2
  d1 = d1
  Nobody = Nobody
  Orphan = Orphan
  Replicas = {r1, r2}
  Tickers = {r1, r2}
  Deliveries = {d1}
  MaxSlips = 1
  MaxCrashes = 1
  MaxAttempts = 2
  MaxManual = 1
  MaxHiccups = 1
SPECIFICATION FairWorkSpec
INVARIANTS
  OneLeaderUntilSlip
  SucceededWasAnswered
  DeadLetterIsEarned
PROPERTIES
  OnlyOwnLeaseReleased
  DeliveriesEnd
CHECK_DEADLOCK FALSE
