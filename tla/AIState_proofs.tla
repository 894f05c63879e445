---------------------------- MODULE AIState_proofs ----------------------------
(* Theorems about the scripts of the AI gateway, for every number of callers,
   attempts, keys and days and every setting of the limits.                   *)
EXTENDS AIState, Sums_proofs

-----------------------------------------------------------------------------
(* The breaker's hash *)

\* Entering and reporting keep the types of the hash (_ENTER, _FINISH).
LEMMA EnteredType ==
  ASSUME NEW b \in BreakerType, NEW a \in Attempts
  PROVE  Entered(b, a) \in BreakerType
<1> DEFINE c == [b EXCEPT !.in[a] = b.epoch]
<1>1. b.epoch \in Nat /\ b.in \in [Attempts -> Nat \cup {None}]
  BY DEF BreakerType
<1>2. c \in BreakerType
  BY <1>1 DEF BreakerType
<1>3. LeaseTTL \in Nat
  BY TimeAssumption DEF LeaseTTL
<1>4. [c EXCEPT !.probe = a, !.probeLeft = LeaseTTL] \in BreakerType
  BY <1>2, <1>3 DEF BreakerType
<1> QED BY <1>2, <1>4 DEF Entered

\* See EnteredType.
LEMMA ReportedType ==
  ASSUME NEW b \in BreakerType, NEW a \in Attempts, NEW status \in Statuses
  PROVE  Reported(b, a, status) \in BreakerType
<1> DEFINE c == Left(b, a)
<1>1. c \in BreakerType
  BY DEF BreakerType, Left
<1>2. DropProbe(c) \in BreakerType
  BY <1>1 DEF BreakerType, DropProbe
<1>3. Closing(c) \in BreakerType
  BY <1>1 DEF BreakerType, Closing
<1>4. Opening(c) \in BreakerType
  BY <1>1, TimeAssumption DEF BreakerType, Opening
<1>5. [c EXCEPT !.failures = @ + 1] \in BreakerType
  BY <1>1 DEF BreakerType
<1>6. status \in {"neutral", "success", "failure"}
  BY DEF Statuses
<1> HIDE DEF c
<1> QED BY <1>1, <1>2, <1>3, <1>4, <1>5, <1>6 DEF Reported, c

-----------------------------------------------------------------------------
(* Types, and the budget, which needs them *)

\* What one step of any caller does to the budget: tokens are taken only within
\* the limit, and a settlement never adds to what its reservation took.
StateInv == StateTypeOK /\ BudgetWithinLimit

\* Types and budget hold at first.
LEMMA InitStateInv == StateInit => StateInv
<1> SUFFICES ASSUME StateInit PROVE StateInv
  OBVIOUS
<1>1. ClosedBreaker \in BreakerType
  BY DEF ClosedBreaker, BreakerType
<1>2. 0 \in Days /\ Amount \in Nat /\ TokenLimit \in Nat
  BY LimitAssumption DEF Days
<1>3. StateTypeOK
  BY <1>1, <1>2 DEF StateInit, StateTypeOK, Free
<1>4. BudgetWithinLimit
  BY <1>2 DEF StateInit, BudgetWithinLimit
<1> QED BY <1>3, <1>4 DEF StateInv

\* A script that touches one key leaves the types of the others.
LEMMA NextStateInv == StateInv /\ [StateNext]_stateVars => StateInv'
<1> SUFFICES ASSUME StateInv, [StateNext]_stateVars PROVE StateInv'
  OBVIOUS
<1> USE DEF StateInv
<1>0. /\ Deadline \in Nat /\ Grace \in Nat \ {0} /\ LeaseTTL \in Nat
      /\ Amount \in Nat /\ TokenLimit \in Nat /\ MaxDay \in Nat
  BY TimeAssumption, LimitAssumption DEF LeaseTTL
<1>1. ASSUME NEW k \in Keys, NEW o \in Owners, Acquire(k, o) \/ Release(k, o) \/ Put(k, o)
      PROVE  StateInv'
  <2>1. CASE Acquire(k, o)
    BY <1>0, <2>1 DEF Acquire, StateTypeOK, BudgetWithinLimit
  <2>2. CASE Release(k, o)
    BY <2>2 DEF Release, Free, StateTypeOK, BudgetWithinLimit
  <2>3. CASE Put(k, o)
    BY <2>3 DEF Put, StateTypeOK, BudgetWithinLimit
  <2> QED BY <1>1, <2>1, <2>2, <2>3
<1>2. ASSUME NEW k \in Keys, CacheExpire(k)
      PROVE  StateInv'
  BY <1>2 DEF CacheExpire, StateTypeOK, BudgetWithinLimit
<1>3. CASE Admit
  BY <1>3 DEF Admit, StateTypeOK, BudgetWithinLimit
<1>4. CASE NewMinute
  BY <1>4 DEF NewMinute, StateTypeOK, BudgetWithinLimit
<1>5. CASE NewDay
  BY <1>0, <1>5 DEF NewDay, Days, StateTypeOK, BudgetWithinLimit
<1>6. ASSUME NEW a \in Attempts, Reserve(a)
      PROVE  StateInv'
  <2>1. CASE receipts[a].state # "none" /\ UNCHANGED <<tokens, receipts>>
    BY <1>6, <2>1 DEF Reserve, StateTypeOK, BudgetWithinLimit
  <2>2. CASE /\ receipts[a].state = "none"
             /\ tokens' = [tokens EXCEPT ![day] = @ + Amount]
             /\ receipts' = [receipts EXCEPT ![a] =
                  [state |-> "reserved", day |-> day, charge |-> Amount]]
    <3>1. StateTypeOK'
      BY <1>0, <1>6, <2>2 DEF Reserve, StateTypeOK
    <3>2. tokens[day] + Amount <= TokenLimit
      BY <1>6, <2>2 DEF Reserve, CanReserve
    <3>3. BudgetWithinLimit'
      BY <2>2, <3>2 DEF StateTypeOK, BudgetWithinLimit
    <3> QED BY <3>1, <3>3
  <2> QED BY <1>6, <2>1, <2>2 DEF Reserve
<1>7. ASSUME NEW a \in Attempts, NEW usage \in 0 .. Amount, Settle(a, usage)
      PROVE  StateInv'
  <2>1. CASE receipts[a].state # "reserved" /\ UNCHANGED <<tokens, receipts>>
    BY <1>7, <2>1 DEF Settle, StateTypeOK, BudgetWithinLimit
  <2>2. CASE /\ receipts[a].state = "reserved"
             /\ tokens' = [tokens EXCEPT ![receipts[a].day] = @ + (usage - Amount)]
             /\ receipts' = [receipts EXCEPT ![a].state = "settled",
                                             ![a].charge = usage]
    <3>1. usage - Amount \in Int /\ usage - Amount <= 0 /\ receipts[a].day \in Days
      BY <1>0 DEF StateTypeOK
    <3>2. tokens' \in [Days -> Int]
      BY <2>2, <3>1 DEF StateTypeOK
    <3>3. receipts'\in [Attempts -> [state : {"none", "reserved", "settled"},
                                     day : Days, charge : 0 .. Amount]]
      BY <2>2 DEF StateTypeOK
    <3>4. StateTypeOK'
      <4>1. UNCHANGED <<lease, cache, requests, day, breaker>>
        BY <1>7 DEF Settle
      <4> QED BY <3>2, <3>3, <4>1 DEF StateTypeOK
    <3>5. BudgetWithinLimit'
      BY <1>0, <2>2, <3>1 DEF StateTypeOK, BudgetWithinLimit
    <3> QED BY <3>4, <3>5
  <2> QED BY <1>7, <2>1, <2>2 DEF Settle
<1>8. ASSUME NEW a \in Attempts, BreakerEnter(a)
      PROVE  StateInv'
  BY <1>8, EnteredType DEF BreakerEnter, StateTypeOK, BudgetWithinLimit
<1>9. ASSUME NEW a \in Attempts, NEW status \in Statuses, BreakerFinish(a, status)
      PROVE  StateInv'
  BY <1>9, ReportedType DEF BreakerFinish, StateTypeOK, BudgetWithinLimit
<1>10. CASE StateTick
  <2>1. lease' \in [Keys -> [owner : Owners \cup {None}, left : Nat]]
    BY <1>10 DEF StateTick, LeaseTick, Free, StateTypeOK
  <2>2. breaker' \in BreakerType
    <3>1. breaker \in BreakerType
      BY DEF StateTypeOK
    <3>2. \A n \in Nat : Dec(n) \in Nat
      BY DEF Dec
    <3>3. Dec(breaker.left) \in Nat /\ Dec(breaker.probeLeft) \in Nat
      BY <3>1, <3>2 DEF BreakerType
    <3>4. breaker' = [breaker EXCEPT !.left = Dec(breaker.left),
                                     !.probeLeft = Dec(breaker.probeLeft)]
      BY <1>10 DEF StateTick
    <3> QED BY <3>1, <3>3, <3>4 DEF BreakerType
  <2> QED BY <1>10, <2>1, <2>2 DEF StateTick, StateTypeOK, BudgetWithinLimit
<1>11. CASE UNCHANGED stateVars
  BY <1>11 DEF stateVars, StateTypeOK, BudgetWithinLimit
<1> QED
  BY <1>1, <1>2, <1>3, <1>4, <1>5, <1>6, <1>7, <1>8, <1>9, <1>10, <1>11
  DEF StateNext

\* The keys of state.py keep their types whatever callers do.
THEOREM StateTypeCorrect == StateSpec => []StateTypeOK
<1>1. StateInv => StateTypeOK
  BY DEF StateInv
<1> QED BY InitStateInv, NextStateInv, <1>1, PTL DEF StateSpec

\* No day's counter ever exceeds llm_daily_token_limit (_RESERVE, _SETTLE).
THEOREM BudgetHolds == StateSpec => []BudgetWithinLimit
<1>1. StateInv => BudgetWithinLimit
  BY DEF StateInv
<1> QED BY InitStateInv, NextStateInv, <1>1, PTL DEF StateSpec

-----------------------------------------------------------------------------
(* The counters and the receipts *)

\* What the attempts were charged on day d.
Charges(d) == [a \in Attempts |-> IF receipts[a].day = d THEN receipts[a].charge ELSE 0]

\* An attempt without a reservation was charged nothing, and a settlement has the whole
\* reservation to give back: the script adds usage - Amount without reading the charge.
CounterInv ==
  /\ \A a \in Attempts : /\ receipts[a].state = "none" => receipts[a].charge = 0
                         /\ receipts[a].state = "reserved" => receipts[a].charge = Amount
  /\ \A d \in Days : tokens[d] = SumFunctionOnSet(Charges(d), Attempts)

\* A script that writes one receipt and one counter.
LEMMA ReceiptStep ==
  ASSUME StateTypeOK, StateTypeOK', NEW a \in Attempts, NEW day0 \in Days, NEW change \in Int,
         \A o \in Attempts \ {a} : receipts'[o] = receipts[o],
         tokens' = [tokens EXCEPT ![day0] = @ + change],
         \A d \in Days : Charges(d)'[a] - Charges(d)[a] = IF d = day0 THEN change ELSE 0,
         NEW d \in Days, tokens[d] = SumFunctionOnSet(Charges(d), Attempts)
  PROVE  tokens'[d] = SumFunctionOnSet(Charges(d)', Attempts)
<1>1. \A o \in Attempts : Charges(d)[o] \in Int /\ Charges(d)'[o] \in Int
  BY LimitAssumption DEF StateTypeOK, Charges
<1>2. \A o \in Attempts \ {a} : Charges(d)'[o] = Charges(d)[o]
  BY DEF Charges
<1>3. SumFunctionOnSet(Charges(d)', Attempts)
        = SumFunctionOnSet(Charges(d), Attempts) + (Charges(d)'[a] - Charges(d)[a])
  BY <1>1, <1>2, LimitAssumption, SumChange
<1>4. tokens[d] \in Int /\ tokens'[d] = tokens[d] + IF d = day0 THEN change ELSE 0
  BY DEF StateTypeOK
<1> QED BY <1>3, <1>4

\* Every script keeps the account; _RESERVE adds to a receipt and to its day's counter,
\* _SETTLE corrects both by the same amount.
LEMMA NextCounter == StateInv /\ StateInv' /\ CounterInv /\ [StateNext]_stateVars => CounterInv'
<1> SUFFICES ASSUME StateInv, StateInv', CounterInv, [StateNext]_stateVars PROVE CounterInv'
  OBVIOUS
<1> USE DEF StateInv
<1>0. Amount \in Nat
  BY LimitAssumption
<1>1. CASE UNCHANGED <<tokens, receipts>>
  BY <1>1 DEF CounterInv, Charges
<1>2. ASSUME NEW a \in Attempts, Reserve(a), receipts[a].state = "none",
             tokens' = [tokens EXCEPT ![day] = @ + Amount],
             receipts' = [receipts EXCEPT ![a] =
                            [state |-> "reserved", day |-> day, charge |-> Amount]]
      PROVE  CounterInv'
  <2>1. /\ \A o \in Attempts \ {a} : receipts'[o] = receipts[o]
        /\ receipts'[a] = [state |-> "reserved", day |-> day, charge |-> Amount]
        /\ receipts[a].charge = 0 /\ day \in Days
    BY <1>2 DEF StateTypeOK, CounterInv
  <2>2. \A d \in Days : Charges(d)'[a] - Charges(d)[a] = IF d = day THEN Amount ELSE 0
    BY <1>0, <2>1 DEF Charges
  <2>3. PICK day0 \in Days : day0 = day
    BY <2>1
  <2>4. PICK change \in Int : change = Amount
    BY <1>0
  <2>5. \A d \in Days : tokens'[d] = SumFunctionOnSet(Charges(d)', Attempts)
    BY <1>2, <2>1, <2>2, <2>3, <2>4, ReceiptStep DEF CounterInv
  <2> QED BY <2>1, <2>5 DEF CounterInv
<1>3. ASSUME NEW a \in Attempts, NEW usage \in 0 .. Amount, Settle(a, usage),
             receipts[a].state = "reserved",
             tokens' = [tokens EXCEPT ![receipts[a].day] = @ + (usage - Amount)],
             receipts' = [receipts EXCEPT ![a].state = "settled", ![a].charge = usage]
      PROVE  CounterInv'
  <2>1. /\ \A o \in Attempts \ {a} : receipts'[o] = receipts[o]
        /\ receipts'[a].state = "settled" /\ receipts'[a].charge = usage
        /\ receipts'[a].day = receipts[a].day
        /\ receipts[a].charge = Amount
    BY <1>3 DEF StateTypeOK, CounterInv
  <2>2. \A d \in Days : Charges(d)'[a] - Charges(d)[a]
                        = IF d = receipts[a].day THEN usage - Amount ELSE 0
    BY <1>0, <2>1 DEF Charges
  <2>3. usage - Amount \in Int
    BY <1>0
  <2>4. PICK day0 \in Days : day0 = receipts[a].day
    BY DEF StateTypeOK
  <2>5. PICK change \in Int : change = usage - Amount
    BY <2>3
  <2>6. \A d \in Days : tokens'[d] = SumFunctionOnSet(Charges(d)', Attempts)
    BY <1>3, <2>1, <2>2, <2>4, <2>5, ReceiptStep DEF CounterInv
  <2> QED BY <2>1, <2>6 DEF CounterInv
<1> QED BY <1>1, <1>2, <1>3
        DEF StateNext, stateVars, Acquire, Release, Put, CacheExpire, Admit, NewMinute, NewDay,
            Reserve, Settle, BreakerEnter, BreakerFinish, StateTick

\* A day's counter is the sum of what the receipts of that day were charged, through any
\* order of reservations and settlements and on either side of midnight.
THEOREM CounterIsTheSum == StateSpec => []CounterMatchesReceipts
<1>1. StateInit => CounterInv
  <2> SUFFICES ASSUME StateInit PROVE CounterInv
    OBVIOUS
  <2>1. \A d \in Days : SumFunctionOnSet(Charges(d), Attempts) = SumFunctionOnSet(Charges(d), {})
    BY LimitAssumption, SumWhere DEF StateInit, Charges
  <2> QED BY <2>1, SumEmpty DEF StateInit, CounterInv
<1>2. StateInv /\ CounterInv => CounterMatchesReceipts
  <2> SUFFICES ASSUME StateInv, CounterInv, NEW d \in Days
               PROVE  LET ofDay == {a \in Attempts : receipts[a].day = d}
                      IN  tokens[d] = SumFunctionOnSet([a \in Attempts |-> receipts[a].charge], ofDay)
    BY DEF CounterMatchesReceipts
  <2> DEFINE ofDay == {a \in Attempts : receipts[a].day = d}
             all   == [a \in Attempts |-> receipts[a].charge]
  <2>1. /\ ofDay \in SUBSET Attempts
        /\ \A a \in ofDay : all[a] \in Int /\ Charges(d)[a] = all[a]
        /\ \A a \in Attempts \ ofDay : Charges(d)[a] = 0
    BY LimitAssumption DEF StateInv, StateTypeOK, Charges
  <2> HIDE DEF ofDay, all
  <2>2. SumFunctionOnSet(Charges(d), Attempts) = SumFunctionOnSet(all, ofDay)
    BY <2>1, LimitAssumption, SumWhere
  <2> QED BY <2>2 DEF CounterInv, ofDay, all
<1> QED BY InitStateInv, NextStateInv, NextCounter, <1>1, <1>2, PTL DEF StateSpec

-----------------------------------------------------------------------------
(* The breaker refines CircuitBreaker *)

\* What makes the mapping work. An epoch is never reused, so nobody is in the
\* one that comes next; an open breaker has failures enough to stay open; only
\* an open breaker has a probe.
BreakerInv ==
  /\ breaker \in BreakerType
  /\ \A a \in Attempts : breaker.in[a] # None => breaker.in[a] <= breaker.epoch
  /\ breaker.open => breaker.failures >= Threshold
  /\ breaker.probe # None => breaker.open

\* The attempts of the current epoch, as the mapping sees them.
Current == {a \in Attempts : breaker.in[a] = breaker.epoch}

\* The breaker starts closed, without failures or probes.
LEMMA InitBreakerInv == StateInit => BreakerInv
<1> SUFFICES ASSUME StateInit PROVE BreakerInv
  OBVIOUS
<1>1. breaker = ClosedBreaker
  BY DEF StateInit
<1>2. ClosedBreaker \in BreakerType
  BY DEF ClosedBreaker, BreakerType
<1> QED BY <1>1, <1>2 DEF BreakerInv, ClosedBreaker

\* An attempt that enters is in the current epoch, with the probe if it is open.
LEMMA EnterImplements ==
  ASSUME BreakerInv, NEW a \in Attempts, BreakerEnter(a)
  PROVE  /\ BreakerInv'
         /\ Breaker!Admit(a)
<1>1. breaker \in BreakerType /\ breaker' = Entered(breaker, a)
  BY DEF BreakerInv, BreakerEnter
<1>2. breaker' \in BreakerType
  BY <1>1, EnteredType
<1>3. /\ breaker'.open = breaker.open /\ breaker'.failures = breaker.failures
      /\ breaker'.epoch = breaker.epoch
      /\ breaker'.in = [breaker.in EXCEPT ![a] = breaker.epoch]
      /\ breaker'.probe = IF breaker.open THEN a ELSE breaker.probe
  BY <1>1 DEF Entered, BreakerType
<1>4. breaker.epoch \in Nat /\ breaker.in \in [Attempts -> Nat \cup {None}]
  BY <1>1 DEF BreakerType
<1>5. BreakerInv'
  BY <1>2, <1>3, <1>4 DEF BreakerInv
<1>6. Current' = Current \cup {a}
  BY <1>3, <1>4 DEF Current
<1> QED BY <1>3, <1>5, <1>6 DEF Breaker!Admit, Current

\* A report without consequence only takes its author out of the epoch.
LEMMA IgnoredReport ==
  ASSUME BreakerInv, NEW a \in Attempts, breaker' \in BreakerType,
         \/ breaker' = Left(breaker, a)
         \/ breaker' = DropProbe(Left(breaker, a))
  PROVE  BreakerInv' /\ Breaker!Ignore(a)
<1>1. breaker \in BreakerType
  BY DEF BreakerInv
<1>2. /\ breaker'.open = breaker.open /\ breaker'.failures = breaker.failures
      /\ breaker'.epoch = breaker.epoch
      /\ breaker'.in = [breaker.in EXCEPT ![a] = None]
      /\ breaker'.probe \in {None, breaker.probe}
  BY <1>1 DEF Left, DropProbe, BreakerType
<1>3. /\ breaker.epoch \in Nat /\ breaker.in \in [Attempts -> Nat \cup {None}]
      /\ None \notin Nat
  BY <1>1, NoneAssumption DEF BreakerType
<1>4. BreakerInv'
  BY <1>2, <1>3 DEF BreakerInv
<1>5. Current' = Current \ {a}
  BY <1>2, <1>3 DEF Current
<1> QED BY <1>2, <1>4, <1>5 DEF Breaker!Ignore, Current

\* A change of the breaker starts an epoch that nobody is in.
LEMMA NewEpoch ==
  ASSUME BreakerInv, NEW a \in Attempts, breaker' \in BreakerType,
         breaker'.epoch = breaker.epoch + 1,
         breaker'.in = [breaker.in EXCEPT ![a] = None]
  PROVE  /\ Current' = {}
         /\ \A x \in Attempts : breaker'.in[x] # None => breaker'.in[x] <= breaker'.epoch
<1>1. /\ breaker.epoch \in Nat /\ breaker.in \in [Attempts -> Nat \cup {None}]
      /\ None \notin Nat
  BY NoneAssumption DEF BreakerInv, BreakerType
<1>2. \A x \in Attempts : breaker'.in[x] # None => breaker'.in[x] <= breaker.epoch
  BY <1>1 DEF BreakerInv
<1>3. \A x \in Attempts : breaker'.in[x] \in Nat \cup {None}
  BY DEF BreakerType
<1> QED BY <1>1, <1>2, <1>3 DEF Current

\* Reporting an outcome is one of the four reports of CircuitBreaker.
LEMMA FinishImplements ==
  ASSUME BreakerInv, NEW a \in Attempts, NEW status \in Statuses,
         BreakerFinish(a, status)
  PROVE  BreakerInv' /\ Breaker!Next
<1> DEFINE c == Left(breaker, a)
<1>1. breaker \in BreakerType /\ breaker' = Reported(breaker, a, status)
  BY DEF BreakerInv, BreakerFinish
<1>2. breaker' \in BreakerType
  BY <1>1, ReportedType
<1>3. /\ c.open = breaker.open /\ c.failures = breaker.failures
      /\ c.epoch = breaker.epoch /\ c.probe = breaker.probe
      /\ c.in = [breaker.in EXCEPT ![a] = None]
  BY <1>1 DEF Left, BreakerType
<1>4. breaker.failures \in Nat /\ Threshold \in Nat \ {0}
  BY <1>1, LimitAssumption DEF BreakerType
<1>5. CASE ~ Counts(breaker, a) \/ status = "neutral"
  <2>1. breaker' = c \/ breaker' = DropProbe(c)
    BY <1>1, <1>5 DEF Reported
  <2> QED BY <1>2, <2>1, IgnoredReport DEF Breaker!Next
<1>6. CASE Counts(breaker, a) /\ status = "success"
  <2>1. breaker' = Closing(c)
    BY <1>1, <1>6 DEF Reported
  <2>2. Current' = {} /\ a \in Current
    BY <1>2, <1>3, <1>6, <2>1, NewEpoch DEF Closing, Counts, Current
  <2>3. BreakerInv'
    BY <1>2, <1>3, <2>1, NewEpoch DEF Closing, BreakerInv
  <2>4. Breaker!Succeed(a)
    BY <2>1, <2>2 DEF Breaker!Succeed, Closing, Current
  <2> QED BY <2>3, <2>4 DEF Breaker!Next
<1>7. CASE Counts(breaker, a) /\ status = "failure" /\ Trips(breaker)
  <2>1. breaker' = Opening(c)
    BY <1>1, <1>7 DEF Reported
  <2>2. Current' = {} /\ a \in Current
    BY <1>2, <1>3, <1>7, <2>1, NewEpoch DEF Opening, Counts, Current
  <2>3. breaker.failures + 1 >= Threshold
    BY <1>4, <1>7 DEF Trips, BreakerInv
  <2>4. BreakerInv'
    BY <1>2, <1>3, <2>1, <2>3, NewEpoch DEF Opening, BreakerInv
  <2>5. Breaker!Trip(a)
    BY <1>3, <2>1, <2>2, <2>3 DEF Breaker!Trip, Opening, Current
  <2> QED BY <2>4, <2>5 DEF Breaker!Next
<1>8. CASE Counts(breaker, a) /\ status = "failure" /\ ~ Trips(breaker)
  <2>1. breaker' = [c EXCEPT !.failures = @ + 1]
    BY <1>1, <1>8 DEF Reported
  <2>2. breaker.probe = None /\ ~ breaker.open /\ breaker.failures + 1 < Threshold
    BY <1>4, <1>8 DEF Trips, BreakerInv
  <2>3. c \in BreakerType
    BY <1>1 DEF BreakerType, Left
  <2>4. /\ breaker'.open = breaker.open /\ breaker'.probe = breaker.probe
        /\ breaker'.epoch = breaker.epoch
        /\ breaker'.in = [breaker.in EXCEPT ![a] = None]
        /\ breaker'.failures = breaker.failures + 1
    BY <1>3, <2>1, <2>3 DEF BreakerType
  <2>5. /\ breaker.epoch \in Nat /\ breaker.in \in [Attempts -> Nat \cup {None}]
        /\ None \notin Nat
    BY <1>1, NoneAssumption DEF BreakerType
  <2>6. BreakerInv'
    BY <1>2, <2>2, <2>4, <2>5 DEF BreakerInv
  <2>7. Current' = Current \ {a} /\ a \in Current
    BY <1>8, <2>4, <2>5 DEF Current, Counts
  <2>8. Breaker!Fail(a)
    BY <2>2, <2>4, <2>7 DEF Breaker!Fail, Current
  <2> QED BY <2>6, <2>8 DEF Breaker!Next
<1> QED BY <1>5, <1>6, <1>7, <1>8 DEF Statuses

\* Every other script, and time, leaves the abstract breaker as it is.
LEMMA OtherStep ==
  ASSUME BreakerInv,
         \/ UNCHANGED breaker
         \/ breaker' = [breaker EXCEPT !.left = Dec(@), !.probeLeft = Dec(@)]
  PROVE  BreakerInv' /\ UNCHANGED Breaker!vars
<1>1. CASE UNCHANGED breaker
  BY <1>1 DEF BreakerInv, Breaker!vars
<1>2. CASE breaker' = [breaker EXCEPT !.left = Dec(@), !.probeLeft = Dec(@)]
  <2>1. breaker \in BreakerType
    BY DEF BreakerInv
  <2>2. \A n \in Nat : Dec(n) \in Nat
    BY DEF Dec
  <2>3. Dec(breaker.left) \in Nat /\ Dec(breaker.probeLeft) \in Nat
    BY <2>1, <2>2 DEF BreakerType
  <2>4. breaker' = [breaker EXCEPT !.left = Dec(breaker.left),
                                   !.probeLeft = Dec(breaker.probeLeft)]
    BY <1>2
  <2>5. breaker' \in BreakerType
    BY <2>1, <2>3, <2>4 DEF BreakerType
  <2>6. /\ breaker'.open = breaker.open /\ breaker'.failures = breaker.failures
        /\ breaker'.epoch = breaker.epoch /\ breaker'.in = breaker.in
        /\ breaker'.probe = breaker.probe
    BY <2>1, <2>4 DEF BreakerType
  <2> QED BY <2>5, <2>6 DEF BreakerInv, Breaker!vars
<1> QED BY <1>1, <1>2

\* The scripts implement the circuit breaker: failures in a row open it, only
\* what it admitted since its last change can move it (_ENTER, _FINISH).
THEOREM BreakerRefinement == StateSpec => BreakerSpec
<1>1. StateInit => Breaker!Init
  <2> SUFFICES ASSUME StateInit PROVE Breaker!Init
    OBVIOUS
  <2>1. breaker = ClosedBreaker /\ None \notin Nat
    BY NoneAssumption DEF StateInit
  <2> QED BY <2>1 DEF ClosedBreaker, Breaker!Init
<1>2. BreakerInv /\ [StateNext]_stateVars => BreakerInv' /\ [Breaker!Next]_(Breaker!vars)
  <2> SUFFICES ASSUME BreakerInv, [StateNext]_stateVars
               PROVE  BreakerInv' /\ [Breaker!Next]_(Breaker!vars)
    OBVIOUS
  <2>1. ASSUME NEW a \in Attempts, BreakerEnter(a)
        PROVE  BreakerInv' /\ Breaker!Next
    BY <2>1, EnterImplements DEF Breaker!Next
  <2>2. ASSUME NEW a \in Attempts, NEW status \in Statuses, BreakerFinish(a, status)
        PROVE  BreakerInv' /\ Breaker!Next
    BY <2>2, FinishImplements
  <2>3. CASE StateTick
    BY <2>3, OtherStep DEF StateTick
  <2>4. CASE UNCHANGED breaker
    BY <2>4, OtherStep
  <2> QED
    BY <2>1, <2>2, <2>3, <2>4
    DEF StateNext, stateVars, Acquire, Release, Put, CacheExpire, Admit,
        NewMinute, NewDay, Reserve, Settle
<1> QED BY InitBreakerInv, <1>1, <1>2, PTL DEF StateSpec, BreakerSpec, Breaker!Spec
=============================================================================
