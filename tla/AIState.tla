------------------------------- MODULE AIState -------------------------------
(* The shared Redis state of the AI gateway and the Lua scripts that change it
   (services/llm/state.py): the single-flight lease and the result cache of a
   request, the admission windows, the daily token budget with one receipt per
   provider attempt, and the circuit breaker every worker shares. A script is
   atomic in Redis, so each is one action.

   Expiry times are modelled as the time they have left: a lease, a probe and
   a cooldown count down together in Tick, which is what PX, probe_until - now
   and until - now say.                                                      *)
EXTENDS Integers, FiniteSets, Functions

CONSTANTS Owners,      \* the requests that compete for leases (owner uuids)
          Attempts,    \* provider attempts (attempt uuids)
          Keys,        \* cache keys
          None,        \* the absence of an owner, a probe or an epoch
          Deadline,    \* llm_deadline_s
          Grace,       \* the seconds a lease outlives the deadline (5 in the code)
          Cooldown,    \* llm_breaker_cooldown_s
          Threshold,   \* llm_breaker_failures
          Amount,      \* llm_max_input_bytes + llm_max_output_tokens
          TokenLimit,  \* llm_daily_token_limit
          PerMinute,   \* llm_requests_per_minute
          PerDay,      \* llm_requests_per_day
          MaxDay       \* bound: the last day that is modelled

ASSUME NoneAssumption == None \notin Owners \cup Attempts \cup Nat
ASSUME TimeAssumption ==
         Deadline \in Nat /\ Grace \in Nat \ {0} /\ Cooldown \in Nat \ {0}
ASSUME LimitAssumption ==
         /\ IsFiniteSet(Attempts) /\ Threshold \in Nat \ {0}
         /\ Amount \in Nat /\ TokenLimit \in Nat
         /\ PerMinute \in Nat /\ PerDay \in Nat /\ MaxDay \in Nat

VARIABLES lease,     \* key -> the holder of the key's lease and the time it has left
          cache,     \* key -> whether a validated result is cached
          requests,  \* requests admitted in the current minute and day
          day,       \* the current day, the suffix of the budget's keys
          tokens,    \* day -> tokens counted against the budget
          receipts,  \* attempt -> its reservation: state, day, tokens charged
          breaker    \* the breaker's hash

stateVars == <<lease, cache, requests, day, tokens, receipts, breaker>>

Days == 0 .. MaxDay

\* Mutant: a lease shorter than the deadline of its holder.
ShortTTL == Deadline - Grace

LeaseTTL == Deadline + Grace

Statuses == {"neutral", "failure", "success"}

\* Mutant: a countdown that does not stop at zero.
DecPastZero(n) == n - 1

Dec(n) == IF n > 0 THEN n - 1 ELSE 0

Free == [owner |-> None, left |-> 0]

ClosedBreaker ==
  [open |-> FALSE, left |-> 0, failures |-> 0, epoch |-> 0,
   probe |-> None, probeLeft |-> 0, in |-> [a \in Attempts |-> None]]

StateInit ==
  /\ lease = [k \in Keys |-> Free]
  /\ cache = [k \in Keys |-> FALSE]
  /\ requests = [minute |-> 0, day |-> 0]
  /\ day = 0
  /\ tokens = [d \in Days |-> 0]
  /\ receipts = [a \in Attempts |-> [state |-> "none", day |-> 0, charge |-> 0]]
  /\ breaker = ClosedBreaker

-----------------------------------------------------------------------------
(* The lease and the cache of a request *)

CanAcquire(k) == lease[k].owner = None

Acquire(k, o) ==
  /\ CanAcquire(k)
  /\ lease' = [lease EXCEPT ![k] = [owner |-> o, left |-> LeaseTTL]]
  /\ UNCHANGED <<cache, requests, day, tokens, receipts, breaker>>

Release(k, o) ==
  /\ lease' = [lease EXCEPT ![k] = IF @.owner = o THEN Free ELSE @]
  /\ UNCHANGED <<cache, requests, day, tokens, receipts, breaker>>

Put(k, o) ==
  /\ lease[k].owner = o
  /\ cache' = [cache EXCEPT ![k] = TRUE]
  /\ UNCHANGED <<lease, requests, day, tokens, receipts, breaker>>

CacheExpire(k) ==
  /\ cache[k]
  /\ cache' = [cache EXCEPT ![k] = FALSE]
  /\ UNCHANGED <<lease, requests, day, tokens, receipts, breaker>>

-----------------------------------------------------------------------------
(* Admission and the token budget *)

CanAdmit == requests.minute < PerMinute /\ requests.day < PerDay

Admit ==
  /\ CanAdmit
  /\ requests' = [minute |-> requests.minute + 1, day |-> requests.day + 1]
  /\ UNCHANGED <<lease, cache, day, tokens, receipts, breaker>>

\* Mutant: the limit is compared before the reservation is added.
CanReserveOffByOne(a) == receipts[a].state # "none" \/ tokens[day] <= TokenLimit

CanReserve(a) ==
  receipts[a].state # "none" \/ tokens[day] + Amount <= TokenLimit

Reserve(a) ==
  /\ CanReserve(a)
  /\ \/ /\ receipts[a].state # "none"
        /\ UNCHANGED <<tokens, receipts>>
     \/ /\ receipts[a].state = "none"
        /\ tokens' = [tokens EXCEPT ![day] = @ + Amount]
        /\ receipts' = [receipts EXCEPT ![a] =
                          [state |-> "reserved", day |-> day, charge |-> Amount]]
  /\ UNCHANGED <<lease, cache, requests, day, breaker>>

\* Mutant: a settlement reaches today's counter, not its reservation's.
SettleToday(a, usage) ==
  /\ receipts[a].state = "reserved"
  /\ tokens' = [tokens EXCEPT ![day] = @ + (usage - Amount)]
  /\ receipts' = [receipts EXCEPT ![a].state = "settled", ![a].charge = usage]
  /\ UNCHANGED <<lease, cache, requests, day, breaker>>

Settle(a, usage) ==
  /\ \/ /\ receipts[a].state = "reserved"
        /\ tokens' = [tokens EXCEPT ![receipts[a].day] = @ + (usage - Amount)]
        /\ receipts' = [receipts EXCEPT ![a].state = "settled", ![a].charge = usage]
     \/ /\ receipts[a].state # "reserved"
        /\ UNCHANGED <<tokens, receipts>>
  /\ UNCHANGED <<lease, cache, requests, day, breaker>>

-----------------------------------------------------------------------------
(* The breaker *)

\* Mutants: the breaker lets everyone probe; a probe that never expires.
BlockedWhileCooling(b) == b.open /\ b.left > 0
BlockedByAnyProbe(b) == b.open /\ (b.left > 0 \/ b.probe # None)

Blocked(b) == b.open /\ (b.left > 0 \/ (b.probe # None /\ b.probeLeft > 0))

Entered(b, a) ==
  LET c == [b EXCEPT !.in[a] = b.epoch]
  IN  IF b.open THEN [c EXCEPT !.probe = a, !.probeLeft = LeaseTTL] ELSE c

\* Mutant: reports from before the last change count.
CountsAnyEpoch(b, a) == b.in[a] # None /\ b.probe \in {None, a}

\* A report counts when the attempt entered in the current epoch and no other
\* attempt holds the probe.
Counts(b, a) == b.in[a] = b.epoch /\ b.probe \in {None, a}

DropProbe(b) == [b EXCEPT !.probe = None, !.probeLeft = 0]

Trips(b) == b.failures + 1 >= Threshold \/ b.probe # None

Left(b, a) == [b EXCEPT !.in[a] = None]

Closing(b) ==
  [open |-> FALSE, left |-> 0, failures |-> 0, epoch |-> b.epoch + 1,
   probe |-> None, probeLeft |-> 0, in |-> b.in]

Opening(b) ==
  [open |-> TRUE, left |-> Cooldown, failures |-> b.failures + 1,
   epoch |-> b.epoch + 1, probe |-> None, probeLeft |-> 0, in |-> b.in]

Reported(b, a, status) ==
  IF ~ Counts(b, a) THEN Left(b, a)
  ELSE CASE status = "neutral" -> DropProbe(Left(b, a))
         [] status = "success" -> Closing(Left(b, a))
         [] status = "failure" ->
              IF Trips(b) THEN Opening(Left(b, a))
              ELSE [Left(b, a) EXCEPT !.failures = @ + 1]

BreakerEnter(a) ==
  /\ ~ Blocked(breaker)
  /\ breaker' = Entered(breaker, a)
  /\ UNCHANGED <<lease, cache, requests, day, tokens, receipts>>

BreakerFinish(a, status) ==
  /\ breaker' = Reported(breaker, a, status)
  /\ UNCHANGED <<lease, cache, requests, day, tokens, receipts>>

-----------------------------------------------------------------------------
(* Time *)

\* Mutant: SET without PX.
LeaseForever(l) == l

LeaseTick(l) == IF l.left > 1 THEN [l EXCEPT !.left = @ - 1] ELSE Free

StateTick ==
  /\ lease' = [k \in Keys |-> LeaseTick(lease[k])]
  /\ breaker' = [breaker EXCEPT !.left = Dec(@), !.probeLeft = Dec(@)]
  /\ UNCHANGED <<cache, requests, day, tokens, receipts>>

NewMinute ==
  /\ requests' = [requests EXCEPT !.minute = 0]
  /\ UNCHANGED <<lease, cache, day, tokens, receipts, breaker>>

NewDay ==
  /\ day < MaxDay
  /\ day' = day + 1
  /\ requests' = [minute |-> 0, day |-> 0]
  /\ UNCHANGED <<lease, cache, tokens, receipts, breaker>>

StateNext ==
  \/ \E k \in Keys, o \in Owners : Acquire(k, o) \/ Release(k, o) \/ Put(k, o)
  \/ \E k \in Keys : CacheExpire(k)
  \/ Admit \/ NewMinute \/ NewDay
  \/ \E a \in Attempts : Reserve(a) \/ BreakerEnter(a)
  \/ \E a \in Attempts, usage \in 0 .. Amount : Settle(a, usage)
  \/ \E a \in Attempts, status \in Statuses : BreakerFinish(a, status)
  \/ StateTick

StateSpec == StateInit /\ [][StateNext]_stateVars

-----------------------------------------------------------------------------
(* Properties *)

BreakerType ==
  [open : BOOLEAN, left : Nat, failures : Nat, epoch : Nat,
   probe : Attempts \cup {None}, probeLeft : Nat,
   in : [Attempts -> Nat \cup {None}]]

\* Types of the seven variables: the Redis keys of state.py.
StateTypeOK ==
  /\ lease \in [Keys -> [owner : Owners \cup {None}, left : Nat]]
  /\ cache \in [Keys -> BOOLEAN]
  /\ requests \in [minute : Nat, day : Nat]
  /\ day \in Days
  /\ tokens \in [Days -> Int]
  /\ receipts \in [Attempts -> [state : {"none", "reserved", "settled"},
                                day : Days, charge : 0 .. Amount]]
  /\ breaker \in BreakerType

\* No order of reservations and settlements, by any attempts, on either side of
\* midnight, takes a day's counter past the daily allowance
\* (_RESERVE and _SETTLE, state.py).
BudgetWithinLimit == \A d \in Days : tokens[d] <= TokenLimit

\* The counter of a day is exactly the sum of what the receipts of that day were
\* charged: a settlement reaches the day of its own reservation, and only once
\* (_SETTLE's receipt check and Reservation.key, state.py).
CounterMatchesReceipts ==
  \A d \in Days :
    LET ofDay == {a \in Attempts : receipts[a].day = d}
    IN  tokens[d] = SumFunctionOnSet([a \in Attempts |-> receipts[a].charge], ofDay)

\* The breaker's hash, with its epochs and probes, behaves as a circuit breaker
\* that only attempts admitted since its last change can move (_ENTER, _FINISH).
Breaker == INSTANCE CircuitBreaker WITH
  mode    <- IF breaker.open THEN "open" ELSE "closed",
  streak  <- breaker.failures,
  current <- {a \in Attempts : breaker.in[a] = breaker.epoch}
BreakerSpec == Breaker!Spec
=============================================================================
