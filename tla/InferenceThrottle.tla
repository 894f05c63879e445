-------------------------- MODULE InferenceThrottle --------------------------
(* Admission of forecast inferences on one replica
   (ml/sanket_ml/inference/throttle.py): one event loop runs the requests, which
   suspend only while they wait for the semaphore and while they compute. The guard
   of the in-flight count is never held across a suspension, so each stretch between
   two suspensions is one step.                                                *)
EXTENDS Naturals, Sequences, FiniteSets, Functions

CONSTANTS Inferences,
          MaxConcurrent, MaxQueued,
          Burst  \* tokens in the tenant's bucket

ASSUME ThrottleAssumption ==
  MaxConcurrent \in Nat \ {0} /\ MaxQueued \in Nat /\ Burst \in Nat \ {0}

VARIABLES bucket,    \* the tokens left to the tenant
          inflight,  \* _inflight
          slots,     \* asyncio.Semaphore: its value
          line,      \* the semaphore's waiters, first come first served
          woken,     \* waiters that were given a slot and have not run yet
          inference  \* request -> idle, waits, computes

throttleVars == <<bucket, inflight, slots, line, woken, inference>>

Capacity == MaxConcurrent + MaxQueued

ThrottleInit ==
  /\ bucket = Burst /\ inflight = 0
  /\ slots = MaxConcurrent /\ line = <<>> /\ woken = {}
  /\ inference = [i \in Inferences |-> "idle"]

Becomes(i, state) == inference' = [inference EXCEPT ![i] = state]

-----------------------------------------------------------------------------
(* asyncio.Semaphore *)

Sleepers == Range(line) \ woken

\* Of these sleepers the ones in `given` come first in the line.
First(given, sleepers) ==
  \A m, n \in DOMAIN line :
    m < n /\ line[m] \in sleepers /\ line[n] \in given => line[m] \in given

\* i leaves the line with or without a slot: of the free slots, as many as can be are
\* given to the sleepers behind, in their order.
LeaveLine(i, free) ==
  LET behind == Sleepers \ {i} IN
  /\ \E n \in DOMAIN line : line[n] = i /\ line' = SubSeq(line, 1, n - 1) \o SubSeq(line, n + 1, Len(line))
  /\ \E given \in SUBSET behind :
       /\ First(given, behind)
       /\ Cardinality(given) =
            IF free < Cardinality(behind) THEN free ELSE Cardinality(behind)
       /\ woken' = (woken \ {i}) \cup given
       /\ slots' = free - Cardinality(given)

\* release wakes one sleeper.
ReleaseSlot ==
  IF Sleepers = {} THEN slots' = slots + 1 /\ UNCHANGED woken
  ELSE /\ \E o \in Sleepers : First({o}, Sleepers) /\ woken' = woken \cup {o}
       /\ UNCHANGED slots

-----------------------------------------------------------------------------
(* slot *)

\* A bucket without a token, or a full replica, answers 429 and leaves no trace but
\* the token.
Reject(i) ==
  /\ inference[i] = "idle"
  /\ bucket > 0 /\ inflight >= Capacity /\ bucket' = bucket - 1
  /\ UNCHANGED <<inflight, slots, line, woken, inference>>

Join(i) ==
  /\ inference[i] = "idle" /\ bucket > 0 /\ inflight < Capacity
  /\ bucket' = bucket - 1 /\ inflight' = inflight + 1
  /\ IF slots > 0 /\ line = <<>>
     THEN slots' = slots - 1 /\ Becomes(i, "computes") /\ UNCHANGED line
     ELSE line' = Append(line, i) /\ Becomes(i, "waits") /\ UNCHANGED slots
  /\ UNCHANGED woken

Proceed(i) ==
  /\ inference[i] = "waits" /\ i \in woken
  /\ LeaveLine(i, slots) /\ Becomes(i, "computes")
  /\ UNCHANGED <<bucket, inflight>>

\* Mutant: the count is taken back only after a computation.
GiveUpInPlace(i) ==
  /\ inference[i] = "waits"
  /\ LeaveLine(i, IF i \in woken THEN slots + 1 ELSE slots) /\ Becomes(i, "idle")
  /\ UNCHANGED <<bucket, inflight>>

\* The wait ends by its timeout or a cancelled request; a slot that was given meanwhile
\* goes back.
GiveUp(i) ==
  /\ inference[i] = "waits"
  /\ LeaveLine(i, IF i \in woken THEN slots + 1 ELSE slots) /\ Becomes(i, "idle")
  /\ inflight' = inflight - 1
  /\ UNCHANGED bucket

\* The inference ends, fails or is cancelled.
Finished(i) ==
  /\ inference[i] = "computes" /\ Becomes(i, "idle")
  /\ ReleaseSlot
  /\ inflight' = inflight - 1
  /\ UNCHANGED <<bucket, line>>

Refill ==
  /\ bucket < Burst /\ bucket' = bucket + 1
  /\ UNCHANGED <<inflight, slots, line, woken, inference>>

ThrottleNext ==
  \/ \E i \in Inferences :
       Reject(i) \/ Join(i) \/ Proceed(i) \/ GiveUp(i) \/ Finished(i)
  \/ Refill

ThrottleSpec == ThrottleInit /\ [][ThrottleNext]_throttleVars

-----------------------------------------------------------------------------
(* Properties *)

\* The count and the semaphore never come apart, whoever gives up, is cancelled or is
\* woken when: each request inside is counted, each slot is free, computing or on its
\* way to one waiter, and none is free while a waiter sleeps and no other is to wake it
\* (slot).
ThrottleAccounts ==
  LET computing == {i \in Inferences : inference[i] = "computes"}
      waiting   == {i \in Inferences : inference[i] = "waits"} IN
  /\ inflight = Cardinality(computing) + Cardinality(waiting)
  /\ slots + Cardinality(woken) + Cardinality(computing) = MaxConcurrent
  /\ slots > 0 /\ ~ waiting \subseteq woken => woken # {}
=============================================================================
