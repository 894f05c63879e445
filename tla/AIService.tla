------------------------------ MODULE AIService ------------------------------
(* The AI gateway (services/llm/service.py): requests of one workspace that race
   for the same answers. Each await of AIService.run is a step, so requests
   interleave between any two of them, with a change of the workspace's policy,
   with an outage of Redis or of the audit log, with the deadline and with a
   client that goes away. Redis is AIState, whose scripts these steps call.

   A step that calls Redis may find it down: Ask gives the three outcomes of
   such a call (AIState._call turns every exception into the same error).     *)
EXTENDS AIState

CONSTANTS Requests,     \* the requests, which own leases
          MaxRetries,   \* llm_max_retries
          Slack,        \* time kept for accounting inside the deadline
          Delays,       \* how long a retry may be put off
          Payloads,     \* minimised inputs
          Cacheable,    \* the payloads of tasks whose results are cached
          Policies,     \* the values a workspace's policy takes
          Permitting,   \* those under which the task may run
          MaxChanges    \* bound: changes of the policy

ASSUME ServiceAssumption ==
  /\ Owners = Requests
  /\ Attempts = Requests \X (0 .. MaxRetries)
  /\ Keys = Payloads \X Policies
  /\ MaxRetries \in Nat /\ Slack \in Nat \ {0} /\ Delays \subseteq Nat
  /\ Cacheable \subseteq Payloads /\ Permitting \subseteq Policies
  /\ MaxChanges \in Nat
  /\ None \notin Policies \cup Payloads

VARIABLES policy,    \* the workspace's policy in the database
          changes,   \* how often it has changed
          audit,     \* committed audit entries: <<attempt, event>>
          pc,        \* request -> the await it is at
          left,      \* request -> time left to its deadline
          seen,      \* request -> the policy it loaded
          payload,   \* request -> its input
          index,     \* request -> the number of its current attempt
          verdict,   \* request -> how the current attempt ended
          usage,     \* request -> the usage the provider reported, or None
          result,    \* request -> what run() returns
          spent,     \* auxiliary: attempt -> tokens the provider took, None if never sent
          stale      \* auxiliary: request -> an answer came after its policy went

localVars == <<left, seen, payload, index, verdict, usage>>
auxVars   == <<spent, stale>>
vars      == <<stateVars, policy, changes, audit, pc, localVars, result, auxVars>>

Attempt(r) == <<r, index[r]>>
Key(r)     == <<payload[r], seen[r]>>

\* Where a request is inside the try whose finally releases the lease.
Holding == {"recheck", "heldHit", "check", "reserve", "enter", "start", "void",
            "voidEntered", "call", "finish", "settle", "report", "neutral",
            "final", "put", "backoff", "release"}
Active  == Holding \cup {"admit", "lookup", "hit", "acquire"}
Labels  == Active \cup {"idle", "ended"}

Init ==
  /\ StateInit
  /\ policy \in Permitting
  /\ changes = 0
  /\ audit = {}
  /\ pc = [r \in Requests |-> "idle"]
  /\ left = [r \in Requests |-> 0]
  /\ seen = [r \in Requests |-> None]
  /\ payload = [r \in Requests |-> None]
  /\ index = [r \in Requests |-> 0]
  /\ verdict = [r \in Requests |-> "none"]
  /\ usage = [r \in Requests |-> None]
  /\ result = [r \in Requests |-> "none"]
  /\ spent = [a \in Attempts |-> None]
  /\ stale = [r \in Requests |-> FALSE]

-----------------------------------------------------------------------------
(* Moves of a request, and a call of Redis *)

At(r, label) == pc' = [pc EXCEPT ![r] = label] /\ UNCHANGED result

Goto(r, label) == At(r, label) /\ UNCHANGED localVars

\* run() returns: what the request held in its frame is gone.
End(r, res) ==
  /\ pc' = [pc EXCEPT ![r] = "ended"]
  /\ result' = [result EXCEPT ![r] = res]
  /\ left' = [left EXCEPT ![r] = 0]
  /\ seen' = [seen EXCEPT ![r] = None]
  /\ payload' = [payload EXCEPT ![r] = None]
  /\ index' = [index EXCEPT ![r] = 0]
  /\ verdict' = [verdict EXCEPT ![r] = "none"]
  /\ usage' = [usage EXCEPT ![r] = None]

\* A return or a raise inside the try: the finally comes first.
Leave(r, res) ==
  /\ pc' = [pc EXCEPT ![r] = "release"]
  /\ result' = [result EXCEPT ![r] = res]
  /\ UNCHANGED localVars

\* A script runs and answers; it runs and the answer is lost; it never runs.
Ask(script, answered, failed) ==
  \/ script /\ answered
  \/ script /\ failed
  \/ UNCHANGED stateVars /\ failed

world == <<policy, changes, audit>>

-----------------------------------------------------------------------------
(* Admission, the cache and the lease: _run *)

\* run() sets the deadline, _run loads the policy and applies its gates.
Start(r, p) ==
  /\ pc[r] = "idle"
  /\ \/ /\ policy \in Permitting
        /\ left' = [left EXCEPT ![r] = Deadline]
        /\ seen' = [seen EXCEPT ![r] = policy]
        /\ payload' = [payload EXCEPT ![r] = p]
        /\ At(r, "admit")
        /\ UNCHANGED <<index, verdict, usage>>
     \/ policy \notin Permitting /\ End(r, "failed")
  /\ UNCHANGED <<stateVars, world, auxVars>>

AdmitStep(r) ==
  /\ pc[r] = "admit"
  /\ \/ Ask(Admit, Goto(r, "lookup"), End(r, "failed"))
     \/ ~ CanAdmit /\ UNCHANGED stateVars /\ End(r, "failed")
  /\ UNCHANGED <<world, auxVars>>

Hits(r) == payload[r] \in Cacheable /\ cache[Key(r)]

LookupStep(r) ==
  /\ pc[r] = "lookup"
  /\ \/ Goto(r, IF Hits(r) THEN "hit" ELSE "acquire")
     \/ payload[r] \in Cacheable /\ End(r, "failed")
  /\ UNCHANGED <<stateVars, world, auxVars>>

\* Mutant: SETNX and EXPIRE in two calls.
AcquireInTwoCalls(r) ==
  /\ pc[r] = "acquire" /\ CanAcquire(Key(r))
  /\ lease' = [lease EXCEPT ![Key(r)] = [owner |-> r, left |-> 0]]
  /\ Goto(r, "recheck")
  /\ UNCHANGED <<cache, requests, day, tokens, receipts, breaker, world, auxVars>>

\* A request that finds the lease taken sleeps and looks the cache up again.
AcquireStep(r) ==
  /\ pc[r] = "acquire"
  /\ \/ Ask(Acquire(Key(r), r), Goto(r, "recheck"), End(r, "failed"))
     \/ ~ CanAcquire(Key(r)) /\ UNCHANGED stateVars /\ Goto(r, "lookup")
  /\ UNCHANGED <<world, auxVars>>

\* Mutant: no second look at the cache.
NoRecheck(r) ==
  /\ pc[r] = "recheck"
  /\ Goto(r, "check")
  /\ UNCHANGED <<stateVars, world, auxVars>>

RecheckStep(r) ==
  /\ pc[r] = "recheck"
  /\ \/ Goto(r, IF Hits(r) THEN "heldHit" ELSE "check")
     \/ payload[r] \in Cacheable /\ Leave(r, "failed")
  /\ UNCHANGED <<stateVars, world, auxVars>>

\* A cached answer is served under the policy it was looked up with; the audit
\* entry of the hit may fail.
HitStep(r) ==
  /\ \/ /\ pc[r] = "hit"
        /\ \/ policy = seen[r] /\ End(r, "cached")
           \/ End(r, "failed")
     \/ /\ pc[r] = "heldHit"
        /\ \/ policy = seen[r] /\ Leave(r, "cached")
           \/ Leave(r, "failed")
  /\ UNCHANGED <<stateVars, world, auxVars>>

\* The finally of _run. An error here replaces what the try returned.
ReleaseStep(r) ==
  /\ pc[r] = "release"
  /\ Ask(Release(Key(r), r), End(r, result[r]), End(r, "failed"))
  /\ UNCHANGED <<world, auxVars>>

-----------------------------------------------------------------------------
(* One provider attempt: _produce *)

CheckStep(r) ==
  /\ pc[r] = "check"
  /\ \/ policy = seen[r] /\ Goto(r, "reserve")
     \/ Leave(r, "failed")
  /\ UNCHANGED <<stateVars, world, auxVars>>

ReserveStep(r) ==
  /\ pc[r] = "reserve"
  /\ \/ Ask(Reserve(Attempt(r)), Goto(r, "enter"), Leave(r, "failed"))
     \/ /\ ~ CanReserve(Attempt(r))
        /\ UNCHANGED stateVars /\ Leave(r, "failed")
  /\ UNCHANGED <<world, auxVars>>

EnterStep(r) ==
  /\ pc[r] = "enter"
  /\ \/ Ask(BreakerEnter(Attempt(r)), Goto(r, "start"), Goto(r, "void"))
     \/ Blocked(breaker) /\ UNCHANGED stateVars /\ Goto(r, "void")
  /\ UNCHANGED <<world, auxVars>>

\* The "started" entry commits, and the request is sent unless no time is left
\* for it, which ends the attempt without a retry.
StartStep(r) ==
  /\ pc[r] = "start"
  /\ audit' = audit \cup {<<Attempt(r), "started">>}
  /\ \/ /\ left[r] > Slack
        /\ \E n \in 1 .. Amount : spent' = [spent EXCEPT ![Attempt(r)] = n]
        /\ At(r, "call")
        /\ UNCHANGED <<verdict, usage>>
     \/ /\ left[r] <= Slack
        /\ verdict' = [verdict EXCEPT ![r] = "fatal"]
        /\ usage' = [usage EXCEPT ![r] = None]
        /\ At(r, "finish")
        /\ UNCHANGED spent
  /\ UNCHANGED <<stateVars, policy, changes, left, seen, payload, index, stale>>

\* The "started" entry fails, before or after it commits.
StartFails(r) ==
  /\ pc[r] = "start"
  /\ audit' \in {audit, audit \cup {<<Attempt(r), "started">>}}
  /\ Goto(r, "voidEntered")
  /\ UNCHANGED <<stateVars, policy, changes, auxVars>>

\* An attempt that was never sent gives its tokens back, then the probe if it
\* had entered the breaker.
VoidStep(r) ==
  /\ \/ /\ pc[r] = "void"
        /\ Ask(Settle(Attempt(r), 0), Leave(r, "failed"), Leave(r, "failed"))
     \/ /\ pc[r] = "voidEntered"
        /\ Ask(Settle(Attempt(r), 0), Goto(r, "neutral"), Leave(r, "failed"))
  /\ UNCHANGED <<world, auxVars>>

Answer(r, v, u) ==
  /\ pc[r] = "call"
  /\ verdict' = [verdict EXCEPT ![r] = v]
  /\ usage' = [usage EXCEPT ![r] = u]
  /\ stale' = [stale EXCEPT ![r] = @ \/ policy # seen[r]]
  /\ At(r, "finish")
  /\ UNCHANGED <<stateVars, world, left, seen, payload, index, spent>>

\* A valid answer, or an invalid one: both may or may not report their usage.
\* A busy, failing or unreachable provider reports none.
Reply(r) ==
  \/ \E v \in {"ok", "fatal"}, u \in {spent[Attempt(r)], None} : Answer(r, v, u)
  \/ Answer(r, "transient", None)

\* The call's own timeout, set to leave Slack before the deadline.
CallTimeout(r) == left[r] <= Slack /\ Answer(r, "transient", None)

\* An exception complete() does not translate skips all accounting.
CallRaises(r) ==
  /\ pc[r] = "call"
  /\ Leave(r, "failed")
  /\ UNCHANGED <<stateVars, world, auxVars>>

FinishStep(r) ==
  /\ pc[r] = "finish"
  /\ \/ /\ audit' = audit \cup {<<Attempt(r), "finished">>}
        /\ Goto(r, "settle")
     \/ /\ audit' \in {audit, audit \cup {<<Attempt(r), "finished">>}}
        /\ Goto(r, "neutral")
  /\ UNCHANGED <<stateVars, policy, changes, auxVars>>

\* Mutant: unknown usage counts as none.
SettleUnknownAsZero(r) ==
  /\ pc[r] = "settle"
  /\ Ask(Settle(Attempt(r), IF usage[r] = None THEN 0 ELSE usage[r]),
         Goto(r, "report"), Goto(r, "neutral"))
  /\ UNCHANGED <<world, auxVars>>

\* Unknown usage keeps the whole reservation.
SettleStep(r) ==
  /\ pc[r] = "settle"
  /\ \/ usage[r] = None /\ UNCHANGED stateVars /\ Goto(r, "report")
     \/ /\ usage[r] # None
        /\ Ask(Settle(Attempt(r), usage[r]), Goto(r, "report"), Goto(r, "neutral"))
  /\ UNCHANGED <<world, auxVars>>

Status(r) == IF verdict[r] = "transient" THEN "failure" ELSE "success"

\* Mutant: one retry too many.
MayRetryOnceMore(r, delay) ==
  verdict[r] = "transient" /\ index[r] <= MaxRetries /\ left[r] > delay + Slack

MayRetry(r, delay) ==
  verdict[r] = "transient" /\ index[r] < MaxRetries /\ left[r] > delay + Slack

ReportStep(r) ==
  /\ pc[r] = "report"
  /\ Ask(BreakerFinish(Attempt(r), Status(r)),
         \/ verdict[r] = "ok" /\ Goto(r, "final")
         \/ verdict[r] # "ok" /\ \E delay \in Delays :
              IF MayRetry(r, delay) THEN Goto(r, "backoff") ELSE Leave(r, "failed"),
         Goto(r, "neutral"))
  /\ UNCHANGED <<world, auxVars>>

NeutralStep(r) ==
  /\ pc[r] = "neutral"
  /\ Ask(BreakerFinish(Attempt(r), "neutral"), Leave(r, "failed"), Leave(r, "failed"))
  /\ UNCHANGED <<world, auxVars>>

BackoffStep(r) ==
  /\ pc[r] = "backoff"
  /\ index' = [index EXCEPT ![r] = @ + 1]
  /\ At(r, "check")
  /\ UNCHANGED <<stateVars, world, left, seen, payload, verdict, usage, auxVars>>

\* Mutant: no check after the reply.
FinalUnchecked(r) ==
  /\ pc[r] = "final"
  /\ IF payload[r] \in Cacheable THEN Goto(r, "put") ELSE Leave(r, "success")
  /\ UNCHANGED <<stateVars, world, auxVars>>

\* The policy is checked once more before a generated answer is kept.
FinalStep(r) ==
  /\ pc[r] = "final"
  /\ \/ /\ policy = seen[r]
        /\ \/ payload[r] \in Cacheable /\ Goto(r, "put")
           \/ payload[r] \notin Cacheable /\ Leave(r, "success")
     \/ Leave(r, "failed")
  /\ UNCHANGED <<stateVars, world, auxVars>>

PutStep(r) ==
  /\ pc[r] = "put"
  /\ \/ Ask(Put(Key(r), r), Leave(r, "success"), Leave(r, "failed"))
     \/ /\ lease[Key(r)].owner # r
        /\ UNCHANGED stateVars /\ Leave(r, "failed")
  /\ UNCHANGED <<world, auxVars>>

-----------------------------------------------------------------------------
(* The deadline, departures, the policy and time *)

\* Mutant: a deadline on the provider call only.
TimeoutOfCall(r) ==
  /\ pc[r] = "call" /\ left[r] = 0
  /\ End(r, "failed")
  /\ UNCHANGED <<stateVars, world, auxVars>>

\* The deadline, a client that disconnects or a worker that dies: the request
\* stops at its await and nothing is released.
Timeout(r) ==
  /\ pc[r] \in Active /\ left[r] = 0
  /\ End(r, "failed")
  /\ UNCHANGED <<stateVars, world, auxVars>>

Interrupt(r) ==
  /\ pc[r] \in Active
  /\ End(r, "failed")
  /\ UNCHANGED <<stateVars, world, auxVars>>

\* An owner changes flags or sharing (PolicyStore.configure, update).
ChangePolicy(p) ==
  /\ p # policy /\ changes < MaxChanges
  /\ policy' = p
  /\ changes' = changes + 1
  /\ stale' = [r \in Requests |-> stale[r] /\ p # seen[r]]
  /\ UNCHANGED <<stateVars, audit, pc, localVars, result, spent>>

Expire(k) == CacheExpire(k) /\ UNCHANGED <<world, pc, localVars, result, auxVars>>

Midnight == NewDay /\ UNCHANGED <<world, pc, localVars, result, auxVars>>

Minute == NewMinute /\ UNCHANGED <<world, pc, localVars, result, auxVars>>

\* asyncio delivers a timeout when it is due: time does not pass a deadline.
Tick ==
  /\ \A r \in Requests : pc[r] \in Active =>
       left[r] > 0 /\ (pc[r] = "call" => left[r] > Slack)
  /\ StateTick
  /\ left' = [r \in Requests |-> Dec(left[r])]
  /\ UNCHANGED <<world, pc, seen, payload, index, verdict, usage, result, auxVars>>

\* The awaits the server itself completes.
Progress(r) ==
  \/ AdmitStep(r) \/ LookupStep(r) \/ AcquireStep(r) \/ RecheckStep(r)
  \/ HitStep(r) \/ ReleaseStep(r) \/ CheckStep(r) \/ ReserveStep(r)
  \/ EnterStep(r) \/ StartStep(r) \/ StartFails(r) \/ VoidStep(r)
  \/ FinishStep(r) \/ SettleStep(r) \/ ReportStep(r) \/ NeutralStep(r)
  \/ BackoffStep(r) \/ FinalStep(r) \/ PutStep(r)

Next ==
  \/ \E r \in Requests :
       \/ \E p \in Payloads : Start(r, p)
       \/ Progress(r) \/ Reply(r) \/ CallRaises(r) \/ Interrupt(r)
       \/ CallTimeout(r) \/ Timeout(r)
  \/ \E p \in Policies : ChangePolicy(p)
  \/ \E k \in Keys : Expire(k)
  \/ Midnight \/ Minute \/ Tick

Spec == Init /\ [][Next]_vars

\* The event loop runs every ready coroutine and every due timer, and clocks
\* advance; whether the provider answers, clients leave or policies change is
\* left open.
Fairness ==
  /\ \A r \in Requests :
       WF_vars(Progress(r)) /\ WF_vars(CallTimeout(r)) /\ WF_vars(Timeout(r))
  /\ WF_vars(Tick)
FairSpec == Spec /\ Fairness

-----------------------------------------------------------------------------
(* Properties *)

\* Types of the gateway's variables and of the Redis keys behind it.
TypeOK ==
  /\ StateTypeOK
  /\ policy \in Policies /\ changes \in 0 .. MaxChanges
  /\ audit \subseteq Attempts \X {"started", "finished"}
  /\ pc \in [Requests -> Labels]
  /\ left \in [Requests -> 0 .. Deadline]
  /\ seen \in [Requests -> Policies \cup {None}]
  /\ payload \in [Requests -> Payloads \cup {None}]
  /\ index \in [Requests -> 0 .. MaxRetries]
  /\ verdict \in [Requests -> {"none", "ok", "transient", "fatal"}]
  /\ usage \in [Requests -> (0 .. Amount) \cup {None}]
  /\ result \in [Requests -> {"none", "success", "cached", "failed"}]
  /\ spent \in [Attempts -> (0 .. Amount) \cup {None}]
  /\ stale \in [Requests -> BOOLEAN]

\* Two requests for the same answer are never at the provider together: the
\* lease outlives every request that holds it, also when holders time out, are
\* cancelled or cannot release it (AIState.acquire, _run's finally).
SingleFlight ==
  \A r, s \in Requests :
    pc[r] = "call" /\ pc[s] = "call" /\ Key(r) = Key(s) => r = s

\* No request pays for an answer that is in the cache: the second look at the
\* cache, under the lease, covers the window between the first and the lease.
CallOnlyOnMiss ==
  \A r \in Requests : pc[r] = "call" => ~ Hits(r)

\* Whatever the provider took for an attempt stays charged against the budget of
\* the day, and the attempt is in the audit log, in every interleaving of lost
\* replies, failed recordings, timeouts and departures; what the provider did not
\* take goes back only once the outcome is recorded (_produce's except clauses).
DispatchAccounted ==
  \A a \in Attempts : spent[a] # None =>
    /\ receipts[a].state # "none"
    /\ receipts[a].charge >= spent[a]
    /\ <<a, "started">> \in audit
    /\ receipts[a].state = "settled" => <<a, "finished">> \in audit

\* While the breaker is open at most one attempt it admitted since is alive: a
\* probe's lease outlives the request that took it (_ENTER's probe_until).
Live == {"start", "call", "finish", "settle", "report"}
OneProbe ==
  breaker.open =>
    \A r, s \in Requests :
      /\ pc[r] \in Live /\ breaker.in[Attempt(r)] = breaker.epoch
      /\ pc[s] \in Live /\ breaker.in[Attempt(s)] = breaker.epoch
      => r = s

\* Only the attempt that holds the probe moves an open breaker, as it reports its
\* own outcome: a slow answer from before the outage, or from a probe that was
\* taken over, never closes or prolongs it (_FINISH's epoch and probe checks).
OnlyTheProbeMovesIt ==
  [][breaker.open /\ breaker'.epoch # breaker.epoch =>
       \E r \in Requests : pc[r] = "report" /\ breaker.probe = Attempt(r)]_vars

\* When an answer arrives after the workspace withdrew the policy it was asked
\* under, and the policy has not come back, the request neither asks again nor
\* keeps the answer nor returns it (_check_policy before each attempt and after
\* the reply).
WithdrawnConsentStops ==
  [][\A r \in Requests : stale[r] =>
       /\ pc'[r] = "call" => pc[r] = "call"
       /\ pc'[r] = "put" => pc[r] = "put"
       /\ result'[r] = "success" => result[r] = "success"]_vars

\* Redis sees the gateway only as callers of its scripts (AIState.StateSpec).
UsesScripts == StateSpec

\* Every request gets a result: the deadline bounds the wait for a lease, for
\* the provider and for a retry (AIService.run).
EveryRequestEnds ==
  \A r \in Requests : pc[r] \in Active ~> pc[r] = "ended"

\* A lease whose holder is gone is freed, so the same request can be answered
\* again (the lease's PX in AIState.acquire).
LeaseRecovers ==
  \A r \in Requests, k \in Keys :
    lease[k].owner = r /\ pc[r] = "ended" ~> lease[k].owner # r

\* An open breaker admits a probe again, whatever became of earlier probes.
BreakerRecovers == breaker.open ~> ~ Blocked(breaker)
=============================================================================
