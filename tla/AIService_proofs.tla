--------------------------- MODULE AIService_proofs ---------------------------
(* Theorems about the gateway's requests, for any number of requests, retries,
   inputs, policies and days, and every setting of the deadlines and limits.   *)
EXTENDS AIService, AIState_proofs

-----------------------------------------------------------------------------
(* How a request moves *)

Verdicts == {"none", "ok", "transient", "fatal"}
Results  == {"none", "success", "cached", "failed"}

\* Types of what a coroutine of run() holds.
LocalType ==
  /\ pc \in [Requests -> Labels]
  /\ left \in [Requests -> 0 .. Deadline]
  /\ seen \in [Requests -> Policies \cup {None}]
  /\ payload \in [Requests -> Payloads \cup {None}]
  /\ index \in [Requests -> 0 .. MaxRetries]
  /\ verdict \in [Requests -> Verdicts]
  /\ usage \in [Requests -> (0 .. Amount) \cup {None}]
  /\ result \in [Requests -> Results]

\* A step of r leaves what other requests hold as it is.
Kept(s) ==
  /\ pc'[s] = pc[s] /\ left'[s] = left[s] /\ seen'[s] = seen[s]
  /\ payload'[s] = payload[s] /\ index'[s] = index[s] /\ verdict'[s] = verdict[s]
  /\ usage'[s] = usage[s] /\ result'[s] = result[s]
Alone(r) == \A s \in Requests \ {r} : Kept(s)

\* A step that changes no more of r's frame than its label and result.
Same(r) ==
  /\ left'[r] = left[r] /\ seen'[r] = seen[r] /\ payload'[r] = payload[r]
  /\ index'[r] = index[r] /\ verdict'[r] = verdict[r] /\ usage'[r] = usage[r]

\* Going on to another await keeps the frame.
LEMMA GotoMoves ==
  ASSUME LocalType, NEW r \in Requests, NEW label \in Labels, Goto(r, label)
  PROVE  LocalType' /\ Alone(r) /\ Same(r) /\ pc'[r] = label /\ result'[r] = result[r]
BY DEF Goto, At, localVars, LocalType, Alone, Kept, Same

\* A return or raise inside the try goes to its finally.
LEMMA LeaveMoves ==
  ASSUME LocalType, NEW r \in Requests, NEW res \in Results, Leave(r, res)
  PROVE  LocalType' /\ Alone(r) /\ Same(r) /\ pc'[r] = "release" /\ result'[r] = res
<1>1. "release" \in Labels
  BY DEF Labels, Active, Holding
<1> QED BY <1>1 DEF Leave, localVars, LocalType, Alone, Kept, Same

\* The end of run() empties the frame.
LEMMA EndMoves ==
  ASSUME LocalType, NEW r \in Requests, NEW res \in Results, End(r, res)
  PROVE  /\ LocalType' /\ Alone(r)
         /\ pc'[r] = "ended" /\ result'[r] = res
         /\ left'[r] = 0 /\ seen'[r] = None /\ payload'[r] = None /\ index'[r] = 0
         /\ verdict'[r] = "none" /\ usage'[r] = None
<1>1. /\ "ended" \in Labels /\ "none" \in Verdicts /\ 0 \in 0 .. Deadline
      /\ 0 \in 0 .. MaxRetries
  BY TimeAssumption, ServiceAssumption DEF Labels, Verdicts
<1> QED BY <1>1 DEF End, LocalType, Alone, Kept

-----------------------------------------------------------------------------
(* Types, and Redis as the gateway uses it *)

WorldType ==
  /\ policy \in Policies /\ changes \in 0 .. MaxChanges
  /\ audit \subseteq Attempts \X {"started", "finished"}
AuxType ==
  /\ spent \in [Attempts -> (0 .. Amount) \cup {None}]
  /\ stale \in [Requests -> BOOLEAN]

\* A request inside run() has its input and the policy it loaded, so that its cache key
\* is one; it waits for a retry only if one is left.
Framed(r) ==
  /\ pc[r] \in Active => seen[r] \in Policies /\ payload[r] \in Payloads
  /\ pc[r] = "backoff" => index[r] < MaxRetries

TypeInv == /\ StateInv /\ WorldType /\ LocalType /\ AuxType
           /\ \A r \in Requests : Framed(r)

\* The attempts and keys of requests are those that Redis knows.
LEMMA Names ==
  ASSUME TypeInv, NEW r \in Requests
  PROVE  /\ r \in Owners /\ Attempt(r) \in Attempts
         /\ pc[r] \in Active => Key(r) \in Keys
BY ServiceAssumption DEF TypeInv, LocalType, Framed, Attempt, Key

\* A call of Redis is one of its scripts or nothing at all (AIState._call).
LEMMA Asked ==
  ASSUME TypeInv, NEW r \in Requests, pc[r] \in Active
  PROVE  /\ Admit => StateNext
         /\ Acquire(Key(r), r) => StateNext
         /\ Release(Key(r), r) => StateNext
         /\ Put(Key(r), r) => StateNext
         /\ Reserve(Attempt(r)) => StateNext
         /\ BreakerEnter(Attempt(r)) => StateNext
         /\ \A n \in 0 .. Amount : Settle(Attempt(r), n) => StateNext
         /\ \A status \in Statuses : BreakerFinish(Attempt(r), status) => StateNext
BY Names DEF StateNext

\* What every step of a request does, whatever else it does.
Request(r) ==
  \/ \E p \in Payloads : Start(r, p)
  \/ Progress(r) \/ Reply(r) \/ CallRaises(r) \/ Interrupt(r)
  \/ CallTimeout(r) \/ Timeout(r)

\* A request's step does what one script does to the shared state, or nothing.
LEMMA RequestScripts ==
  ASSUME TypeInv, NEW r \in Requests, Request(r)
  PROVE  [StateNext]_stateVars
<1>1. CASE UNCHANGED stateVars
  BY <1>1
<1>2. CASE AdmitStep(r)
  BY <1>2, Asked DEF AdmitStep, Ask, Active
<1>3. CASE AcquireStep(r)
  BY <1>3, Asked DEF AcquireStep, Ask, Active
<1>4. CASE ReleaseStep(r)
  BY <1>4, Asked DEF ReleaseStep, Ask, Active, Holding
<1>5. CASE ReserveStep(r)
  BY <1>5, Asked DEF ReserveStep, Ask, Active, Holding
<1>6. CASE EnterStep(r)
  BY <1>6, Asked DEF EnterStep, Ask, Active, Holding
<1>7. CASE VoidStep(r)
  BY <1>7, Asked, LimitAssumption DEF VoidStep, Ask, Active, Holding
<1>8. CASE SettleStep(r)
  BY <1>8, Asked DEF SettleStep, Ask, Active, Holding, TypeInv, LocalType
<1>9. CASE ReportStep(r)
  BY <1>9, Asked DEF ReportStep, Ask, Active, Holding, Status, Statuses
<1>10. CASE NeutralStep(r)
  BY <1>10, Asked DEF NeutralStep, Ask, Active, Holding, Statuses
<1>11. CASE PutStep(r)
  BY <1>11, Asked DEF PutStep, Ask, Active, Holding
<1> QED
  BY <1>1, <1>2, <1>3, <1>4, <1>5, <1>6, <1>7, <1>8, <1>9, <1>10, <1>11
  DEF Request, Start, Progress, LookupStep, RecheckStep, HitStep, CheckStep, StartStep,
      StartFails, FinishStep, BackoffStep, FinalStep, Reply, Answer, CallRaises,
      Interrupt, CallTimeout, Timeout

\* A step of a request keeps the types of its frame and touches no other request's.
LEMMA RequestTypes ==
  ASSUME TypeInv, NEW r \in Requests, Request(r)
  PROVE  LocalType' /\ WorldType' /\ AuxType' /\ Alone(r) /\ Framed(r)'
<1> USE DEF TypeInv
<1>0. /\ {"success", "cached", "failed"} \subseteq Results
      /\ Labels = Active \cup {"idle", "ended"}
      /\ Active = Holding \cup {"admit", "lookup", "hit", "acquire"}
      /\ Amount \in Nat /\ MaxRetries \in Nat /\ Deadline \in Nat /\ Slack \in Nat
      /\ None \notin Policies \cup Payloads /\ Permitting \subseteq Policies
      /\ Attempt(r) \in Attempts
  BY Names, LimitAssumption, TimeAssumption, ServiceAssumption DEF Results, Labels, Active
<1>1. CASE UNCHANGED <<world, auxVars>> /\ \E res \in Results : End(r, res)
  BY <1>1, EndMoves DEF world, auxVars, WorldType, AuxType, Framed, Active, Holding
<1>2. CASE UNCHANGED <<world, auxVars>> /\ pc[r] \in Active /\ \E res \in Results : Leave(r, res)
  BY <1>2, LeaveMoves DEF world, auxVars, WorldType, AuxType, Framed, Same
<1>3. CASE /\ UNCHANGED <<world, auxVars>> /\ pc[r] \in Active
           /\ \E label \in Labels \ {"backoff"} : Goto(r, label)
  BY <1>3, GotoMoves DEF world, auxVars, WorldType, AuxType, Framed, Same
<1>4. ASSUME NEW p \in Payloads, Start(r, p) PROVE LocalType' /\ WorldType' /\ AuxType' /\ Alone(r) /\ Framed(r)'
  <2>1. CASE End(r, "failed")
    BY <1>0, <1>1, <1>4, <2>1 DEF Start
  <2>2. CASE ~ End(r, "failed")
    BY <1>0, <1>4, <2>2
    DEF Start, At, LocalType, world, auxVars, WorldType, AuxType, Alone, Kept, Framed, Active, Holding
  <2> QED BY <2>1, <2>2
<1>5. CASE StartStep(r)
  BY <1>0, <1>5
  DEF StartStep, At, LocalType, WorldType, AuxType, Alone, Kept, Framed, Active, Holding,
      stateVars, Verdicts
<1>6. CASE StartFails(r)
  <2>1. "voidEntered" \in Labels \ {"backoff"} /\ pc[r] \in Active /\ Goto(r, "voidEntered")
    BY <1>0, <1>6 DEF StartFails, Active, Holding
  <2>2. AuxType' /\ WorldType'
    BY <1>0, <1>6 DEF StartFails, auxVars, WorldType, AuxType
  <2> QED BY <2>1, <2>2, GotoMoves DEF Framed, Same
<1>7. CASE FinishStep(r)
  <2>1. PICK label \in {"settle", "neutral"} : Goto(r, label)
    BY <1>7 DEF FinishStep
  <2>2. label \in Labels \ {"backoff"} /\ pc[r] \in Active
    BY <1>0, <1>7 DEF FinishStep, Active, Holding
  <2>3. AuxType' /\ WorldType'
    BY <1>0, <1>7 DEF FinishStep, auxVars, WorldType, AuxType
  <2> QED BY <2>1, <2>2, <2>3, GotoMoves DEF Framed, Same
<1>8. ASSUME NEW v \in {"ok", "fatal", "transient"}, NEW u \in (0 .. Amount) \cup {None}, Answer(r, v, u)
      PROVE  LocalType' /\ WorldType' /\ AuxType' /\ Alone(r) /\ Framed(r)'
  BY <1>0, <1>8
  DEF Answer, At, LocalType, world, WorldType, AuxType, Alone, Kept, Framed, Active, Holding, Verdicts
<1>9. CASE /\ pc[r] = "report" /\ UNCHANGED <<world, auxVars>>
           /\ index[r] < MaxRetries /\ Goto(r, "backoff")
  BY <1>0, <1>9, GotoMoves
  DEF world, auxVars, WorldType, AuxType, Framed, Same, Active, Holding
<1>10. CASE BackoffStep(r)
  BY <1>0, <1>10
  DEF BackoffStep, At, LocalType, world, auxVars, WorldType, AuxType, Alone, Kept, Framed, Active, Holding
<1>11. CASE Reply(r) \/ CallTimeout(r)
  BY <1>0, <1>8, <1>11 DEF Reply, CallTimeout, AuxType
<1>12. CASE AdmitStep(r) \/ LookupStep(r) \/ AcquireStep(r) \/ RecheckStep(r) \/ HitStep(r)
  BY <1>0, <1>1, <1>2, <1>3, <1>12
  DEF AdmitStep, LookupStep, AcquireStep, RecheckStep, HitStep, Ask, Active, Holding
<1>13. CASE ReleaseStep(r) \/ CheckStep(r) \/ ReserveStep(r) \/ EnterStep(r) \/ VoidStep(r)
  BY <1>0, <1>1, <1>2, <1>3, <1>13
  DEF ReleaseStep, CheckStep, ReserveStep, EnterStep, VoidStep, Ask, Active, Holding, LocalType
<1>14. CASE SettleStep(r) \/ NeutralStep(r) \/ FinalStep(r) \/ PutStep(r)
  BY <1>0, <1>2, <1>3, <1>14
  DEF SettleStep, NeutralStep, FinalStep, PutStep, Ask, Active, Holding
<1>15. CASE ReportStep(r)
  BY <1>0, <1>2, <1>3, <1>9, <1>15 DEF ReportStep, MayRetry, Ask, Active, Holding
<1>16. CASE CallRaises(r) \/ Interrupt(r) \/ Timeout(r)
  BY <1>0, <1>1, <1>2, <1>16 DEF CallRaises, Interrupt, Timeout, Active, Holding
<1> QED
  BY <1>4, <1>5, <1>6, <1>7, <1>10, <1>11, <1>12, <1>13, <1>14, <1>15, <1>16
  DEF Request, Progress

\* The steps that are nobody's: the policy changes, an answer expires, time passes.
Environment ==
  \/ \E p \in Policies : ChangePolicy(p)
  \/ \E k \in Keys : Expire(k)
  \/ Midnight \/ Minute \/ Tick

\* They stop nobody and take from a frame at most its time.
LEMMA EnvironmentTypes ==
  ASSUME TypeInv, Environment
  PROVE  /\ [StateNext]_stateVars
         /\ LocalType' /\ WorldType' /\ AuxType' /\ (\A r \in Requests : Framed(r)')
         /\ UNCHANGED <<pc, seen, payload, index, verdict, usage, result, audit, spent>>
<1> USE DEF TypeInv
<1>1. ASSUME NEW p \in Policies, ChangePolicy(p)
      PROVE  /\ LocalType' /\ WorldType' /\ AuxType' /\ \A r \in Requests : Framed(r)'
             /\ UNCHANGED <<pc, seen, payload, index, verdict, usage, result, audit, spent, stateVars>>
  <2>1. \A r \in Requests : (stale[r] /\ p # seen[r]) \in BOOLEAN
    OBVIOUS
  <2>2. stale' \in [Requests -> BOOLEAN]
    BY <1>1, <2>1 DEF ChangePolicy
  <2>3. WorldType'
    BY <1>1, ServiceAssumption DEF ChangePolicy, WorldType
  <2> QED BY <1>1, <2>2, <2>3 DEF ChangePolicy, localVars, LocalType, AuxType, Framed
<1>2. CASE StateNext /\ UNCHANGED <<world, pc, localVars, result, auxVars>>
  BY <1>2 DEF world, localVars, auxVars, LocalType, WorldType, AuxType, Framed
<1>3. CASE Tick
  <2>1. \A n \in 0 .. Deadline : Dec(n) \in 0 .. Deadline
    BY TimeAssumption DEF Dec
  <2>2. left' \in [Requests -> 0 .. Deadline]
    BY <1>3, <2>1 DEF Tick, LocalType
  <2> QED BY <1>3, <2>2 DEF Tick, StateNext, world, auxVars, LocalType, WorldType, AuxType, Framed
<1>4. ASSUME NEW k \in Keys, Expire(k)
      PROVE  StateNext /\ UNCHANGED <<world, pc, localVars, result, auxVars>>
  BY <1>4 DEF Expire, StateNext
<1>5. CASE Midnight \/ Minute
  BY <1>2, <1>5 DEF Midnight, Minute, StateNext, localVars, world, auxVars
<1> QED
  BY <1>1, <1>2, <1>3, <1>4, <1>5 DEF Environment, localVars, world, auxVars

\* The types hold at first.
LEMMA InitTypeInv == Init => TypeInv
<1> SUFFICES ASSUME Init PROVE TypeInv
  OBVIOUS
<1>1. StateInv
  BY InitStateInv DEF Init
<1>2. /\ Permitting \subseteq Policies /\ MaxChanges \in Nat /\ MaxRetries \in Nat
      /\ Deadline \in Nat
  BY ServiceAssumption, TimeAssumption
<1>3. WorldType /\ AuxType
  BY <1>2 DEF Init, WorldType, AuxType
<1>4. LocalType
  BY <1>2 DEF Init, LocalType, Labels, Verdicts, Results
<1>5. \A r \in Requests : Framed(r)
  BY DEF Init, Framed, Active, Holding
<1> QED BY <1>1, <1>3, <1>4, <1>5 DEF TypeInv

\* The next-state relation is a request's step or the environment's.
LEMMA WhoseStep == Next => Environment \/ \E r \in Requests : Request(r)
BY DEF Next, Request, Environment

\* Every step keeps the types, and does to the shared state what one script does.
LEMMA NextTypeInv == TypeInv /\ [Next]_vars => TypeInv' /\ [StateNext]_stateVars
<1> SUFFICES ASSUME TypeInv, [Next]_vars PROVE TypeInv' /\ [StateNext]_stateVars
  OBVIOUS
<1>1. StateInv /\ [StateNext]_stateVars => StateInv'
  BY NextStateInv
<1>2. ASSUME NEW r \in Requests, Request(r)
      PROVE  TypeInv' /\ [StateNext]_stateVars
  <2>1. \A s \in Requests \ {r} : Framed(s)'
    BY <1>2, RequestTypes DEF TypeInv, Alone, Kept, Framed
  <2> QED BY <1>1, <1>2, <2>1, RequestTypes, RequestScripts DEF TypeInv
<1>3. CASE Environment
  BY <1>1, <1>3, EnvironmentTypes DEF TypeInv
<1>4. CASE UNCHANGED vars
  BY <1>1, <1>4
  DEF vars, localVars, auxVars, TypeInv, LocalType, WorldType, AuxType, Framed, Active
<1> QED BY <1>2, <1>3, <1>4, WhoseStep

\* The gateway's variables and the keys of Redis keep their types (service.py, state.py).
THEOREM ServiceTypeCorrect == Spec => []TypeOK
<1>1. TypeInv => TypeOK
  BY DEF TypeInv, StateInv, WorldType, LocalType, AuxType, TypeOK, Verdicts, Results
<1> QED BY InitTypeInv, NextTypeInv, <1>1, PTL DEF Spec

\* The gateway implements StateSpec: whatever a request does, Redis sees one of its scripts,
\* called by a known owner for a known attempt and key (AIService.run, AIState._call).
THEOREM GatewayUsesScripts == Spec => UsesScripts
<1>1. Init => StateInit
  BY DEF Init
<1> QED BY InitTypeInv, NextTypeInv, <1>1, PTL DEF Spec, UsesScripts, StateSpec

\* So what holds of the scripts holds of the whole gateway: no interleaving of requests,
\* retries, outages and departures spends more than a day's allowance.
THEOREM GatewayBudget == Spec => []BudgetWithinLimit
BY GatewayUsesScripts, BudgetHolds, PTL DEF UsesScripts

-----------------------------------------------------------------------------
(* The lease of a request *)

\* Inside the try a request holds its lease, which lasts longer than the request: the
\* deadline ends the one before the PX ends the other.
Leased(r) ==
  pc[r] \in Holding => lease[Key(r)].owner = r /\ lease[Key(r)].left > left[r]

\* The try is entered with a fresh lease, and its key, its time and Redis' leases stay as
\* they are until it is left.
LEMMA InsideTheTry ==
  ASSUME TypeInv, NEW r \in Requests, Request(r)
  PROVE  \/ lease' = lease /\ pc'[r] \notin Holding
         \/ lease' = lease /\ pc[r] \in Holding /\ Key(r)' = Key(r) /\ left'[r] = left[r]
         \/ /\ pc[r] = "acquire" /\ Acquire(Key(r), r)
            /\ pc'[r] \notin Holding \/ (Key(r)' = Key(r) /\ left'[r] = left[r])
         \/ pc[r] = "release" /\ Release(Key(r), r) /\ pc'[r] = "ended"
<1> DEFINE Inside == lease' = lease /\ pc[r] \in Holding /\ Key(r)' = Key(r) /\ left'[r] = left[r]
           Outside == lease' = lease /\ pc'[r] \notin Holding
<1> USE DEF TypeInv
<1>0. /\ {"success", "cached", "failed"} \subseteq Results
      /\ Holding \subseteq Labels /\ {"lookup", "hit", "acquire"} \subseteq Labels
  BY DEF Results, Labels, Active
<1>1. ASSUME NEW res \in Results, End(r, res) PROVE pc'[r] = "ended"
  BY <1>1, EndMoves
<1>2. ASSUME NEW res \in Results, Leave(r, res)
      PROVE  pc'[r] = "release" /\ Key(r)' = Key(r) /\ left'[r] = left[r]
  BY <1>2, LeaveMoves DEF Same, Key
<1>3. ASSUME NEW label \in Labels, Goto(r, label)
      PROVE  pc'[r] = label /\ Key(r)' = Key(r) /\ left'[r] = left[r]
  BY <1>3, GotoMoves DEF Same, Key
<1>4. CASE AcquireStep(r)
  BY <1>0, <1>1, <1>3, <1>4 DEF AcquireStep, Ask, stateVars, Holding
<1>5. CASE ReleaseStep(r)
  BY <1>0, <1>1, <1>5 DEF ReleaseStep, Ask, stateVars, Holding, LocalType
<1>6. ASSUME NEW p \in Payloads, Start(r, p) PROVE Outside
  BY <1>0, <1>1, <1>6 DEF Start, At, stateVars, Holding, LocalType
<1>7. CASE AdmitStep(r) \/ LookupStep(r)
  BY <1>0, <1>1, <1>3, <1>7 DEF AdmitStep, LookupStep, Ask, Admit, stateVars, Holding
<1>8. CASE RecheckStep(r) \/ HitStep(r) \/ CheckStep(r) \/ ReserveStep(r) \/ EnterStep(r)
  BY <1>0, <1>1, <1>2, <1>3, <1>8
  DEF RecheckStep, HitStep, CheckStep, ReserveStep, EnterStep, Ask, Reserve, BreakerEnter,
      stateVars, Holding
<1>9. CASE StartStep(r) \/ BackoffStep(r) \/ \E v, u : Answer(r, v, u)
  BY <1>9 DEF StartStep, BackoffStep, Answer, At, stateVars, Holding, Key, LocalType
<1>10. CASE StartFails(r) \/ FinishStep(r) \/ CallRaises(r)
  BY <1>0, <1>2, <1>3, <1>10 DEF StartFails, FinishStep, CallRaises, stateVars, Holding
<1>11. CASE VoidStep(r) \/ SettleStep(r) \/ ReportStep(r) \/ NeutralStep(r)
  BY <1>0, <1>2, <1>3, <1>11
  DEF VoidStep, SettleStep, ReportStep, NeutralStep, Ask, Settle, BreakerFinish, stateVars, Holding
<1>12. CASE FinalStep(r) \/ PutStep(r)
  BY <1>0, <1>2, <1>3, <1>12 DEF FinalStep, PutStep, Ask, Put, stateVars, Holding
<1>13. CASE Interrupt(r) \/ Timeout(r)
  BY <1>0, <1>1, <1>13 DEF Interrupt, Timeout, stateVars, Holding
<1>14. Reply(r) \/ CallTimeout(r) => \E v, u : Answer(r, v, u)
  BY DEF Reply, CallTimeout
<1> QED
  BY <1>4, <1>5, <1>6, <1>7, <1>8, <1>9, <1>10, <1>11, <1>12, <1>13, <1>14
  DEF Request, Progress

\* Every step leaves each live request the lease it works under.
LEMMA NextLeased ==
  TypeInv /\ (\A r \in Requests : Leased(r)) /\ [Next]_vars => \A r \in Requests : Leased(r)'
<1> SUFFICES ASSUME TypeInv, \A r \in Requests : Leased(r), [Next]_vars
             PROVE  \A r \in Requests : Leased(r)'
  OBVIOUS
<1>0. /\ LocalType /\ LeaseTTL \in Nat /\ LeaseTTL > Deadline /\ Deadline \in Nat /\ None \notin Requests
      /\ \A r \in Requests : left[r] \in 0 .. Deadline
      /\ lease \in [Keys -> [owner : Owners \cup {None}, left : Nat]]
  BY TimeAssumption, NoneAssumption, ServiceAssumption
  DEF TypeInv, LocalType, StateInv, StateTypeOK, LeaseTTL
<1>1. \A r \in Requests : pc[r] \in Holding \cup {"acquire"} => Key(r) \in Keys
  BY Names DEF Active
<1>2. ASSUME NEW r \in Requests, Request(r), NEW s \in Requests PROVE Leased(s)'
  <2>1. CASE s = r
    <3>1. CASE lease' = lease /\ pc[r] \in Holding /\ Key(r)' = Key(r) /\ left'[r] = left[r]
      BY <2>1, <3>1 DEF Leased
    <3>2. CASE /\ pc[r] = "acquire" /\ Acquire(Key(r), r)
               /\ Key(r)' = Key(r) /\ left'[r] = left[r]
      <4>1. lease'[Key(r)] = [owner |-> r, left |-> LeaseTTL] /\ left[r] < LeaseTTL
        BY <1>0, <1>1, <3>2 DEF Acquire
      <4> QED BY <2>1, <3>2, <4>1 DEF Leased
    <3>3. CASE pc'[r] \notin Holding
      BY <2>1, <3>3 DEF Leased
    <3> QED BY <1>2, <3>1, <3>2, <3>3, InsideTheTry DEF Holding
  <2>2. CASE s # r
    <3>1. pc'[s] = pc[s] /\ Key(s)' = Key(s) /\ left'[s] = left[s]
      BY <1>2, <2>2, RequestTypes DEF Alone, Kept, Key
    <3> QED BY <1>0, <1>1, <1>2, <2>2, <3>1, InsideTheTry DEF Leased, Acquire, Release, CanAcquire, Holding
  <2> QED BY <2>1, <2>2
<1>3. CASE Tick
  <2>1. ASSUME NEW s \in Requests, pc[s] \in Holding PROVE Leased(s)'
    <3>1. Key(s)' = Key(s) /\ left'[s] = left[s] - 1 /\ left[s] > 0
      BY <1>0, <1>3, <2>1 DEF Tick, Key, Dec, Active
    <3>2. lease'[Key(s)] = LeaseTick(lease[Key(s)])
      BY <1>1, <1>3, <2>1 DEF Tick, StateTick
    <3>3. lease[Key(s)].owner = s /\ lease[Key(s)].left > left[s] /\ lease[Key(s)].left \in Nat
      BY <1>0, <1>1, <2>1 DEF Leased
    <3>4. lease[Key(s)] \in [owner : Owners \cup {None}, left : Nat]
      BY <1>0, <1>1, <2>1
    <3>5. lease'[Key(s)] = [lease[Key(s)] EXCEPT !.left = lease[Key(s)].left - 1]
      BY <1>0, <3>1, <3>2, <3>3 DEF LeaseTick
    <3> QED BY <1>0, <3>1, <3>3, <3>4, <3>5 DEF Leased
  <2> QED BY <1>3, <2>1 DEF Tick, Leased
<1>4. CASE Environment /\ ~ Tick
  <2>1. UNCHANGED <<lease, pc, left, seen, payload>>
    BY <1>4
    DEF Environment, ChangePolicy, Expire, CacheExpire, Midnight, NewDay, Minute, NewMinute,
        stateVars, localVars
  <2> QED BY <2>1 DEF Leased, Key
<1>5. CASE UNCHANGED vars
  BY <1>5 DEF vars, stateVars, localVars, Leased, Key
<1> QED BY <1>2, <1>3, <1>4, <1>5, WhoseStep

\* Inside the try, past the second look at the cache and before the answer is stored.
Bought == Holding \ {"recheck", "heldHit", "release"}

\* There is no answer in the cache for what a request goes on to ask.
Missed(r) == pc[r] \in Bought => ~ Hits(r)

\* Only a request that holds the lease of its key puts an answer there, and leaves; what
\* goes on to ask has looked.
LEMMA CacheSteps ==
  ASSUME TypeInv, NEW r \in Requests, Request(r)
  PROVE  /\ \/ cache' = cache
            \/ /\ pc[r] = "put" /\ lease[Key(r)].owner = r
               /\ cache' = [cache EXCEPT ![Key(r)] = TRUE]
         /\ pc'[r] \in Bought =>
              /\ cache' = cache /\ payload'[r] = payload[r] /\ seen'[r] = seen[r]
              /\ pc[r] \in Bought \/ ~ Hits(r)
<1> USE DEF TypeInv
<1>0. /\ {"success", "cached", "failed"} \subseteq Results
      /\ Holding \subseteq Labels /\ {"lookup", "hit", "acquire"} \subseteq Labels
  BY DEF Results, Labels, Active
<1>1. ASSUME NEW res \in Results, End(r, res) PROVE pc'[r] \notin Bought
  BY <1>1, EndMoves DEF Bought, Holding
<1>2. ASSUME NEW res \in Results, Leave(r, res) PROVE pc'[r] \notin Bought
  BY <1>2, LeaveMoves DEF Bought
<1>3. ASSUME NEW label \in Labels, Goto(r, label)
      PROVE  pc'[r] = label /\ payload'[r] = payload[r] /\ seen'[r] = seen[r]
  BY <1>3, GotoMoves DEF Same
<1>4. CASE AcquireStep(r) \/ ReleaseStep(r) \/ AdmitStep(r) \/ LookupStep(r)
  BY <1>0, <1>1, <1>3, <1>4
  DEF AcquireStep, ReleaseStep, AdmitStep, LookupStep, Ask, Acquire, Release, Admit, stateVars,
      Bought, Holding, LocalType
<1>5. ASSUME NEW p \in Payloads, Start(r, p) PROVE cache' = cache /\ pc'[r] \notin Bought
  BY <1>0, <1>1, <1>5 DEF Start, At, stateVars, Bought, Holding, LocalType
<1>6. CASE RecheckStep(r)
  BY <1>0, <1>2, <1>3, <1>6 DEF RecheckStep, stateVars, Bought, Holding
<1>7. CASE HitStep(r) \/ CheckStep(r) \/ ReserveStep(r) \/ EnterStep(r)
  BY <1>0, <1>1, <1>2, <1>3, <1>7
  DEF HitStep, CheckStep, ReserveStep, EnterStep, Ask, Reserve, BreakerEnter,
      stateVars, Bought, Holding
<1>8. CASE StartStep(r) \/ BackoffStep(r) \/ \E v, u : Answer(r, v, u)
  BY <1>8 DEF StartStep, BackoffStep, Answer, At, stateVars, Bought, Holding, LocalType
<1>9. CASE StartFails(r) \/ FinishStep(r) \/ CallRaises(r)
  BY <1>0, <1>2, <1>3, <1>9 DEF StartFails, FinishStep, CallRaises, stateVars, Bought, Holding
<1>10. CASE VoidStep(r) \/ SettleStep(r) \/ ReportStep(r) \/ NeutralStep(r)
  BY <1>0, <1>2, <1>3, <1>10
  DEF VoidStep, SettleStep, ReportStep, NeutralStep, Ask, Settle, BreakerFinish, stateVars,
      Bought, Holding
<1>11. CASE FinalStep(r) \/ PutStep(r)
  BY <1>0, <1>2, <1>3, <1>11 DEF FinalStep, PutStep, Ask, Put, stateVars, Bought, Holding
<1>12. CASE Interrupt(r) \/ Timeout(r)
  BY <1>0, <1>1, <1>12 DEF Interrupt, Timeout, stateVars
<1>13. Reply(r) \/ CallTimeout(r) => \E v, u : Answer(r, v, u)
  BY DEF Reply, CallTimeout
<1> QED
  BY <1>4, <1>5, <1>6, <1>7, <1>8, <1>9, <1>10, <1>11, <1>12, <1>13 DEF Request, Progress

\* A lease has one owner, so that of two requests for one answer only one can put it.
LEMMA NextMissed ==
  /\ TypeInv /\ (\A r \in Requests : Leased(r) /\ Missed(r)) /\ [Next]_vars
  => \A r \in Requests : Missed(r)'
<1> SUFFICES ASSUME TypeInv, \A r \in Requests : Leased(r) /\ Missed(r), [Next]_vars
             PROVE  \A r \in Requests : Missed(r)'
  OBVIOUS
<1>0. cache \in [Keys -> BOOLEAN] /\ Bought \subseteq Active /\ Bought \subseteq Holding
  BY DEF TypeInv, StateInv, StateTypeOK, Bought, Active
<1>1. ASSUME NEW r \in Requests, Request(r), NEW s \in Requests PROVE Missed(s)'
  <2>1. CASE s = r
    <3>1. ASSUME pc'[r] \in Bought PROVE ~ Hits(r)'
      <4>1. cache' = cache /\ payload'[r] = payload[r] /\ seen'[r] = seen[r] /\ ~ Hits(r)
        BY <1>1, <3>1, CacheSteps DEF Missed
      <4> QED BY <4>1 DEF Hits, Key
    <3> QED BY <2>1, <3>1 DEF Missed
  <2>2. CASE s # r
    <3>1. pc'[s] = pc[s] /\ payload'[s] = payload[s] /\ Key(s)' = Key(s)
      BY <1>1, <2>2, RequestTypes DEF Alone, Kept, Key
    <3>2. CASE cache' = cache
      BY <3>1, <3>2 DEF Missed, Hits
    <3>3. CASE /\ pc[r] = "put" /\ lease[Key(r)].owner = r
               /\ cache' = [cache EXCEPT ![Key(r)] = TRUE] /\ pc[s] \in Bought
      <4>1. lease[Key(s)].owner = s /\ Key(s) \in Keys
        BY <1>0, <3>3, Names DEF Leased
      <4>2. Key(s) # Key(r)
        BY <2>2, <3>3, <4>1
      <4> QED BY <1>0, <3>1, <3>3, <4>1, <4>2 DEF Missed, Hits
    <3> QED BY <1>1, <3>1, <3>2, <3>3, CacheSteps DEF Missed
  <2> QED BY <2>1, <2>2
<1>2. CASE Environment
  <2>1. UNCHANGED <<pc, seen, payload>>
    BY <1>2, EnvironmentTypes
  <2>2. \A k \in Keys : cache'[k] => cache[k]
    BY <1>0, <1>2
    DEF Environment, ChangePolicy, Expire, CacheExpire, Midnight, NewDay, Minute, NewMinute,
        Tick, StateTick, stateVars
  <2>3. \A s \in Requests : pc[s] \in Bought => Key(s) \in Keys
    BY <1>0, Names
  <2> QED BY <2>1, <2>2, <2>3 DEF Missed, Hits, Key
<1>3. CASE UNCHANGED vars
  BY <1>3 DEF vars, stateVars, localVars, Missed, Hits, Key
<1> QED BY <1>1, <1>2, <1>3, WhoseStep

LeaseInv == TypeInv /\ \A r \in Requests : Leased(r) /\ Missed(r)

\* The invariant about leases holds throughout.
LEMMA LeaseInvariant == Spec => []LeaseInv
<1>1. Init => LeaseInv
  BY InitTypeInv DEF Init, LeaseInv, Leased, Missed, Bought, Holding
<1>2. LeaseInv /\ [Next]_vars => LeaseInv'
  BY NextTypeInv, NextLeased, NextMissed DEF LeaseInv
<1> QED BY <1>1, <1>2, PTL DEF Spec

\* Two requests for the same answer are never at the provider together (AIState.acquire,
\* _run): each holds the lease of its key for as long as it lives.
THEOREM OneFlight == Spec => []SingleFlight
<1>1. LeaseInv => SingleFlight
  BY DEF LeaseInv, Leased, SingleFlight, Holding
<1> QED BY LeaseInvariant, <1>1, PTL

\* No request asks the provider for what is in the cache (_run's second look).
THEOREM OnlyMissesAreBought == Spec => []CallOnlyOnMiss
<1>1. LeaseInv => CallOnlyOnMiss
  BY DEF LeaseInv, Missed, CallOnlyOnMiss, Bought, Holding
<1> QED BY LeaseInvariant, <1>1, PTL

-----------------------------------------------------------------------------
(* Consent *)

\* Where a request has checked the policy, or not asked yet, nothing it has was given
\* under a policy that went.
Checked == {"idle", "reserve", "enter", "start", "call", "put"}

Consents(r) ==
  /\ stale[r] => policy # seen[r]
  /\ pc[r] \in Checked => ~ stale[r]

\* What WithdrawnConsentStops says of one request.
StopsWithoutConsent(r) ==
  stale[r] => /\ pc'[r] = "call" => pc[r] = "call"
              /\ pc'[r] = "put" => pc[r] = "put"
              /\ result'[r] = "success" => result[r] = "success"

\* Each attempt and each answer passes a check of the policy (_check_policy).
LEMMA ConsentSteps ==
  ASSUME TypeInv, NEW r \in Requests, Request(r), Consents(r)
  PROVE  /\ Consents(r)' /\ StopsWithoutConsent(r)
         /\ policy' = policy /\ \A s \in Requests \ {r} : stale'[s] = stale[s]
<1> DEFINE Goal == /\ Consents(r)' /\ StopsWithoutConsent(r)
                   /\ policy' = policy /\ \A s \in Requests \ {r} : stale'[s] = stale[s]
<1> USE DEF TypeInv
<1>0. /\ {"success", "cached", "failed"} \subseteq Results
      /\ Holding \subseteq Labels /\ {"lookup", "hit", "acquire"} \subseteq Labels
      /\ None \notin Policies /\ policy \in Policies /\ stale \in [Requests -> BOOLEAN]
      /\ pc \in [Requests -> Labels]
  BY ServiceAssumption DEF Results, Labels, Active, WorldType, AuxType, LocalType
<1>1. CASE End(r, "failed") /\ UNCHANGED <<policy, stale>>
  BY <1>0, <1>1, EndMoves DEF Consents, StopsWithoutConsent, Checked
<1>2. CASE End(r, "cached") /\ UNCHANGED <<policy, stale>>
  BY <1>0, <1>2, EndMoves DEF Consents, StopsWithoutConsent, Checked
<1>3. ASSUME NEW res \in Results, Leave(r, res), UNCHANGED <<policy, stale>>,
             stale[r] => res # "success"
      PROVE  Goal
  BY <1>0, <1>3, LeaveMoves DEF Consents, StopsWithoutConsent, Checked, Same
<1>4. ASSUME NEW label \in Labels, Goto(r, label), UNCHANGED <<policy, stale>>,
             label \in Checked => ~ stale[r]
      PROVE  Goal
  BY <1>0, <1>4, GotoMoves DEF Consents, StopsWithoutConsent, Checked, Same
<1>5. ASSUME NEW p \in Payloads, Start(r, p) PROVE Goal
  <2>1. CASE End(r, "failed")
    BY <1>1, <1>5, <2>1 DEF Start, world, auxVars
  <2>2. CASE ~ End(r, "failed")
    BY <1>0, <1>5, <2>2
    DEF Start, At, world, auxVars, Consents, StopsWithoutConsent, Checked, LocalType
  <2> QED BY <2>1, <2>2
<1>6. CASE AdmitStep(r) \/ LookupStep(r) \/ AcquireStep(r) \/ RecheckStep(r)
  BY <1>0, <1>1, <1>3, <1>4, <1>6
  DEF AdmitStep, LookupStep, AcquireStep, RecheckStep, Ask, world, auxVars, Holding, Checked
<1>7. CASE HitStep(r)
  BY <1>0, <1>1, <1>2, <1>3, <1>7 DEF HitStep, world, auxVars
<1>8. CASE ReleaseStep(r)
  <2>1. PICK res \in Results : End(r, res) /\ (res = "success" => result[r] = "success")
    BY <1>0, <1>8 DEF ReleaseStep, Ask, LocalType
  <2>2. UNCHANGED <<policy, stale>>
    BY <1>8 DEF ReleaseStep, world, auxVars
  <2> QED BY <1>0, <2>1, <2>2, EndMoves DEF Consents, StopsWithoutConsent, Checked
<1>9. CASE CheckStep(r)
  BY <1>0, <1>3, <1>4, <1>9 DEF CheckStep, world, auxVars, Holding, Consents
<1>10. CASE ReserveStep(r) \/ EnterStep(r)
  BY <1>0, <1>3, <1>4, <1>10
  DEF ReserveStep, EnterStep, Ask, world, auxVars, Holding, Consents, Checked
<1>11. CASE StartStep(r)
  BY <1>0, <1>11
  DEF StartStep, At, stateVars, Consents, StopsWithoutConsent, Checked, LocalType
<1>12. CASE StartFails(r) \/ FinishStep(r)
  BY <1>0, <1>4, <1>12 DEF StartFails, FinishStep, auxVars, Holding, Checked
<1>13. ASSUME NEW v, NEW u, Answer(r, v, u) PROVE Goal
  BY <1>0, <1>13
  DEF Answer, At, world, Consents, StopsWithoutConsent, Checked, LocalType
<1>14. CASE CallRaises(r)
  BY <1>0, <1>3, <1>14 DEF CallRaises, world, auxVars
<1>15. CASE VoidStep(r) \/ SettleStep(r) \/ ReportStep(r) \/ NeutralStep(r)
  BY <1>0, <1>3, <1>4, <1>15
  DEF VoidStep, SettleStep, ReportStep, NeutralStep, Ask, world, auxVars, Holding, Checked
<1>16. CASE BackoffStep(r)
  BY <1>0, <1>16
  DEF BackoffStep, At, world, auxVars, Consents, StopsWithoutConsent, Checked, LocalType
<1>17. CASE FinalStep(r) \/ PutStep(r)
  BY <1>0, <1>3, <1>4, <1>17
  DEF FinalStep, PutStep, Ask, world, auxVars, Holding, Consents, Checked
<1>18. CASE Interrupt(r) \/ Timeout(r)
  BY <1>0, <1>1, <1>18 DEF Interrupt, Timeout, world, auxVars
<1>19. Reply(r) \/ CallTimeout(r) => \E v, u : Answer(r, v, u)
  BY DEF Reply, CallTimeout
<1> QED
  BY <1>5, <1>6, <1>7, <1>8, <1>9, <1>10, <1>11, <1>12, <1>13, <1>14, <1>15, <1>16, <1>17,
     <1>18, <1>19
  DEF Request, Progress

ConsentInv == TypeInv /\ \A r \in Requests : Consents(r)

\* Every step keeps to the consent that was seen, and none sends without one.
LEMMA NextConsent ==
  ConsentInv /\ [Next]_vars
  => ConsentInv' /\ \A r \in Requests : StopsWithoutConsent(r)
<1> SUFFICES ASSUME ConsentInv, [Next]_vars
             PROVE  ConsentInv' /\ \A r \in Requests : StopsWithoutConsent(r)
  OBVIOUS
<1>1. TypeInv'
  BY NextTypeInv DEF ConsentInv
<1>2. ASSUME NEW r \in Requests, Request(r), NEW s \in Requests
      PROVE  Consents(s)' /\ StopsWithoutConsent(s)
  <2>1. CASE s = r
    BY <1>2, <2>1, ConsentSteps DEF ConsentInv
  <2>2. CASE s # r
    BY <1>2, <2>2, ConsentSteps, RequestTypes
    DEF ConsentInv, Alone, Kept, Consents, StopsWithoutConsent
  <2> QED BY <2>1, <2>2
<1>3. ASSUME Environment, NEW s \in Requests
      PROVE  Consents(s)' /\ StopsWithoutConsent(s)
  <2>1. pc' = pc /\ seen' = seen /\ result' = result
    BY <1>3, EnvironmentTypes DEF ConsentInv
  <2>2. CASE UNCHANGED <<policy, stale>>
    BY <2>1, <2>2 DEF ConsentInv, Consents, StopsWithoutConsent
  <2>3. ASSUME NEW p \in Policies, ChangePolicy(p)
        PROVE  Consents(s)' /\ StopsWithoutConsent(s)
    <3>1. policy' = p /\ (stale'[s] <=> (stale[s] /\ p # seen[s]))
      BY <2>3 DEF ChangePolicy
    <3> QED BY <2>1, <3>1 DEF ConsentInv, Consents, StopsWithoutConsent
  <2> QED
    BY <1>3, <2>2, <2>3
    DEF Environment, Expire, Midnight, Minute, Tick, world, auxVars
<1>4. ASSUME UNCHANGED vars, NEW s \in Requests
      PROVE  Consents(s)' /\ StopsWithoutConsent(s)
  BY <1>4 DEF vars, localVars, auxVars, ConsentInv, Consents, StopsWithoutConsent
<1> QED BY <1>1, <1>2, <1>3, <1>4, WhoseStep DEF ConsentInv

\* A request whose answer came after its policy was withdrawn neither asks again nor keeps
\* nor returns the answer, whatever else happens meanwhile (_produce).
THEOREM ConsentStops == Spec => WithdrawnConsentStops
<1>1. Init => ConsentInv
  BY InitTypeInv DEF Init, ConsentInv, Consents
<1>2. (\A r \in Requests : StopsWithoutConsent(r)) =>
        \A r \in Requests : stale[r] =>
          /\ pc'[r] = "call" => pc[r] = "call"
          /\ pc'[r] = "put" => pc[r] = "put"
          /\ result'[r] = "success" => result[r] = "success"
  BY DEF StopsWithoutConsent
<1> QED BY <1>1, <1>2, NextConsent, PTL DEF Spec, WithdrawnConsentStops

-----------------------------------------------------------------------------
(* The account of an attempt *)

\* What DispatchAccounted says of one attempt, and that a reservation holds the whole Amount
\* until it is settled.
Entry(a) ==
  /\ spent[a] # None =>
       /\ receipts[a].state # "none"
       /\ receipts[a].charge >= spent[a]
       /\ <<a, "started">> \in audit
       /\ receipts[a].state = "settled" => <<a, "finished">> \in audit
  /\ receipts[a].state = "reserved" => receipts[a].charge = Amount

\* The awaits at which the current attempt has not been sent.
Unsent == {"idle", "admit", "lookup", "hit", "acquire", "recheck", "heldHit",
           "check", "reserve", "enter", "start"}

\* What a request still knows of its attempts: those to come are untouched, one about to be
\* sent is reserved, one to be voided took nothing, and one to be settled is recorded and is
\* settled with what the provider took.
Accounted(r) ==
  /\ pc[r] # "ended" =>
       \A i \in 0 .. MaxRetries :
         index[r] < i \/ (index[r] = i /\ pc[r] \in Unsent)
           => spent[<<r, i>>] = None /\ receipts[<<r, i>>].state # "settled"
  /\ pc[r] \in {"enter", "start"} => receipts[Attempt(r)].state = "reserved"
  /\ pc[r] \in {"void", "voidEntered"} => spent[Attempt(r)] = None
  /\ pc[r] \in {"finish", "settle"} => usage[r] \in {None, spent[Attempt(r)]}
  /\ pc[r] = "settle" => <<Attempt(r), "finished">> \in audit

Account(r) == Accounted(r) /\ \A i \in 0 .. MaxRetries : Entry(<<r, i>>)

\* A request writes only to the receipt and the audit entries of its current attempt.
OthersKept(a) ==
  \A b \in Attempts \ {a} :
    /\ receipts'[b] = receipts[b] /\ spent'[b] = spent[b]
    /\ \A e \in {"started", "finished"} : <<b, e>> \in audit' <=> <<b, e>> \in audit

\* A request's step touches no attempt but the one it is at.
LEMMA OwnAttempt ==
  ASSUME TypeInv, NEW r \in Requests, Request(r)
  PROVE  OthersKept(Attempt(r))
<1> USE DEF TypeInv
<1>0. /\ receipts \in [Attempts -> [state : {"none", "reserved", "settled"},
                                    day : Days, charge : 0 .. Amount]]
      /\ spent \in [Attempts -> (0 .. Amount) \cup {None}]
  BY DEF StateInv, StateTypeOK, AuxType
<1>1. CASE UNCHANGED <<receipts, spent, audit>>
  BY <1>1 DEF OthersKept
<1>2. CASE Reserve(Attempt(r)) /\ UNCHANGED <<spent, audit>>
  BY <1>0, <1>2 DEF Reserve, OthersKept
<1>3. CASE (\E n : Settle(Attempt(r), n)) /\ UNCHANGED <<spent, audit>>
  BY <1>0, <1>3 DEF Settle, OthersKept
<1>4. CASE StartStep(r) \/ StartFails(r) \/ FinishStep(r)
  BY <1>0, <1>4 DEF StartStep, StartFails, FinishStep, stateVars, auxVars, OthersKept
<1> QED
  BY <1>1, <1>2, <1>3, <1>4
  DEF Request, Start, Progress, AdmitStep, LookupStep, AcquireStep, RecheckStep, HitStep,
      ReleaseStep, CheckStep, ReserveStep, EnterStep, VoidStep, SettleStep, ReportStep,
      NeutralStep, BackoffStep, FinalStep, PutStep, Reply, Answer, CallRaises, Interrupt,
      CallTimeout, Timeout, Ask, Admit, Acquire, Release, BreakerEnter, BreakerFinish, Put,
      stateVars, world, auxVars

\* Each move of a request keeps its own account.
LEMMA AccountSteps ==
  ASSUME TypeInv, NEW r \in Requests, Request(r), Account(r)
  PROVE  Account(r)'
<1> USE DEF TypeInv
<1>p. PICK me \in Attempts : me = Attempt(r)
  BY Names
<1>0. /\ {"success", "cached", "failed"} \subseteq Results
      /\ Holding \subseteq Labels /\ {"lookup", "hit", "acquire"} \subseteq Labels
      /\ Amount \in Nat /\ MaxRetries \in Nat /\ None \notin Nat
      /\ index \in [Requests -> 0 .. MaxRetries] /\ pc \in [Requests -> Labels]
      /\ usage \in [Requests -> (0 .. Amount) \cup {None}]
      /\ spent \in [Attempts -> (0 .. Amount) \cup {None}]
      /\ receipts \in [Attempts -> [state : {"none", "reserved", "settled"},
                                    day : Days, charge : 0 .. Amount]]
      /\ me = <<r, index[r]>> /\ me = Attempt(r)
      /\ \A i \in 0 .. MaxRetries : <<r, i>> \in Attempts
  BY <1>p, LimitAssumption, ServiceAssumption, NoneAssumption
  DEF Results, Labels, Active, LocalType, AuxType, StateInv, StateTypeOK, Attempt
<1>a. /\ Entry(me)
      /\ pc[r] \in Unsent => spent[me] = None /\ receipts[me].state # "settled"
      /\ pc[r] \in {"enter", "start"} => receipts[me].state = "reserved"
      /\ pc[r] \in {"void", "voidEntered"} => spent[me] = None
      /\ pc[r] \in {"finish", "settle"} => usage[r] \in {None, spent[me]}
      /\ pc[r] = "settle" => <<me, "finished">> \in audit
  BY <1>0 DEF Account, Accounted, Unsent
<1>b. \A i \in 0 .. MaxRetries :
        /\ Entry(<<r, i>>)
        /\ pc[r] # "ended" /\ index[r] < i =>
             spent[<<r, i>>] = None /\ receipts[<<r, i>>].state # "settled"
  BY DEF Account, Accounted
<1>k. ASSUME pc[r] # "ended", index'[r] = index[r], audit \subseteq audit',
             OthersKept(me), Entry(me)',
             pc'[r] \in Unsent => spent'[me] = None /\ receipts'[me].state # "settled",
             pc'[r] \in {"enter", "start"} => receipts'[me].state = "reserved",
             pc'[r] \in {"void", "voidEntered"} => spent'[me] = None,
             pc'[r] \in {"finish", "settle"} => usage'[r] \in {None, spent'[me]},
             pc'[r] = "settle" => <<me, "finished">> \in audit'
      PROVE  Account(r)'
  <2>1. Attempt(r)' = me
    BY <1>0, <1>k DEF Attempt
  <2>2. ASSUME NEW i \in 0 .. MaxRetries
        PROVE  /\ Entry(<<r, i>>)'
               /\ index'[r] < i \/ (index'[r] = i /\ pc'[r] \in Unsent) =>
                    spent'[<<r, i>>] = None /\ receipts'[<<r, i>>].state # "settled"
    <3>1. CASE i = index[r]
      BY <1>0, <1>k, <2>1, <3>1 DEF Entry
    <3>2. CASE i # index[r]
      <4>1. <<r, i>> \in Attempts \ {me}
        BY <1>0, <3>2
      <4>2. /\ receipts'[<<r, i>>] = receipts[<<r, i>>]
            /\ spent'[<<r, i>>] = spent[<<r, i>>]
        BY <1>k, <4>1 DEF OthersKept
      <4> QED BY <1>b, <1>k, <3>2, <4>2 DEF Entry
    <3> QED BY <3>1, <3>2
  <2> QED BY <1>k, <2>1, <2>2 DEF Account, Accounted
<1>o. OthersKept(me)
  BY <1>p, OwnAttempt
<1>e. ASSUME UNCHANGED <<receipts, spent, audit>>, NEW res \in Results, End(r, res)
      PROVE  Account(r)'
  BY <1>e, EndMoves DEF Account, Accounted, Entry
<1>l. ASSUME UNCHANGED <<receipts, spent, audit>>, NEW res \in Results, Leave(r, res),
             pc[r] \in Active
      PROVE  Account(r)'
  <2>1. pc'[r] = "release" /\ index'[r] = index[r]
    BY <1>l, LeaveMoves DEF Same
  <2>2. Entry(me)'
    BY <1>a, <1>l DEF Entry
  <2> QED BY <1>k, <1>l, <1>o, <2>1, <2>2 DEF Unsent, Active, Holding
<1>g. ASSUME UNCHANGED <<receipts, spent, audit>>, NEW label \in Labels, Goto(r, label),
             pc[r] \in Active, label \in Unsent => pc[r] \in Unsent,
             label \notin {"enter", "start", "void", "voidEntered", "finish", "settle"}
      PROVE  Account(r)'
  <2>1. pc'[r] = label /\ index'[r] = index[r]
    BY <1>g, GotoMoves DEF Same
  <2>2. Entry(me)'
    BY <1>a, <1>g DEF Entry
  <2> QED BY <1>a, <1>k, <1>g, <1>o, <2>1, <2>2 DEF Active, Holding
<1>1. ASSUME NEW p \in Payloads, Start(r, p) PROVE Account(r)'
  <2>1. CASE End(r, "failed")
    BY <1>0, <1>1, <1>e, <2>1 DEF Start, stateVars, world, auxVars
  <2>2. CASE ~ End(r, "failed")
    BY <1>0, <1>1, <2>2
    DEF Start, At, stateVars, world, auxVars, LocalType, Account, Accounted, Entry, Attempt, Unsent
  <2> QED BY <2>1, <2>2
<1>2. CASE AdmitStep(r) \/ LookupStep(r) \/ AcquireStep(r) \/ RecheckStep(r)
  BY <1>0, <1>e, <1>l, <1>g, <1>2
  DEF AdmitStep, LookupStep, AcquireStep, RecheckStep, Ask, Admit, Acquire, stateVars, world,
      auxVars, Unsent, Active, Holding
<1>3. CASE HitStep(r) \/ ReleaseStep(r) \/ CallRaises(r) \/ Interrupt(r) \/ Timeout(r)
  BY <1>0, <1>e, <1>l, <1>3
  DEF HitStep, ReleaseStep, CallRaises, Interrupt, Timeout, Ask, Release, stateVars, world,
      auxVars, Active, Holding, LocalType
<1>4. CASE CheckStep(r)
  BY <1>0, <1>l, <1>g, <1>4 DEF CheckStep, stateVars, world, auxVars, Unsent, Active, Holding
<1>5. CASE ReportStep(r) \/ NeutralStep(r) \/ FinalStep(r) \/ PutStep(r)
  BY <1>0, <1>l, <1>g, <1>5
  DEF ReportStep, NeutralStep, FinalStep, PutStep, Ask, BreakerFinish, Put, stateVars, world,
      auxVars, Unsent, Active, Holding
<1>6. CASE ReserveStep(r)
  <2>0. pc[r] = "reserve" /\ UNCHANGED <<spent, audit>>
    BY <1>6 DEF ReserveStep, world, auxVars
  <2>1. CASE UNCHANGED receipts /\ Leave(r, "failed")
    BY <1>0, <1>l, <2>0, <2>1 DEF Active, Holding
  <2>2. CASE Reserve(me)
    <3>1. spent[me] = None /\ receipts[me].state \in {"none", "reserved"}
      BY <1>0, <1>a, <2>0 DEF Unsent
    <3>2. receipts'[me].state = "reserved" /\ receipts'[me].charge = Amount
      BY <1>0, <1>a, <2>2, <3>1 DEF Reserve, Entry
    <3>3. index'[r] = index[r] /\ pc'[r] \in {"enter", "release"}
      BY <1>0, <1>6, GotoMoves, LeaveMoves DEF ReserveStep, Ask, Same, Holding
    <3> QED BY <1>k, <1>o, <2>0, <3>1, <3>2, <3>3 DEF Entry
  <2> QED BY <1>0, <1>6, <2>1, <2>2 DEF ReserveStep, Ask, stateVars
<1>7. CASE EnterStep(r)
  <2>1. /\ UNCHANGED <<receipts, spent, audit>> /\ pc[r] = "enter" /\ index'[r] = index[r]
        /\ pc'[r] \in {"start", "void"}
    BY <1>0, <1>7, GotoMoves
    DEF EnterStep, Ask, BreakerEnter, stateVars, world, auxVars, Same, Holding
  <2> QED BY <1>a, <1>k, <1>o, <2>1 DEF Entry, Unsent
<1>8. CASE StartStep(r)
  <2>1. /\ pc[r] = "start" /\ index' = index /\ receipts' = receipts
        /\ audit' = audit \cup {<<me, "started">>}
    BY <1>0, <1>8 DEF StartStep, stateVars
  <2>2. spent[me] = None /\ receipts[me].state = "reserved" /\ receipts[me].charge = Amount
    BY <1>a, <2>1 DEF Entry, Unsent
  <2>3. CASE pc'[r] = "call" /\ \E n \in 1 .. Amount : spent' = [spent EXCEPT ![me] = n]
    <3>1. Entry(me)'
      BY <1>0, <2>1, <2>2, <2>3 DEF Entry
    <3> QED BY <1>k, <1>o, <2>1, <2>3, <3>1 DEF Unsent
  <2>4. CASE pc'[r] = "finish" /\ usage'[r] = None /\ spent' = spent
    <3>1. Entry(me)'
      BY <1>0, <2>1, <2>2, <2>4 DEF Entry
    <3> QED BY <1>k, <1>o, <2>1, <2>4, <3>1 DEF Unsent
  <2> QED BY <1>0, <1>8, <2>3, <2>4 DEF StartStep, At
<1>9. CASE StartFails(r)
  <2>1. /\ pc[r] = "start" /\ index'[r] = index[r] /\ UNCHANGED <<receipts, spent>>
        /\ audit \subseteq audit' /\ pc'[r] = "voidEntered"
    BY <1>0, <1>9, GotoMoves DEF StartFails, stateVars, auxVars, Same, Holding
  <2> QED BY <1>a, <1>k, <1>o, <2>1 DEF Entry, Unsent
<1>10. CASE VoidStep(r)
  <2>1. /\ pc[r] \in {"void", "voidEntered"} /\ index'[r] = index[r]
        /\ pc'[r] \in {"release", "neutral"} /\ UNCHANGED <<spent, audit>>
        /\ Settle(me, 0) \/ receipts' = receipts
    BY <1>0, <1>10, GotoMoves, LeaveMoves
    DEF VoidStep, Ask, stateVars, world, auxVars, Same, Holding
  <2>2. receipts'[me] = receipts[me] \/ receipts'[me].state = "settled"
    BY <1>0, <2>1 DEF Settle
  <2> QED BY <1>a, <1>k, <1>o, <2>1, <2>2 DEF Entry, Unsent
<1>11. ASSUME NEW v, NEW u, Answer(r, v, u), u \in {None, spent[me]} PROVE Account(r)'
  <2>1. /\ pc[r] = "call" /\ pc'[r] = "finish" /\ index'[r] = index[r] /\ usage'[r] = u
        /\ UNCHANGED <<receipts, spent, audit>>
    BY <1>0, <1>11 DEF Answer, At, stateVars, world
  <2> QED BY <1>11, <1>a, <1>k, <1>o, <2>1 DEF Entry, Unsent
<1>12. CASE FinishStep(r)
  <2>1. /\ pc[r] = "finish" /\ index'[r] = index[r] /\ usage'[r] = usage[r]
        /\ UNCHANGED <<receipts, spent>> /\ audit \subseteq audit'
        /\ pc'[r] = "neutral" \/ (pc'[r] = "settle" /\ <<me, "finished">> \in audit')
    BY <1>0, <1>12, GotoMoves DEF FinishStep, stateVars, auxVars, Same, Holding
  <2> QED BY <1>a, <1>k, <1>o, <2>1 DEF Entry, Unsent
<1>13. CASE SettleStep(r)
  <2>1. /\ pc[r] = "settle" /\ index'[r] = index[r] /\ UNCHANGED <<spent, audit>>
        /\ pc'[r] \in {"report", "neutral"}
        /\ receipts' = receipts \/ (usage[r] # None /\ Settle(me, usage[r]))
    BY <1>0, <1>13, GotoMoves
    DEF SettleStep, Ask, stateVars, world, auxVars, Same, Holding
  <2>2. <<me, "finished">> \in audit /\ usage[r] \in {None, spent[me]}
    BY <1>a, <2>1
  <2>3. \/ receipts'[me] = receipts[me]
        \/ receipts'[me].state = "settled" /\ receipts'[me].charge = spent[me]
    <3>1. CASE receipts' = receipts
      BY <3>1
    <3>2. CASE Settle(me, usage[r]) /\ usage[r] = spent[me]
      <4>1. me \in DOMAIN receipts
        BY <1>0
      <4>2. receipts[me] \in [state : {"none", "reserved", "settled"}, day : Days,
                              charge : 0 .. Amount]
        BY <1>0
      <4>3. \/ receipts' = receipts
            \/ receipts'[me] = [receipts[me] EXCEPT !.state = "settled", !.charge = usage[r]]
        BY <3>2, <4>1 DEF Settle
      <4> QED BY <3>2, <4>2, <4>3
    <3> QED BY <2>1, <2>2, <3>1, <3>2
  <2>4. spent[me] # None => spent[me] \in Int
    BY <1>0
  <2> QED BY <1>a, <1>k, <1>o, <2>1, <2>2, <2>3, <2>4 DEF Entry, Unsent
<1>14. CASE BackoffStep(r)
  <2>1. /\ pc[r] = "backoff" /\ pc'[r] = "check" /\ index'[r] = index[r] + 1
        /\ UNCHANGED <<receipts, spent, audit>>
    BY <1>0, <1>14 DEF BackoffStep, At, stateVars, world, auxVars
  <2>2. ASSUME NEW i \in 0 .. MaxRetries
        PROVE  /\ Entry(<<r, i>>)'
               /\ index'[r] <= i =>
                    spent'[<<r, i>>] = None /\ receipts'[<<r, i>>].state # "settled"
    <3>1. index'[r] <= i => index[r] < i
      BY <1>0, <2>1
    <3> QED BY <1>b, <2>1, <3>1 DEF Entry
  <2>3. index'[r] \in Int
    BY <1>0, <2>1
  <2> QED BY <2>1, <2>2, <2>3 DEF Account, Accounted
<1>15. Reply(r) \/ CallTimeout(r) => \E v, u : Answer(r, v, u) /\ u \in {None, spent[me]}
  BY <1>0 DEF Reply, CallTimeout
<1> QED
  BY <1>1, <1>2, <1>3, <1>4, <1>5, <1>6, <1>7, <1>8, <1>9, <1>10, <1>11, <1>12, <1>13, <1>14,
     <1>15
  DEF Request, Progress

AccountInv == TypeInv /\ \A r \in Requests : Account(r)

\* What another request or the environment does, no account of r's sees.
LEMMA NextAccount == AccountInv /\ [Next]_vars => AccountInv'
<1> SUFFICES ASSUME AccountInv, [Next]_vars PROVE AccountInv'
  OBVIOUS
<1>1. TypeInv'
  BY NextTypeInv DEF AccountInv
<1>2. ASSUME NEW r \in Requests, Request(r), NEW s \in Requests PROVE Account(s)'
  <2>1. CASE s = r
    BY <1>2, <2>1, AccountSteps DEF AccountInv
  <2>2. CASE s # r
    <3>1. pc'[s] = pc[s] /\ index'[s] = index[s] /\ usage'[s] = usage[s]
      BY <1>2, <2>2, RequestTypes DEF AccountInv, Alone, Kept
    <3>2. \A i \in 0 .. MaxRetries : <<s, i>> \in Attempts \ {Attempt(r)}
      BY <2>2, ServiceAssumption DEF Attempt
    <3>3. /\ Attempt(s)' = Attempt(s) /\ Attempt(s) \in Attempts \ {Attempt(r)}
      BY <2>2, <3>1, Names DEF AccountInv, Attempt
    <3>4. OthersKept(Attempt(r))
      BY <1>2, OwnAttempt DEF AccountInv
    <3>5. \A i \in 0 .. MaxRetries :
            /\ receipts'[<<s, i>>] = receipts[<<s, i>>] /\ spent'[<<s, i>>] = spent[<<s, i>>]
            /\ <<<<s, i>>, "started">> \in audit' <=> <<<<s, i>>, "started">> \in audit
            /\ <<<<s, i>>, "finished">> \in audit' <=> <<<<s, i>>, "finished">> \in audit
      BY <3>2, <3>4 DEF OthersKept
    <3>6. \A i \in 0 .. MaxRetries : Entry(<<s, i>>)'
      BY <3>5 DEF AccountInv, Account, Entry
    <3>7. Accounted(s)
      BY DEF AccountInv, Account
    <3>8. Accounted(s)'
      BY <3>1, <3>3, <3>4, <3>5, <3>7 DEF Accounted, OthersKept
    <3> QED BY <3>6, <3>8 DEF Account
  <2> QED BY <2>1, <2>2
<1>3. CASE Environment
  <2>1. UNCHANGED <<pc, index, usage, audit, spent>>
    BY <1>3, EnvironmentTypes DEF AccountInv
  <2>2. receipts' = receipts
    BY <1>3
    DEF Environment, ChangePolicy, Expire, CacheExpire, Midnight, NewDay, Minute, NewMinute,
        Tick, StateTick, stateVars
  <2> QED BY <1>1, <2>1, <2>2 DEF AccountInv, Account, Accounted, Entry, Attempt
<1>4. CASE UNCHANGED vars
  BY <1>1, <1>4
  DEF vars, stateVars, localVars, auxVars, AccountInv, Account, Accounted, Entry, Attempt
<1> QED BY <1>1, <1>2, <1>3, <1>4, WhoseStep DEF AccountInv

\* What the provider took for an attempt stays charged and audited, whatever is lost, fails
\* or is abandoned on the way (_produce's except clauses).
THEOREM EveryDispatchAccounted == Spec => []DispatchAccounted
<1>1. Init => AccountInv
  <2> SUFFICES ASSUME Init PROVE AccountInv
    OBVIOUS
  <2>1. \A r \in Requests, i \in 0 .. MaxRetries :
          spent[<<r, i>>] = None /\ receipts[<<r, i>>].state = "none"
    BY ServiceAssumption DEF Init, StateInit
  <2> QED BY <2>1, InitTypeInv DEF Init, AccountInv, Account, Accounted, Entry
<1>2. AccountInv => DispatchAccounted
  <2> SUFFICES ASSUME AccountInv, NEW a \in Attempts, spent[a] # None
               PROVE  /\ receipts[a].state # "none"
                      /\ receipts[a].charge >= spent[a]
                      /\ <<a, "started">> \in audit
                      /\ receipts[a].state = "settled" => <<a, "finished">> \in audit
    BY DEF DispatchAccounted
  <2>1. PICK r \in Requests, i \in 0 .. MaxRetries : a = <<r, i>>
    BY ServiceAssumption
  <2> QED BY <2>1 DEF AccountInv, Account, Entry
<1> QED BY <1>1, <1>2, NextAccount, PTL DEF Spec

-----------------------------------------------------------------------------
(* The probe of an open breaker *)

\* Who an open breaker let in since it opened holds the probe while it lives, and the
\* probe's time outlasts its own.
Probes(r) ==
  breaker.open /\ pc[r] \in Live /\ breaker.in[Attempt(r)] = breaker.epoch
    => breaker.probe = Attempt(r) /\ breaker.probeLeft > left[r]

\* An attempt is live from the moment it enters the breaker until it reports to it.
LEMMA BreakerSteps ==
  ASSUME TypeInv, NEW r \in Requests, Request(r)
  PROVE  \/ /\ breaker' = breaker
            /\ pc'[r] \in Live =>
                 pc[r] \in Live /\ Attempt(r)' = Attempt(r) /\ left'[r] = left[r]
         \/ /\ BreakerEnter(Attempt(r))
            /\ Attempt(r)' = Attempt(r) /\ left'[r] = left[r]
         \/ /\ pc'[r] \notin Live
            /\ \/ pc[r] = "report" /\ BreakerFinish(Attempt(r), Status(r))
               \/ BreakerFinish(Attempt(r), "neutral")
<1> DEFINE Stays == /\ breaker' = breaker
                    /\ pc'[r] \in Live =>
                         pc[r] \in Live /\ Attempt(r)' = Attempt(r) /\ left'[r] = left[r]
<1> USE DEF TypeInv
<1>0. /\ {"success", "cached", "failed"} \subseteq Results
      /\ Holding \subseteq Labels /\ {"lookup", "hit", "acquire"} \subseteq Labels
  BY DEF Results, Labels, Active
<1>1. ASSUME NEW res \in Results, End(r, res) PROVE pc'[r] \notin Live
  BY <1>1, EndMoves DEF Live
<1>2. ASSUME NEW res \in Results, Leave(r, res) PROVE pc'[r] \notin Live
  BY <1>2, LeaveMoves DEF Live
<1>3. ASSUME NEW label \in Labels, Goto(r, label)
      PROVE  pc'[r] = label /\ Attempt(r)' = Attempt(r) /\ left'[r] = left[r]
  BY <1>3, GotoMoves DEF Same, Attempt
<1>4. CASE AdmitStep(r) \/ LookupStep(r) \/ AcquireStep(r) \/ ReleaseStep(r)
  BY <1>0, <1>1, <1>3, <1>4
  DEF AdmitStep, LookupStep, AcquireStep, ReleaseStep, Ask, Admit, Acquire, Release, stateVars,
      Live, Holding, LocalType
<1>5. ASSUME NEW p \in Payloads, Start(r, p) PROVE Stays
  BY <1>0, <1>1, <1>5 DEF Start, At, stateVars, Live, LocalType
<1>6. CASE RecheckStep(r) \/ HitStep(r) \/ CheckStep(r) \/ ReserveStep(r) \/ VoidStep(r)
  BY <1>0, <1>1, <1>2, <1>3, <1>6
  DEF RecheckStep, HitStep, CheckStep, ReserveStep, VoidStep, Ask, Reserve, Settle, stateVars,
      Live, Holding
<1>7. CASE EnterStep(r)
  BY <1>0, <1>3, <1>7 DEF EnterStep, Ask, stateVars, Live, Holding
<1>8. CASE StartStep(r) \/ BackoffStep(r) \/ \E v, u : Answer(r, v, u)
  BY <1>8 DEF StartStep, BackoffStep, Answer, At, stateVars, Live, Attempt, LocalType
<1>9. CASE StartFails(r) \/ FinishStep(r) \/ CallRaises(r) \/ SettleStep(r)
  BY <1>0, <1>2, <1>3, <1>9
  DEF StartFails, FinishStep, CallRaises, SettleStep, Ask, Settle, stateVars, Live, Holding
<1>10. CASE ReportStep(r) \/ NeutralStep(r)
  BY <1>0, <1>2, <1>3, <1>10 DEF ReportStep, NeutralStep, Ask, stateVars, Live, Holding
<1>11. CASE FinalStep(r) \/ PutStep(r)
  BY <1>0, <1>2, <1>3, <1>11 DEF FinalStep, PutStep, Ask, Put, stateVars, Live, Holding
<1>12. CASE Interrupt(r) \/ Timeout(r)
  BY <1>0, <1>1, <1>12 DEF Interrupt, Timeout, stateVars
<1>13. Reply(r) \/ CallTimeout(r) => \E v, u : Answer(r, v, u)
  BY DEF Reply, CallTimeout
<1> QED
  BY <1>4, <1>5, <1>6, <1>7, <1>8, <1>9, <1>10, <1>11, <1>12, <1>13 DEF Request, Progress

\* The next one in is let in only when nobody holds the probe.
LEMMA EnteredProbe ==
  ASSUME breaker \in BreakerType, NEW a \in Attempts, BreakerEnter(a)
  PROVE  /\ breaker'.open = breaker.open /\ breaker'.epoch = breaker.epoch
         /\ \A b \in Attempts \ {a} : breaker'.in[b] = breaker.in[b]
         /\ breaker.open =>
              /\ breaker.probe = None \/ ~ breaker.probeLeft > 0
              /\ breaker'.probe = a /\ breaker'.probeLeft = LeaseTTL
BY DEF BreakerEnter, Blocked, Entered, BreakerType

\* A report from anyone but the holder leaves the probe; the holder's takes it away, closes
\* the breaker or opens it again with nobody in.
LEMMA FinishedProbe ==
  ASSUME BreakerInv, NEW a \in Attempts, NEW status \in Statuses, BreakerFinish(a, status),
         breaker.open
  PROVE  /\ breaker'.epoch # breaker.epoch =>
              status # "neutral" /\ breaker.in[a] = breaker.epoch
         /\ \A b \in Attempts \ {a} :
              breaker'.open /\ breaker'.in[b] = breaker'.epoch =>
                /\ breaker.in[b] = breaker.epoch
                /\ \/ breaker'.probe = breaker.probe /\ breaker'.probeLeft = breaker.probeLeft
                   \/ breaker.probe \in {None, a}
<1> DEFINE c == Left(breaker, a)
<1>1. /\ breaker \in BreakerType /\ breaker' = Reported(breaker, a, status)
      /\ \A b \in Attempts : breaker.in[b] # None => breaker.in[b] <= breaker.epoch
      /\ None \notin Nat /\ breaker.epoch \in Nat
      /\ breaker.in \in [Attempts -> Nat \cup {None}]
  BY NoneAssumption DEF BreakerInv, BreakerFinish, BreakerType
<1>2. /\ c \in BreakerType
      /\ c.epoch = breaker.epoch /\ c.open = breaker.open /\ c.probe = breaker.probe
      /\ c.probeLeft = breaker.probeLeft /\ \A b \in Attempts \ {a} : c.in[b] = breaker.in[b]
  BY <1>1 DEF Left, BreakerType
<1> HIDE DEF c
<1>3. CASE ~ Counts(breaker, a)
  BY <1>1, <1>2, <1>3 DEF Reported, c
<1>4. CASE Counts(breaker, a) /\ status = "neutral"
  <2>1. breaker' = DropProbe(c)
    BY <1>1, <1>4 DEF Reported, c
  <2>2. /\ breaker'.epoch = breaker.epoch
        /\ \A b \in Attempts \ {a} : breaker'.in[b] = breaker.in[b]
    BY <1>2, <2>1 DEF DropProbe, BreakerType
  <2> QED BY <1>4, <2>2 DEF Counts
<1>5. CASE Counts(breaker, a) /\ status = "success"
  BY <1>1, <1>5 DEF Reported, Closing, Counts
<1>6. CASE Counts(breaker, a) /\ status = "failure" /\ Trips(breaker)
  <2>1. breaker' = Opening(c)
    BY <1>1, <1>6 DEF Reported, c
  <2>2. /\ breaker'.epoch = breaker.epoch + 1
        /\ \A b \in Attempts \ {a} : breaker'.in[b] = breaker.in[b]
    BY <1>2, <2>1 DEF Opening
  <2>3. \A b \in Attempts \ {a} : breaker'.in[b] # breaker'.epoch
    BY <1>1, <2>2
  <2> QED BY <1>6, <2>3 DEF Counts
<1>7. CASE Counts(breaker, a) /\ status = "failure" /\ ~ Trips(breaker)
  BY <1>1, <1>7, LimitAssumption DEF Trips, BreakerInv, BreakerType
<1> QED BY <1>3, <1>4, <1>5, <1>6, <1>7 DEF Statuses

\* A report that opens a closed breaker leaves nobody in it.
LEMMA TrippedAlone ==
  ASSUME BreakerInv, NEW a \in Attempts, NEW status \in Statuses, BreakerFinish(a, status),
         ~ breaker.open, breaker'.open
  PROVE  \A b \in Attempts \ {a} : breaker'.in[b] # breaker'.epoch
<1> DEFINE c == Left(breaker, a)
<1>1. /\ breaker \in BreakerType /\ breaker' = Reported(breaker, a, status)
      /\ \A b \in Attempts : breaker.in[b] # None => breaker.in[b] <= breaker.epoch
      /\ None \notin Nat /\ breaker.epoch \in Nat
      /\ breaker.in \in [Attempts -> Nat \cup {None}]
  BY NoneAssumption DEF BreakerInv, BreakerFinish, BreakerType
<1>2. /\ c \in BreakerType /\ c.epoch = breaker.epoch /\ c.open = breaker.open
      /\ \A b \in Attempts \ {a} : c.in[b] = breaker.in[b]
  BY <1>1 DEF Left, BreakerType
<1> HIDE DEF c
<1>3. breaker' = Opening(c)
  <2>1. ~ c.open /\ ~ DropProbe(c).open /\ ~ Closing(c).open
        /\ ~ [c EXCEPT !.failures = @ + 1].open
    BY <1>2 DEF DropProbe, Closing, BreakerType
  <2> QED BY <1>1, <2>1 DEF Reported, Statuses, c
<1>4. /\ breaker'.epoch = breaker.epoch + 1
      /\ \A b \in Attempts \ {a} : breaker'.in[b] = breaker.in[b]
  BY <1>2, <1>3 DEF Opening
<1> QED BY <1>1, <1>4

ProbeInv == TypeInv /\ BreakerInv /\ \A r \in Requests : Probes(r)

\* What OnlyTheProbeMovesIt says of a step.
MovedByProbe ==
  breaker.open /\ breaker'.epoch # breaker.epoch =>
    \E r \in Requests : pc[r] = "report" /\ breaker.probe = Attempt(r)

\* Every step leaves at most one probe, and an open breaker moves for it alone.
LEMMA NextProbe == ProbeInv /\ [Next]_vars => ProbeInv' /\ MovedByProbe
<1> SUFFICES ASSUME ProbeInv, [Next]_vars PROVE ProbeInv' /\ MovedByProbe
  OBVIOUS
<1>0. /\ TypeInv /\ BreakerInv /\ breaker \in BreakerType
      /\ left \in [Requests -> 0 .. Deadline] /\ LeaseTTL \in Nat
      /\ Deadline \in Nat /\ LeaseTTL > Deadline /\ None \notin Attempts
      /\ breaker.probeLeft \in Nat
      /\ \A r \in Requests : Attempt(r) \in Attempts /\ Status(r) \in Statuses
      /\ "neutral" \in Statuses
  BY TimeAssumption, NoneAssumption, Names
  DEF ProbeInv, TypeInv, LocalType, BreakerInv, BreakerType, LeaseTTL, Status, Statuses
<1>1. TypeInv'
  BY <1>0, NextTypeInv
<1>2. ASSUME NEW r \in Requests, Request(r)
      PROVE  BreakerInv' /\ MovedByProbe /\ \A s \in Requests : Probes(s)'
  <2>0. \A s \in Requests \ {r} :
          /\ pc'[s] = pc[s] /\ left'[s] = left[s] /\ Attempt(s)' = Attempt(s)
          /\ Attempt(s) \in Attempts \ {Attempt(r)} /\ Attempt(s) # None
    BY <1>0, <1>2, RequestTypes DEF Alone, Kept, Attempt
  <2>1. CASE /\ breaker' = breaker
             /\ pc'[r] \in Live =>
                  pc[r] \in Live /\ Attempt(r)' = Attempt(r) /\ left'[r] = left[r]
    BY <1>0, <2>0, <2>1, OtherStep DEF ProbeInv, Probes, MovedByProbe
  <2>2. CASE /\ BreakerEnter(Attempt(r))
             /\ Attempt(r)' = Attempt(r) /\ left'[r] = left[r]
    <3>1. BreakerInv' /\ MovedByProbe
      BY <1>0, <2>2, EnterImplements, EnteredProbe DEF MovedByProbe
    <3>2. Probes(r)'
      <4>1. left[r] < LeaseTTL
        BY <1>0
      <4>2. breaker'.open => breaker'.probe = Attempt(r) /\ breaker'.probeLeft = LeaseTTL
        BY <1>0, <2>2, EnteredProbe
      <4> QED BY <2>2, <4>1, <4>2 DEF Probes
    <3>3. ASSUME NEW s \in Requests \ {r} PROVE Probes(s)'
      <4>1. breaker.open /\ pc[s] \in Live /\ breaker.in[Attempt(s)] = breaker.epoch => FALSE
        <5>1. breaker.open => breaker.probe = None \/ ~ breaker.probeLeft > 0
          BY <1>0, <2>2, EnteredProbe
        <5>2. Probes(s) /\ Attempt(s) # None /\ left[s] \in 0 .. Deadline
          BY <1>0, <2>0 DEF ProbeInv
        <5> QED BY <1>0, <5>1, <5>2 DEF Probes
      <4>2. /\ breaker'.open = breaker.open /\ breaker'.epoch = breaker.epoch
            /\ breaker'.in[Attempt(s)] = breaker.in[Attempt(s)]
        BY <1>0, <2>0, <2>2, EnteredProbe
      <4> QED BY <2>0, <4>1, <4>2 DEF Probes
    <3> QED BY <3>1, <3>2, <3>3
  <2>3. ASSUME pc'[r] \notin Live, NEW status \in Statuses,
               BreakerFinish(Attempt(r), status),
               status # "neutral" => pc[r] = "report"
        PROVE  BreakerInv' /\ MovedByProbe /\ \A s \in Requests : Probes(s)'
    <3>1. BreakerInv'
      BY <1>0, <2>3, FinishImplements
    <3>2. MovedByProbe
      BY <1>0, <2>3, FinishedProbe DEF ProbeInv, Probes, Live, MovedByProbe
    <3>3. CASE breaker.open
      <4>1. Probes(r)'
        BY <2>3 DEF Probes
      <4>2. ASSUME NEW s \in Requests \ {r} PROVE Probes(s)'
        <5> DEFINE b == Attempt(s)
        <5>1. breaker'.open /\ breaker'.in[b] = breaker'.epoch =>
                /\ breaker.in[b] = breaker.epoch
                /\ \/ breaker'.probe = breaker.probe /\ breaker'.probeLeft = breaker.probeLeft
                   \/ breaker.probe \in {None, Attempt(r)}
          BY <1>0, <2>0, <2>3, <3>3, FinishedProbe
        <5>2. Probes(s) /\ b # None /\ b # Attempt(r)
          BY <2>0 DEF ProbeInv
        <5>3. pc'[s] = pc[s] /\ left'[s] = left[s] /\ Attempt(s)' = b
          BY <2>0
        <5> QED BY <3>3, <5>1, <5>2, <5>3 DEF Probes
      <4> QED BY <3>1, <3>2, <4>1, <4>2
    <3>4. CASE ~ breaker.open
      <4>1. breaker'.open => \A b \in Attempts \ {Attempt(r)} : breaker'.in[b] # breaker'.epoch
        BY <1>0, <2>3, <3>4, TrippedAlone
      <4>2. ASSUME NEW s \in Requests \ {r} PROVE Probes(s)'
        BY <2>0, <4>1 DEF Probes
      <4>3. Probes(r)'
        BY <2>3 DEF Probes
      <4> QED BY <3>1, <3>2, <4>2, <4>3
    <3> QED BY <3>1, <3>2, <3>3, <3>4
  <2> QED BY <1>0, <1>2, <2>1, <2>2, <2>3, BreakerSteps
<1>3. CASE Tick
  <2>1. breaker' = [breaker EXCEPT !.left = Dec(@), !.probeLeft = Dec(@)] /\ UNCHANGED <<pc, index>>
    BY <1>3 DEF Tick, StateTick
  <2>2. /\ breaker'.open = breaker.open /\ breaker'.epoch = breaker.epoch
        /\ breaker'.in = breaker.in /\ breaker'.probe = breaker.probe
        /\ breaker'.probeLeft = Dec(breaker.probeLeft)
    BY <1>0, <2>1 DEF BreakerType
  <2>3. \A s \in Requests : pc[s] \in Live => left[s] > 0 /\ left'[s] = left[s] - 1
    BY <1>0, <1>3 DEF Tick, Live, Active, Holding, Dec
  <2>4. \A s \in Requests : Probes(s)'
    BY <1>0, <2>1, <2>2, <2>3 DEF ProbeInv, Probes, Attempt, Dec
  <2>5. BreakerInv'
    BY <1>0, <2>1, OtherStep
  <2> QED BY <1>1, <2>2, <2>4, <2>5 DEF ProbeInv, MovedByProbe
<1>4. CASE (Environment /\ ~ Tick) \/ UNCHANGED vars
  <2>1. UNCHANGED <<breaker, pc, left, index>>
    BY <1>4
    DEF Environment, ChangePolicy, Expire, CacheExpire, Midnight, NewDay, Minute, NewMinute,
        stateVars, localVars, vars
  <2>2. BreakerInv'
    BY <1>0, <2>1, OtherStep
  <2> QED BY <1>1, <2>1, <2>2 DEF ProbeInv, Probes, Attempt, MovedByProbe
<1> QED BY <1>1, <1>2, <1>3, <1>4, WhoseStep DEF ProbeInv

\* No request is a probe at first.
LEMMA InitProbe == Init => ProbeInv
BY InitTypeInv, InitBreakerInv DEF Init, ProbeInv, Probes, Live

\* A probe that was lost with its request is not replaced while the request could still be
\* alive: the probe's lease outlasts the deadline (_ENTER's probe_until).
THEOREM AtMostOneProbe == Spec => []OneProbe
<1>1. ProbeInv => OneProbe
  <2> SUFFICES ASSUME ProbeInv, breaker.open, NEW r \in Requests, NEW s \in Requests,
                      pc[r] \in Live, breaker.in[Attempt(r)] = breaker.epoch,
                      pc[s] \in Live, breaker.in[Attempt(s)] = breaker.epoch
               PROVE  r = s
    BY DEF OneProbe
  <2>1. Attempt(r) = Attempt(s)
    BY DEF ProbeInv, Probes
  <2> QED BY <2>1 DEF Attempt
<1> QED BY InitProbe, NextProbe, <1>1, PTL DEF Spec

\* No late answer, and no probe that was taken over, closes or prolongs an open breaker
\* (_FINISH's epoch and probe checks).
THEOREM ProbesMoveTheBreaker == Spec => OnlyTheProbeMovesIt
<1>1. MovedByProbe =>
        (breaker.open /\ breaker'.epoch # breaker.epoch =>
           \E r \in Requests : pc[r] = "report" /\ breaker.probe = Attempt(r))
  BY DEF MovedByProbe
<1> QED BY InitProbe, NextProbe, <1>1, PTL DEF Spec, OnlyTheProbeMovesIt
=============================================================================
