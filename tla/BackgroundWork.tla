---------------------------- MODULE BackgroundWork ----------------------------
(* The API's replicas elect a leader (LeaderLock), whose loop runs the webhook retry
   worker (WebhookDelivery) every few seconds: _run_singletons in main.py. Requests
   dispatch and retry deliveries all the while. A replica that has lost its lease
   goes on with its loop, so that two may tick.                                *)
EXTENDS LeaderLock, WebhookDelivery

ASSUME TickersAssumption == Tickers = Replicas

workVars == <<leaderVars, hookVars>>

WorkInit == LeaderInit /\ HookInit

Elect(r) ==
  /\ Acquire(r) \/ AcquireFails(r) \/ NoticesLoss(r) \/ Restart(r)
  /\ UNCHANGED hookVars

\* The process dies or is told to stop: the tick's transaction goes with it.
Stop(r) ==
  /\ Die(r) \/ Release(r, "down") \/ ReleaseFails(r, "down")
  /\ TickUndone(r) /\ UNCHANGED hiccups

\* A loop fails to start and the replica contends again.
StartFails(r) ==
  /\ Release(r, "waits") \/ ReleaseFails(r, "waits")
  /\ batch[r] = Empty
  /\ UNCHANGED hookVars

Tick(r) ==
  /\ duty[r] = "works"
  /\ TickBegins(r) \/ TickCommits(r) \/ \E d \in Deliveries : TickAttempts(r, d)
  /\ UNCHANGED leaderVars

\* The worker loses its connection; the loop catches it and ticks again.
TickFails(r) ==
  /\ batch[r] # Empty /\ Hiccup /\ TickUndone(r)
  /\ UNCHANGED leaderVars

Requests ==
  /\ \/ \E d \in Deliveries : Dispatch(d) \/ ResetRow(d) \/ Direct(d) \/ HandLost(d)
     \/ SetActive \/ DeleteEndpoint
  /\ UNCHANGED leaderVars

Time ==
  \/ Expire /\ UNCHANGED hookVars
  \/ (\E d \in Deliveries : ComesDue(d)) /\ UNCHANGED leaderVars

WorkNext ==
  \/ \E r \in Replicas : Elect(r) \/ Stop(r) \/ StartFails(r) \/ Tick(r) \/ TickFails(r)
  \/ Requests
  \/ Time

WorkSpec == WorkInit /\ [][WorkNext]_workVars

\* Waiting replicas try again, replicas are restarted, a leader's loop runs, requests
\* run to their end, orphaned leases expire and deliveries come due.
WorkFairness ==
  /\ \A r \in Replicas : WF_workVars(Elect(r)) /\ WF_workVars(Tick(r))
  /\ WF_workVars(Expire /\ lease = Orphan /\ UNCHANGED hookVars)
  /\ \A d \in Deliveries :
       /\ WF_workVars(ComesDue(d) /\ UNCHANGED leaderVars)
       /\ WF_workVars(Direct(d) /\ UNCHANGED leaderVars)

FairWorkSpec == WorkSpec /\ WorkFairness
=============================================================================
