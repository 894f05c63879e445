------------------------------ MODULE LeaderLock ------------------------------
(* Leader election of the background loops (core/distributed_lock.py): replicas
   contend for a Redis lease and run their loops while they believe they lead.
   Every pass through run_as_leader makes a lock object with an identity of its
   own. The key holds the identity of a replica's present object, or Orphan once
   that object is gone: its process died, or its release never reached Redis. How
   much of a lease is left is not counted: a lease that nobody renews ends.    *)
EXTENDS Naturals

CONSTANTS Replicas, Nobody, Orphan,
          MaxSlips,   \* bound: calls of Redis that fail, leases that outlast their renewals
          MaxCrashes  \* bound: replicas that die, stop or fail to start their loops

ASSUME LeaderAssumption ==
  /\ Nobody \notin Replicas /\ Orphan \notin Replicas /\ Nobody # Orphan
  /\ MaxSlips \in Nat /\ MaxCrashes \in Nat

VARIABLES lease,   \* the key in Redis
          held,    \* replica -> RedisLeaderLock._held
          duty,    \* replica -> what run_as_leader does
          slips, crashes

leaderVars == <<lease, held, duty, slips, crashes>>

LeaderInit ==
  /\ lease = Nobody
  /\ held = [r \in Replicas |-> FALSE]
  /\ duty = [r \in Replicas |-> "waits"]
  /\ slips = 0 /\ crashes = 0

Slip  == slips < MaxSlips /\ slips' = slips + 1 /\ UNCHANGED crashes
Dies  == crashes < MaxCrashes /\ crashes' = crashes + 1 /\ UNCHANGED slips
Quiet == UNCHANGED <<slips, crashes>>

Leads(r) ==
  /\ held' = [held EXCEPT ![r] = TRUE]
  /\ duty' = [duty EXCEPT ![r] = "works"]

\* Mutant: the lease is set whether or not another holds it.
AcquireAnyway(r) ==
  duty[r] = "waits" /\ lease' = r /\ Leads(r) /\ Quiet

\* SET NX wins; a replica that loses sleeps and tries again.
Acquire(r) ==
  duty[r] = "waits" /\ lease = Nobody /\ lease' = r /\ Leads(r) /\ Quiet

\* Redis fails, before or after it has set the key: the replica leads all the same.
AcquireFails(r) ==
  /\ duty[r] = "waits" /\ Slip
  /\ lease' \in {lease, IF lease = Nobody THEN r ELSE lease}
  /\ Leads(r)

\* The renewal finds another owner or none. The flag goes down and the loop runs on.
NoticesLoss(r) ==
  /\ duty[r] = "works" /\ held[r] /\ lease # r
  /\ held' = [held EXCEPT ![r] = FALSE]
  /\ Quiet /\ UNCHANGED <<lease, duty>>

\* Mutant: the key is set without a time to live.
NeverExpires == FALSE /\ UNCHANGED leaderVars

\* A lease ends: that of an object which is gone, or of one whose renewals fail or
\* come too late.
Expire ==
  /\ lease # Nobody
  /\ lease' = Nobody
  /\ IF lease = Orphan THEN Quiet ELSE Slip
  /\ UNCHANGED <<held, duty>>

Steps(r, next) ==
  /\ held' = [held EXCEPT ![r] = FALSE]
  /\ duty' = [duty EXCEPT ![r] = next]

\* Mutant: the key is deleted without a look at its owner.
ReleaseAnyway(r, next) ==
  /\ duty[r] = "works" /\ Steps(r, next) /\ Dies
  /\ lease' = IF held[r] THEN Nobody ELSE lease

\* The guarded work has raised, or was cancelled with its process: compare and delete.
Release(r, next) ==
  /\ duty[r] = "works" /\ Steps(r, next) /\ Dies
  /\ lease' = IF held[r] /\ lease = r THEN Nobody ELSE lease

ReleaseFails(r, next) ==
  /\ duty[r] = "works" /\ Steps(r, next) /\ Slip
  /\ held[r]
  /\ lease' = IF lease = r THEN Orphan ELSE lease

Die(r) ==
  /\ duty[r] # "down" /\ Steps(r, "down") /\ Dies
  /\ lease' = IF lease = r THEN Orphan ELSE lease

Restart(r) ==
  /\ duty[r] = "down"
  /\ duty' = [duty EXCEPT ![r] = "waits"]
  /\ Quiet /\ UNCHANGED <<lease, held>>

Working == {r \in Replicas : duty[r] = "works"}

-----------------------------------------------------------------------------
(* Properties *)

\* Two replicas run the loops only after Redis has failed or a lease has outlasted
\* its renewals; crashes and restarts alone never bring it about (acquire, release).
OneLeaderUntilSlip == slips = 0 => \A r, s \in Working : r = s

\* A replica that stops never deletes a lease it no longer owns, "e.g. after a GC
\* pause that outlived the TTL" (release).
OnlyOwnLeaseReleased ==
  [][\A r \in Replicas :
       duty[r] = "works" /\ duty'[r] # "works" /\ lease # r => lease' = lease]_leaderVars
=============================================================================
