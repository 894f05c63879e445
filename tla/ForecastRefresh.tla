--------------------------- MODULE ForecastRefresh ---------------------------
(* Refreshing the saved forecast of one workspace (services/
   persisted_forecasts.py): requests reserve a row and enqueue a job, workers
   claim the row, have the ML service compute and persist a run, split it by
   location and publish it. Each transaction and each call is a step. Workers die
   between any two of them or lose their heartbeat, jobs are delivered again, the
   caller of the ML service may be gone when it answers, and sales are imported
   all the while.

   Time is what the code asks of it: a row is quiet when its updated_at is older
   than its status allows, 30 seconds for a pending row and two minutes for a
   running one, which a live heartbeat prevents.                              *)
EXTENDS Integers, Sequences, FiniteSets

CONSTANTS Refreshes,   \* the ids of rows of forecast_refreshes
          Workers,     \* arq workers
          None,        \* no row, no run, no revision
          MaxImports,  \* bound: imports that write the input marker
          MaxFaults,   \* bound: crashes, lost heartbeats and outages
          MaxDirect    \* bound: no run is generated past the queue after so many runs

ASSUME RefreshAssumption ==
  /\ None \notin Refreshes \cup Nat \cup {"direct"} /\ "direct" \notin Refreshes
  /\ MaxImports \in Nat /\ MaxFaults \in Nat /\ MaxDirect \in Nat

VARIABLES marker,     \* the last input marker written, committed or not
          importing,  \* whether its transaction is still open
          committed,  \* forecast_input_changes.changed_at, as others see it
          rows,       \* forecast_refreshes
          runs,       \* completed forecast_runs, in the order they completed
          unsent,     \* rows whose request has committed and not yet enqueued
          queue,      \* arq jobs that are not finished
          ml,         \* the computation that holds the workspace's ML lock
          pc, job, run, pulse,  \* worker -> its step, row, run and heartbeat
          faults      \* bound: faults so far

inputs  == <<marker, importing, committed>>
worker  == <<pc, job, run, pulse>>
vars    == <<inputs, rows, runs, unsent, queue, ml, worker, faults>>

Absent == [status |-> "none", quiet |-> FALSE, op |-> "generate", base |-> None,
           revision |-> 0]
Idle   == [for |-> None, input |-> 0]

Init ==
  /\ marker = 0 /\ importing = FALSE /\ committed = 0
  /\ rows = [r \in Refreshes |-> Absent]
  /\ runs = << >>
  /\ unsent = {} /\ queue = {}
  /\ ml = Idle
  /\ pc = [w \in Workers |-> "idle"]
  /\ job = [w \in Workers |-> None]
  /\ run = [w \in Workers |-> None]
  /\ pulse = [w \in Workers |-> FALSE]
  /\ faults = 0

Active == {r \in Refreshes : rows[r].status \in {"pending", "running"}}

Fault == faults < MaxFaults /\ faults' = faults + 1

-----------------------------------------------------------------------------
(* Imports of sales, whose trigger writes the marker inside their transaction.
   The marker is one row per workspace and industry: imports wait for each
   other from their first statement to their end.                            *)

ImportBegins ==
  /\ ~ importing /\ marker < MaxImports
  /\ marker' = marker + 1 /\ importing' = TRUE
  /\ UNCHANGED <<committed, rows, runs, unsent, queue, ml, worker, faults>>

ImportEnds ==
  /\ importing /\ importing' = FALSE
  /\ committed' \in {marker, committed}
  /\ UNCHANGED <<marker, rows, runs, unsent, queue, ml, worker, faults>>

-----------------------------------------------------------------------------
(* Staleness: run_is_stale *)

\* Mutant: a refresh's run is compared by time, as other runs are.
StaleByTime(i) == committed > runs[i].observed

\* A run of a refresh is compared with the revision its refresh had seen, stamped
\* or not yet stamped on it; any other with the time it was persisted.
Stale(i) ==
  CASE runs[i].stamp # None   -> committed # runs[i].stamp
    [] /\ runs[i].stamp = None
       /\ runs[i].refresh # None -> committed # rows[runs[i].refresh].revision
    [] OTHER -> committed > runs[i].observed

LatestIsStale == runs = << >> \/ Stale(Len(runs))

-----------------------------------------------------------------------------
(* request_refresh *)

\* Mutant: nobody fails the row of a dead worker.
NothingReaped == rows

\* A running row that has gone quiet is failed by whoever asks next.
Reaped ==
  [r \in Refreshes |->
    IF rows[r].status = "running" /\ rows[r].quiet
    THEN [rows[r] EXCEPT !.status = "failed"] ELSE rows[r]]

Free == {r \in Refreshes : rows[r].status = "none"}
StillActive == {r \in Refreshes : Reaped[r].status \in {"pending", "running"}}

\* Nothing is active: a new row is reserved, for a run or only for its split, with
\* the revision of the inputs that is committed now.
Reserve(r, force) ==
  /\ StillActive = {} /\ r \in Free
  /\ \E op \in {"generate", "split"} :
       /\ op = "generate" <=> force \/ LatestIsStale
       /\ op = "split" => ~ runs[Len(runs)].split
       /\ rows' = [Reaped EXCEPT ![r] =
            [status |-> "pending", quiet |-> FALSE, op |-> op, revision |-> committed,
             base |-> IF runs = << >> THEN None ELSE Len(runs)]]
  /\ unsent' = unsent \cup {r}
  /\ UNCHANGED <<inputs, runs, queue, ml, worker, faults>>

Forgotten == {r \in Refreshes : rows[r].status = "pending" /\ rows[r].quiet}

\* A row is active, or the latest run is good: the request reaps, and enqueues
\* again a pending row whose job may never have reached the queue. If the queue is
\* down the request fails and changes nothing.
Look ==
  /\ \/ StillActive # {}
     \/ ~ LatestIsStale /\ runs[Len(runs)].split
     \/ Free = {}  \* bound: the row it would reserve is not modelled
  /\ rows' = [r \in Refreshes |->
       IF r \in Forgotten THEN [rows[r] EXCEPT !.quiet = FALSE] ELSE Reaped[r]]
  /\ queue' = queue \cup Forgotten
  /\ UNCHANGED <<inputs, runs, unsent, ml, worker, faults>>

Request ==
  \/ Look
  \/ \E r \in Refreshes, force \in BOOLEAN : Reserve(r, force)

Enqueue(r) ==
  /\ r \in unsent
  /\ unsent' = unsent \ {r} /\ queue' = queue \cup {r}
  /\ UNCHANGED <<inputs, rows, runs, ml, worker, faults>>

\* The queue raises, before or after the job got there: the row is failed.
EnqueueFails(r) ==
  /\ r \in unsent /\ Fault
  /\ unsent' = unsent \ {r}
  /\ queue' \in {queue, queue \cup {r}}
  /\ rows' = [rows EXCEPT ![r].status = "failed"]
  /\ UNCHANGED <<inputs, runs, ml, worker>>

\* The API process dies between its commit and the queue.
RequesterDies(r) ==
  /\ r \in unsent /\ Fault
  /\ unsent' = unsent \ {r}
  /\ UNCHANGED <<inputs, rows, runs, queue, ml, worker>>

-----------------------------------------------------------------------------
(* execute_baseline_refresh *)

\* Mutant: a retry takes up a failed row again.
ClaimableWhenFailed(r) ==
  rows[r].status \in {"pending", "failed"} \/ (rows[r].status = "running" /\ rows[r].quiet)

Claimable(r) ==
  rows[r].status = "pending" \/ (rows[r].status = "running" /\ rows[r].quiet)

At(w, label) == pc' = [pc EXCEPT ![w] = label]

\* The job ends and its frame goes.
Finish(w) ==
  /\ At(w, "idle")
  /\ job' = [job EXCEPT ![w] = None]
  /\ run' = [run EXCEPT ![w] = None]
  /\ pulse' = [pulse EXCEPT ![w] = FALSE]

\* Mutant: a job to split does not take its run from the row.
ClaimWithoutRun(w, r) ==
  /\ pc[w] = "idle" /\ r \in queue /\ Claimable(r)
  /\ rows' = [rows EXCEPT ![r].status = "running", ![r].quiet = FALSE]
  /\ At(w, "recover")
  /\ job' = [job EXCEPT ![w] = r]
  /\ pulse' = [pulse EXCEPT ![w] = TRUE]
  /\ UNCHANGED <<inputs, runs, unsent, queue, ml, run, faults>>

\* arq delivers a job at least once, also to a second worker.
Claim(w, r) ==
  /\ pc[w] = "idle" /\ r \in queue
  /\ \/ /\ Claimable(r)
        /\ rows' = [rows EXCEPT ![r].status = "running", ![r].quiet = FALSE]
        /\ At(w, "recover")
        /\ job' = [job EXCEPT ![w] = r]
        /\ run' = [run EXCEPT ![w] = IF rows[r].op = "split" THEN rows[r].base ELSE None]
        /\ pulse' = [pulse EXCEPT ![w] = TRUE]
        /\ UNCHANGED queue
     \/ /\ ~ Claimable(r)
        /\ queue' = queue \ {r}
        /\ UNCHANGED <<rows, worker>>
  /\ UNCHANGED <<inputs, runs, unsent, ml, faults>>

RunsOf(r) == {i \in DOMAIN runs : runs[i].refresh = r}

Known(w) ==
  IF rows[job[w]].op = "split" THEN {run[w]} ELSE RunsOf(job[w])

\* A committed run of this refresh is taken up; a split has its run from the start.
Recover(w) ==
  /\ pc[w] = "recover"
  /\ \/ /\ \E i \in Known(w) : run' = [run EXCEPT ![w] = i]
        /\ At(w, "publish")
     \/ Known(w) = {} /\ At(w, "post") /\ UNCHANGED run
  /\ UNCHANGED <<inputs, rows, runs, unsent, queue, ml, job, pulse, faults>>

\* Mutant: the ML service does not look for a run it has already persisted.
PostWithoutLook(w) ==
  /\ pc[w] = "post" /\ ml = Idle
  /\ ml' = [for |-> job[w], input |-> committed]
  /\ At(w, "wait") /\ UNCHANGED run
  /\ UNCHANGED <<inputs, rows, runs, unsent, queue, job, pulse, faults>>

\* The ML service refuses while another computation of the workspace holds its
\* lock, returns a run it finds under the lock, or computes from what it reads.
Post(w) ==
  /\ pc[w] = "post"
  /\ \/ /\ ml = Idle
        /\ \/ /\ \E i \in RunsOf(job[w]) : run' = [run EXCEPT ![w] = i]
              /\ At(w, "publish") /\ UNCHANGED ml
           \/ /\ RunsOf(job[w]) = {}
              /\ ml' = [for |-> job[w], input |-> committed]
              /\ At(w, "wait") /\ UNCHANGED run
     \/ ml # Idle /\ At(w, "fail") /\ UNCHANGED <<run, ml>>
  /\ UNCHANGED <<inputs, rows, runs, unsent, queue, job, pulse, faults>>

\* The computation ends, whether or not its caller is still there.
Persist ==
  /\ ml # Idle
  /\ runs' = Append(runs,
       [refresh |-> IF ml.for \in Refreshes THEN ml.for ELSE None,
        input |-> ml.input, observed |-> marker, stamp |-> None, split |-> FALSE])
  /\ ml' = Idle
  /\ UNCHANGED <<inputs, rows, unsent, queue, worker, faults>>

ComputationFails ==
  /\ ml # Idle /\ Fault
  /\ ml' = Idle
  /\ UNCHANGED <<inputs, rows, runs, unsent, queue, worker>>

\* Mutant: whatever run is the latest is taken for the answer.
RespondLatest(w) ==
  /\ pc[w] = "wait" /\ runs # << >>
  /\ run' = [run EXCEPT ![w] = Len(runs)]
  /\ At(w, "publish")
  /\ UNCHANGED <<inputs, rows, runs, unsent, queue, ml, job, pulse, faults>>

Respond(w) ==
  /\ pc[w] = "wait" /\ ml.for # job[w]
  /\ \/ /\ \E i \in RunsOf(job[w]) : run' = [run EXCEPT ![w] = i]
        /\ At(w, "publish")
     \/ RunsOf(job[w]) = {} /\ At(w, "fail") /\ UNCHANGED run
  /\ UNCHANGED <<inputs, rows, runs, unsent, queue, ml, job, pulse, faults>>

\* One transaction splits the run, stamps the revision its request had seen and
\* completes the row, whatever the row's status has become.
Publish(w) ==
  /\ pc[w] = "publish"
  /\ runs' = [runs EXCEPT
       ![run[w]].split = TRUE,
       ![run[w]].stamp = IF rows[job[w]].op = "generate" THEN rows[job[w]].revision ELSE @]
  /\ rows' = [rows EXCEPT ![job[w]].status = "completed", ![job[w]].base = run[w]]
  /\ queue' = queue \ {job[w]}
  /\ Finish(w)
  /\ UNCHANGED <<inputs, unsent, ml, faults>>

\* Any step may raise: too little data, a rejected or timed-out request, a failed
\* split, a worker that shuts down.
Raises(w) ==
  /\ pc[w] \in {"recover", "post", "wait", "publish"} /\ Fault
  /\ At(w, "fail")
  /\ UNCHANGED <<inputs, rows, runs, unsent, queue, ml, job, run, pulse>>

\* The handler fails the row, whatever its status has become. arq keeps the job of
\* a worker that shuts down.
Fail(w) ==
  /\ pc[w] = "fail"
  /\ rows' = [rows EXCEPT ![job[w]].status = "failed",
                          ![job[w]].base = IF run[w] = None THEN @ ELSE run[w]]
  /\ queue' \in {queue, queue \ {job[w]}}
  /\ Finish(w)
  /\ UNCHANGED <<inputs, runs, unsent, ml, faults>>

\* The handler itself may fail, when the database is down.
FailFails(w) ==
  /\ pc[w] = "fail" /\ Fault
  /\ queue' \in {queue, queue \ {job[w]}}
  /\ Finish(w)
  /\ UNCHANGED <<inputs, rows, runs, unsent, ml>>

\* The worker dies; its job stays with arq.
Crash(w) ==
  /\ pc[w] # "idle" /\ Fault
  /\ Finish(w)
  /\ UNCHANGED <<inputs, rows, runs, unsent, queue, ml>>

\* An error ends the heartbeat's task and not the job.
PulseStops(w) ==
  /\ pulse[w] /\ Fault
  /\ pulse' = [pulse EXCEPT ![w] = FALSE]
  /\ UNCHANGED <<inputs, rows, runs, unsent, queue, ml, pc, job, run>>

\* Redis loses a job, or it expires before a worker gets to it.
JobLost(r) ==
  /\ r \in queue /\ Fault
  /\ queue' = queue \ {r}
  /\ UNCHANGED <<inputs, rows, runs, unsent, ml, worker>>

\* Nobody has updated the row for as long as its status allows.
GoesQuiet(r) ==
  /\ r \in Active /\ ~ rows[r].quiet
  /\ \A w \in Workers : ~ (pulse[w] /\ job[w] = r)
  /\ rows' = [rows EXCEPT ![r].quiet = TRUE]
  /\ UNCHANGED <<inputs, runs, unsent, queue, ml, worker, faults>>

\* POST /forecasts/generate computes past the queue and splits what it gets.
GenerateDirectly ==
  /\ Len(runs) < MaxDirect /\ ml = Idle
  /\ ml' = [for |-> "direct", input |-> committed]
  /\ UNCHANGED <<inputs, rows, runs, unsent, queue, worker, faults>>

SplitDirectly(i) ==
  /\ runs[i].refresh = None /\ ~ runs[i].split
  /\ runs' = [runs EXCEPT ![i].split = TRUE]
  /\ UNCHANGED <<inputs, rows, unsent, queue, ml, worker, faults>>

Work(w) ==
  \/ \E r \in Refreshes : Claim(w, r)
  \/ Recover(w) \/ Post(w) \/ Respond(w) \/ Publish(w) \/ Fail(w)

Next ==
  \/ ImportBegins \/ ImportEnds
  \/ Request
  \/ \E r \in Refreshes :
       \/ Enqueue(r) \/ EnqueueFails(r) \/ RequesterDies(r)
       \/ JobLost(r) \/ GoesQuiet(r)
  \/ \E w \in Workers :
       Work(w) \/ Raises(w) \/ FailFails(w) \/ Crash(w) \/ PulseStops(w)
  \/ Persist \/ ComputationFails
  \/ GenerateDirectly \/ \E i \in DOMAIN runs : SplitDirectly(i)

Spec == Init /\ [][Next]_vars

\* The API and the workers run what they have begun, the ML service answers, time
\* passes, and someone keeps asking: the page while a refresh is pending, a user
\* when it is shown as failed.
Fairness ==
  /\ WF_vars(Request) /\ WF_vars(Persist)
  /\ \A r \in Refreshes : WF_vars(Enqueue(r)) /\ WF_vars(GoesQuiet(r))
  /\ \A w \in Workers : WF_vars(Work(w))
FairSpec == Spec /\ Fairness

-----------------------------------------------------------------------------
(* Properties *)

Row == [status : {"none", "pending", "running", "completed", "failed"},
        quiet : BOOLEAN, op : {"generate", "split"}, base : Nat \cup {None},
        revision : 0 .. MaxImports]
Run == [refresh : Refreshes \cup {None}, input : 0 .. MaxImports,
        observed : 0 .. MaxImports, stamp : (0 .. MaxImports) \cup {None},
        split : BOOLEAN]

\* Types of the tables, the queue and the workers' frames: a worker that publishes
\* has a run to publish (execute_baseline_refresh).
TypeOK ==
  /\ marker \in 0 .. MaxImports /\ committed \in 0 .. MaxImports
  /\ importing \in BOOLEAN
  /\ rows \in [Refreshes -> Row] /\ runs \in Seq(Run)
  /\ unsent \subseteq Refreshes /\ queue \subseteq Refreshes
  /\ ml \in [for : Refreshes \cup {None, "direct"}, input : 0 .. MaxImports]
  /\ pc \in [Workers -> {"idle", "recover", "post", "wait", "publish", "fail"}]
  /\ job \in [Workers -> Refreshes \cup {None}]
  /\ run \in [Workers -> Nat \cup {None}]
  /\ \A w \in Workers : /\ pc[w] # "idle" <=> job[w] \in Refreshes
                        /\ pc[w] = "publish" => run[w] \in DOMAIN runs
  /\ pulse \in [Workers -> BOOLEAN]
  /\ faults \in 0 .. MaxFaults

\* A refresh's run that passes as fresh was computed from every import that has
\* committed, also from those in flight when it was requested or computed
\* (request_refresh's input_revision, run_is_stale).
FreshRefreshIsCurrent ==
  runs # << >> /\ runs[Len(runs)].refresh # None /\ ~ Stale(Len(runs))
    => runs[Len(runs)].input = committed

\* Whatever is delivered twice, retried or abandoned, a refresh is computed and
\* persisted at most once (the ML service's look under its lock).
OneRunPerRefresh ==
  \A i, j \in DOMAIN runs :
    runs[i].refresh # None /\ runs[i].refresh = runs[j].refresh => i = j

\* A completed refresh has published a run that is split by location: its own if it
\* was to generate one, also when a late or second worker completed it.
CompletedIsPublished ==
  \A r \in Refreshes : rows[r].status = "completed" =>
    /\ rows[r].base \in DOMAIN runs
    /\ runs[rows[r].base].split
    /\ rows[r].op = "generate" => runs[rows[r].base].refresh = r

\* A workspace never has two active refreshes ("the DB reservation is
\* authoritative", request_refresh).
OneActive == \A r, s \in Active : r = s

\* No refresh stays active for ever, which would keep every other one from starting,
\* whoever died on the way ("a dead worker must not leave an eternal spinner",
\* request_refresh).
NoEternalSpinner == \A r \in Refreshes : r \in Active ~> r \notin Active
=============================================================================
