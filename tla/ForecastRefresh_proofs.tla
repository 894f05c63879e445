------------------------ MODULE ForecastRefresh_proofs ------------------------
(* Theorems about the refreshing of saved forecasts, for any number of requests,
   workers, imports and faults.                                               *)
EXTENDS ForecastRefresh, TLAPS

-----------------------------------------------------------------------------
(* The inductive invariant: the types, three of the properties and what they rest
   on.                                                                        *)

Used(r) == rows[r].status # "none"

\* Only a reserved row is queued, worked on, computed for or named by a run.
OnlyReserved ==
  /\ \A r \in queue \cup unsent : Used(r)
  /\ \A w \in Workers : job[w] # None => Used(job[w])
  /\ \A i \in DOMAIN runs : runs[i].refresh # None => Used(runs[i].refresh)
  /\ ml.for \in Refreshes => Used(ml.for)

\* The run in a worker's frame exists, and is its refresh's own if the refresh is to
\* generate one; a refresh that is to split has its run from the start.
Frames ==
  /\ \A r \in Refreshes : rows[r].op = "split" => rows[r].base \in DOMAIN runs
  /\ \A w \in Workers :
       /\ run[w] # None => run[w] \in DOMAIN runs
       /\ pc[w] = "recover" /\ rows[job[w]].op = "split" => run[w] # None
       /\ pc[w] \in {"post", "wait"} => rows[job[w]].op = "generate"
       /\ pc[w] = "publish" /\ rows[job[w]].op = "generate"
            => runs[run[w]].refresh = job[w]

\* A refresh sees the inputs no earlier than the revision it was reserved with.
Inputs ==
  /\ committed <= marker
  /\ \A r \in Refreshes : rows[r].revision <= committed
  /\ ml # Idle => ml.input <= committed
  /\ ml.for \in Refreshes => rows[ml.for].revision <= ml.input
  /\ \A i \in DOMAIN runs :
       /\ runs[i].input <= committed
       /\ runs[i].refresh # None =>
            /\ rows[runs[i].refresh].revision <= runs[i].input
            /\ runs[i].stamp \in {None, rows[runs[i].refresh].revision}

\* What is being computed has not been persisted.
NotYetPersisted ==
  ml.for \in Refreshes => \A i \in DOMAIN runs : runs[i].refresh # ml.for

Inv == /\ TypeOK /\ OnlyReserved /\ Frames /\ Inputs /\ NotYetPersisted
       /\ OneRunPerRefresh /\ CompletedIsPublished

-----------------------------------------------------------------------------
(* Rows and runs as steps change them *)

\* What the types say of a row and of a run.
LEMMA Typed ==
  ASSUME TypeOK
  PROVE  /\ marker \in Nat /\ committed \in Nat /\ ml.input \in Nat
         /\ \A r \in Refreshes : rows[r] \in Row /\ rows[r].revision \in Nat
         /\ \A i \in DOMAIN runs :
              /\ runs[i] \in Run /\ i \in Nat /\ runs[i].input \in Nat
              /\ runs[i].refresh \in Refreshes \cup {None}
              /\ runs[i].stamp \in Nat \cup {None}
<1>1. /\ rows \in [Refreshes -> Row] /\ runs \in Seq(Run) /\ MaxImports \in Nat
      /\ marker \in 0 .. MaxImports /\ committed \in 0 .. MaxImports
      /\ ml.input \in 0 .. MaxImports
  BY RefreshAssumption DEF TypeOK
<1>2. \A r \in Refreshes : rows[r] \in Row /\ rows[r].revision \in Nat
  BY <1>1 DEF Row
<1>3. \A i \in DOMAIN runs : runs[i] \in Run /\ i \in Nat
  BY <1>1
<1>4. \A e \in Run : /\ e.input \in Nat /\ e.refresh \in Refreshes \cup {None}
                     /\ e.stamp \in Nat \cup {None}
  BY <1>1 DEF Run
<1> QED BY <1>1, <1>2, <1>3, <1>4

\* A row that is or is not reserved stays so, with its operation and revision.
RowsKept ==
  /\ rows' \in [Refreshes -> Row]
  /\ \A r \in Refreshes :
       /\ rows'[r].status = "none" <=> rows[r].status = "none"
       /\ rows'[r].op = rows[r].op /\ rows'[r].revision = rows[r].revision

\* A step that changes one row keeps it a row of the same refresh (claim, handlers).
LEMMA OneRowKept ==
  ASSUME TypeOK, NEW r \in Refreshes, NEW e \in Row,
         rows' = [rows EXCEPT ![r] = e],
         e.status = "none" <=> rows[r].status = "none",
         e.op = rows[r].op, e.revision = rows[r].revision
  PROVE  RowsKept /\ rows'[r] = e /\ \A s \in Refreshes \ {r} : rows'[s] = rows[s]
BY DEF TypeOK, RowsKept

\* Runs are added and split, never lost or changed otherwise but in their stamp.
RunsKept ==
  /\ runs' \in Seq(Run)
  /\ DOMAIN runs \subseteq DOMAIN runs'
  /\ \A i \in DOMAIN runs :
       /\ runs'[i].refresh = runs[i].refresh /\ runs'[i].input = runs[i].input
       /\ runs[i].split => runs'[i].split

\* So does one that splits a run (publish, SplitDirectly).
LEMMA OneRunKept ==
  ASSUME TypeOK, NEW i \in DOMAIN runs, NEW e \in Run,
         runs' = [runs EXCEPT ![i] = e],
         e.refresh = runs[i].refresh, e.input = runs[i].input, e.split
  PROVE  /\ RunsKept /\ DOMAIN runs' = DOMAIN runs /\ runs'[i] = e
         /\ \A j \in DOMAIN runs \ {i} : runs'[j] = runs[j]
<1>1. runs \in Seq(Run)
  BY DEF TypeOK
<1>2. runs' \in Seq(Run) /\ DOMAIN runs' = DOMAIN runs
  BY <1>1
<1> QED BY <1>1, <1>2 DEF RunsKept

\* What a step owes to no more than the rows it keeps (request_refresh, the claim).
LEMMA KeptRows ==
  ASSUME Inv, RowsKept, UNCHANGED <<inputs, runs, ml>>
  PROVE  Inputs' /\ NotYetPersisted' /\ OneRunPerRefresh'
<1>1. RowsKept /\ Inputs /\ NotYetPersisted /\ OneRunPerRefresh /\ TypeOK
  BY DEF Inv
<1>2. Inputs'
  BY <1>1, Typed DEF RowsKept, Inputs, inputs
<1>3. NotYetPersisted' /\ OneRunPerRefresh'
  BY <1>1 DEF NotYetPersisted, OneRunPerRefresh
<1> QED BY <1>2, <1>3

\* Only reserved rows are queued, worked on and named by runs, as long as rows and
\* runs are kept (every step but Reserve and Persist).
LEMMA KeptReservations ==
  ASSUME Inv, RowsKept, RunsKept, DOMAIN runs' = DOMAIN runs, UNCHANGED ml,
         \A r \in queue' \cup unsent' : r \in Refreshes /\ Used(r),
         \A w \in Workers : job'[w] # None => job'[w] \in Refreshes /\ Used(job'[w])
  PROVE  OnlyReserved'
<1>1. RowsKept /\ OnlyReserved /\ TypeOK
  BY DEF Inv
<1>2. \A i \in DOMAIN runs : runs[i].refresh \in Refreshes \cup {None}
  BY <1>1, Typed
<1> QED BY <1>1, <1>2 DEF RowsKept, RunsKept, OnlyReserved, Used

\* A completed row stays published while its run is kept (every step but Publish).
LEMMA KeptCompleted ==
  ASSUME Inv, RowsKept, RunsKept,
         \A r \in Refreshes : rows'[r].status = "completed" =>
           rows[r].status = "completed" /\ rows'[r].base = rows[r].base
  PROVE  CompletedIsPublished'
BY DEF Inv, RowsKept, RunsKept, CompletedIsPublished

\* What TypeOK says of the workers.
WorkersOK ==
  /\ pc \in [Workers -> {"idle", "recover", "post", "wait", "publish", "fail"}]
  /\ job \in [Workers -> Refreshes \cup {None}]
  /\ run \in [Workers -> Nat \cup {None}]
  /\ \A w \in Workers : /\ pc[w] # "idle" <=> job[w] \in Refreshes
                        /\ pc[w] = "publish" => run[w] \in DOMAIN runs
  /\ pulse \in [Workers -> BOOLEAN]

\* A step that changes only rows leaves the frames right (request_refresh).
LEMMA KeptFrames ==
  ASSUME Inv, RowsKept, \A r \in Refreshes : rows'[r].base = rows[r].base,
         UNCHANGED <<runs, worker>>
  PROVE  Frames'
<1>1. RowsKept /\ Frames /\ TypeOK
  BY DEF Inv
<1>2. WorkersOK
  BY <1>1 DEF TypeOK, WorkersOK
<1>3. pc' = pc /\ job' = job /\ run' = run
  BY DEF worker
<1>4. \A r \in Refreshes : rows'[r].op = "split" => rows'[r].base \in DOMAIN runs
  BY <1>1 DEF RowsKept, Frames
<1>5. ASSUME NEW w \in Workers, pc[w] \in {"recover", "post", "wait", "publish"}
      PROVE  rows'[job[w]].op = rows[job[w]].op
  BY <1>1, <1>2, <1>5 DEF RowsKept, WorkersOK
<1> QED BY <1>1, <1>3, <1>4, <1>5 DEF Frames

\* A worker that goes on to its next step (execute_baseline_refresh).
LEMMA MovedOK ==
  ASSUME TypeOK, NEW w \in Workers, NEW i \in Nat \cup {None},
         NEW label \in {"recover", "post", "wait", "publish", "fail"},
         pc[w] # "idle", At(w, label), run' = [run EXCEPT ![w] = i],
         DOMAIN runs \subseteq DOMAIN runs', label = "publish" => i \in DOMAIN runs',
         UNCHANGED <<job, pulse>>
  PROVE  WorkersOK'
<1>1. WorkersOK
  BY DEF TypeOK, WorkersOK
<1>2. /\ pc' \in [Workers -> {"idle", "recover", "post", "wait", "publish", "fail"}]
      /\ run' \in [Workers -> Nat \cup {None}]
  BY <1>1 DEF WorkersOK, At
<1>3. pc'[w] = label /\ run'[w] = i
  BY <1>1 DEF WorkersOK, At
<1>4. \A v \in Workers \ {w} : pc'[v] = pc[v] /\ run'[v] = run[v]
  BY <1>1 DEF WorkersOK, At
<1> QED BY <1>1, <1>2, <1>3, <1>4 DEF WorkersOK

\* A worker that ends its job, on any way out of execute_baseline_refresh.
LEMMA FinishedOK ==
  ASSUME TypeOK, NEW w \in Workers, Finish(w), DOMAIN runs \subseteq DOMAIN runs'
  PROVE  WorkersOK'
<1>1. WorkersOK
  BY DEF TypeOK, WorkersOK
<1>2. /\ pc' \in [Workers -> {"idle", "recover", "post", "wait", "publish", "fail"}]
      /\ run' \in [Workers -> Nat \cup {None}] /\ pulse' \in [Workers -> BOOLEAN]
      /\ job' \in [Workers -> Refreshes \cup {None}]
  BY <1>1 DEF WorkersOK, At, Finish
<1>3. pc'[w] = "idle" /\ job'[w] = None
  BY <1>1 DEF WorkersOK, At, Finish
<1>4. \A v \in Workers \ {w} : pc'[v] = pc[v] /\ run'[v] = run[v] /\ job'[v] = job[v]
  BY <1>1 DEF WorkersOK, At, Finish
<1> QED BY <1>1, <1>2, <1>3, <1>4, RefreshAssumption DEF WorkersOK

\* Splitting runs, or stamping them, adds none (the last transaction).
LEMMA KeptRuns ==
  ASSUME Inv, RunsKept, DOMAIN runs' = DOMAIN runs, UNCHANGED ml
  PROVE  NotYetPersisted' /\ OneRunPerRefresh'
BY DEF Inv, RunsKept, NotYetPersisted, OneRunPerRefresh

\* A worker that goes on has a run of its refresh before it publishes one.
LEMMA MovedFrames ==
  ASSUME Inv, NEW w \in Workers, NEW i, NEW label \in {"post", "wait", "publish", "fail"},
         pc[w] # "idle", At(w, label), run' = [run EXCEPT ![w] = i],
         UNCHANGED <<rows, runs, job>>,
         i # None => i \in DOMAIN runs,
         label \in {"post", "wait"} => rows[job[w]].op = "generate",
         label = "publish" /\ rows[job[w]].op = "generate" => runs[i].refresh = job[w]
  PROVE  Frames'
<1>1. WorkersOK /\ Frames
  BY DEF Inv, TypeOK, WorkersOK
<1>2. /\ pc'[w] = label /\ run'[w] = i
      /\ \A v \in Workers \ {w} : pc'[v] = pc[v] /\ run'[v] = run[v]
  BY <1>1 DEF WorkersOK, At
<1> QED BY <1>1, <1>2 DEF Frames

\* A worker that ends leaves the frames of the others right.
LEMMA FinishedFrames ==
  ASSUME Inv, NEW w \in Workers, Finish(w), RowsKept, RunsKept,
         \A r \in Refreshes : rows'[r].op = "split" => rows'[r].base \in DOMAIN runs
  PROVE  Frames'
<1>1. WorkersOK /\ Frames
  BY DEF Inv, TypeOK, WorkersOK
<1>2. /\ pc'[w] = "idle" /\ run'[w] = None
      /\ \A v \in Workers \ {w} : pc'[v] = pc[v] /\ run'[v] = run[v] /\ job'[v] = job[v]
  BY <1>1 DEF WorkersOK, At, Finish
<1>3. ASSUME NEW v \in Workers \ {w}, pc[v] # "idle"
      PROVE  rows'[job[v]].op = rows[job[v]].op
  BY <1>1, <1>3 DEF WorkersOK, RowsKept
<1>4. \A r \in Refreshes : rows'[r].op = "split" => rows'[r].base \in DOMAIN runs'
  BY DEF RunsKept
<1>5. ASSUME NEW v \in Workers \ {w}
      PROVE  /\ run'[v] # None => run'[v] \in DOMAIN runs'
             /\ pc'[v] = "recover" /\ rows'[job'[v]].op = "split" => run'[v] # None
             /\ pc'[v] \in {"post", "wait"} => rows'[job'[v]].op = "generate"
             /\ pc'[v] = "publish" /\ rows'[job'[v]].op = "generate"
                  => runs'[run'[v]].refresh = job'[v]
  BY <1>1, <1>2, <1>3 DEF Frames, RunsKept, WorkersOK
<1> QED BY <1>2, <1>4, <1>5 DEF Frames

\* A step that changes no more than the status and the clock of rows.
LEMMA RowStep ==
  ASSUME Inv, RowsKept, UNCHANGED <<inputs, runs, ml, worker>>,
         \A r \in Refreshes :
           /\ rows'[r].base = rows[r].base
           /\ rows'[r].status = "completed" => rows[r].status = "completed",
         \A r \in queue' \cup unsent' : r \in Refreshes /\ Used(r),
         faults' \in 0 .. MaxFaults
  PROVE  Inv'
<1>1. TypeOK /\ OnlyReserved
  BY DEF Inv
<1>2. RunsKept /\ DOMAIN runs' = DOMAIN runs
  BY <1>1 DEF TypeOK, RunsKept
<1>3. \A w \in Workers : job'[w] # None => job'[w] \in Refreshes /\ Used(job'[w])
  BY <1>1 DEF TypeOK, OnlyReserved, worker
<1>4. OnlyReserved'
  BY <1>2, <1>3, KeptReservations
<1>5. Frames'
  BY KeptFrames
<1>6. CompletedIsPublished'
  BY <1>2, KeptCompleted
<1>7. Inputs' /\ NotYetPersisted' /\ OneRunPerRefresh'
  BY KeptRows
<1>8. TypeOK'
  BY <1>1 DEF TypeOK, RowsKept, inputs, worker
<1> QED BY <1>4, <1>5, <1>6, <1>7, <1>8 DEF Inv

-----------------------------------------------------------------------------
(* The invariant is inductive *)

\* Every step of a requester, a worker, the queue, the ML service or an import keeps
\* the invariant.
LEMMA NextInv == Inv /\ [Next]_vars => Inv'
<1> SUFFICES ASSUME Inv, [Next]_vars PROVE Inv'
  OBVIOUS
<1>0. /\ TypeOK /\ OnlyReserved /\ Frames /\ Inputs /\ NotYetPersisted
      /\ OneRunPerRefresh /\ CompletedIsPublished
  BY DEF Inv
<1> USE RefreshAssumption, <1>0
<1>1. ASSUME ImportBegins PROVE Inv'
  BY <1>1 DEF ImportBegins, worker,
     Inv, TypeOK, OnlyReserved, Used, Frames, Inputs, NotYetPersisted, OneRunPerRefresh,
     CompletedIsPublished
<1>2. ASSUME ImportEnds PROVE Inv'
  <2>1. /\ committed' \in {committed, marker} /\ UNCHANGED <<marker, rows, runs, ml>>
    BY <1>2 DEF ImportEnds
  <2>2. committed <= marker /\ committed \in Nat /\ marker \in Nat /\ ml.input \in Nat
    BY Typed DEF Inputs
  <2>3. committed <= committed' /\ committed' <= marker' /\ committed' \in Nat
    BY <2>1, <2>2
  <2>4. Inputs'
    <3>1. \A r \in Refreshes : rows[r].revision \in Nat
      BY Typed
    <3>2. \A i \in DOMAIN runs : runs[i].input \in Nat
      BY Typed
    <3> QED BY <2>1, <2>2, <2>3, <3>1, <3>2 DEF Inputs
  <2> QED BY <1>2, <2>4 DEF ImportEnds, Inv, TypeOK, OnlyReserved, Used, Frames,
        NotYetPersisted, OneRunPerRefresh, CompletedIsPublished, worker
<1>3. ASSUME Look PROVE Inv'
  <2>1. /\ UNCHANGED <<inputs, runs, unsent, ml, worker, faults>>
        /\ queue' = queue \cup Forgotten
    BY <1>3 DEF Look
  <2>2. ASSUME NEW r \in Refreshes
        PROVE  \/ rows'[r] = rows[r]
               \/ rows'[r] = [rows[r] EXCEPT !.quiet = FALSE]
               \/ /\ rows[r].status = "running"
                  /\ rows'[r] = [rows[r] EXCEPT !.status = "failed"]
    BY <1>3 DEF Look, Reaped
  <2>3. \A r \in Refreshes : rows[r] \in Row
    BY Typed
  <2>4. ASSUME NEW r \in Refreshes
        PROVE  /\ rows'[r] \in Row
               /\ rows'[r].base = rows[r].base /\ rows'[r].op = rows[r].op
               /\ rows'[r].revision = rows[r].revision
               /\ rows'[r].status = "none" <=> rows[r].status = "none"
               /\ rows'[r].status = "completed" => rows[r].status = "completed"
    <3>1. CASE rows'[r] = rows[r]
      BY <2>3, <3>1
    <3>2. CASE rows'[r] = [rows[r] EXCEPT !.quiet = FALSE]
      BY <2>3, <3>2 DEF Row
    <3>3. CASE rows[r].status = "running" /\ rows'[r] = [rows[r] EXCEPT !.status = "failed"]
      BY <2>3, <3>3 DEF Row
    <3> QED BY <2>2, <3>1, <3>2, <3>3
  <2>5. RowsKept
    <3>1. rows' = [r \in Refreshes |-> rows'[r]]
      BY <1>3 DEF Look
    <3> QED BY <2>4, <3>1 DEF RowsKept
  <2>6. \A r \in queue' \cup unsent' : r \in Refreshes /\ Used(r)
    BY <2>1 DEF Forgotten, TypeOK, OnlyReserved, Used
  <2> QED BY <2>1, <2>4, <2>5, <2>6, RowStep DEF TypeOK
<1>4. ASSUME NEW r \in Refreshes, NEW force \in BOOLEAN, Reserve(r, force) PROVE Inv'
  <2>1. PICK op \in {"generate", "split"} :
          /\ op = "split" => runs # << >>
          /\ rows' = [Reaped EXCEPT ![r] =
               [status |-> "pending", quiet |-> FALSE, op |-> op, revision |-> committed,
                base |-> IF runs = << >> THEN None ELSE Len(runs)]]
    BY <1>4 DEF Reserve, LatestIsStale
  <2> DEFINE e == rows'[r]
  <2>2. /\ runs \in Seq(Run) /\ committed \in 0 .. MaxImports /\ committed \in Nat
        /\ committed <= marker
    BY Typed DEF TypeOK, Inputs
  <2>3. runs # << >> => Len(runs) \in DOMAIN runs /\ Len(runs) \in Nat
    BY <2>2
  <2>4. /\ e \in Row /\ e.status = "pending" /\ e.revision = committed
        /\ e.op = "split" => e.base \in DOMAIN runs
    <3>1. e = [status |-> "pending", quiet |-> FALSE, op |-> op, revision |-> committed,
               base |-> IF runs = << >> THEN None ELSE Len(runs)]
      BY <2>1 DEF Reaped
    <3> HIDE DEF e
    <3> QED BY <2>1, <2>2, <2>3, <3>1 DEF Row
  <2>5. ASSUME NEW s \in Refreshes \ {r}
        PROVE  /\ rows'[s] \in Row
               /\ rows'[s].base = rows[s].base /\ rows'[s].op = rows[s].op
               /\ rows'[s].revision = rows[s].revision
               /\ (rows'[s].status = "none" <=> rows[s].status = "none")
               /\ (rows'[s].status = "completed" => rows[s].status = "completed")
    <3>1. rows'[s] = Reaped[s]
      BY <2>1 DEF Reaped
    <3>2. rows[s] \in Row
      BY Typed
    <3>3. CASE rows'[s] = rows[s]
      BY <3>2, <3>3
    <3>4. CASE rows[s].status = "running" /\ rows'[s] = [rows[s] EXCEPT !.status = "failed"]
      BY <3>2, <3>4 DEF Row
    <3> QED BY <3>1, <3>3, <3>4 DEF Reaped
  <2>6. rows[r].status = "none"
    BY <1>4 DEF Reserve, Free
  <2>7. rows' \in [Refreshes -> Row]
    <3>1. rows' = [s \in Refreshes |-> rows'[s]]
      BY <2>1 DEF Reaped
    <3>2. \A s \in Refreshes : rows'[s] \in Row
      BY <2>4, <2>5
    <3> QED BY <3>1, <3>2
  <2>8. UNCHANGED <<inputs, runs, queue, ml, worker, faults>> /\ unsent' = unsent \cup {r}
    BY <1>4 DEF Reserve
  <2>9. /\ \A s \in queue : s # r
        /\ \A w \in Workers : job[w] # None => job[w] \in Refreshes \ {r}
        /\ \A i \in DOMAIN runs : runs[i].refresh # None => runs[i].refresh \in Refreshes \ {r}
        /\ ml.for # r
    BY <2>6, Typed DEF OnlyReserved, Used, TypeOK
  <2> HIDE DEF e
  <2>10. TypeOK'
    BY <2>7, <2>8 DEF TypeOK, inputs, worker
  <2>11. OnlyReserved'
    BY <2>4, <2>5, <2>8, <2>9 DEF OnlyReserved, Used, TypeOK, worker, e
  <2>12. Frames'
    <3>1. pc' = pc /\ job' = job /\ run' = run /\ runs' = runs
      BY <2>8 DEF worker
    <3>2. \A s \in Refreshes : rows'[s].op = "split" => rows'[s].base \in DOMAIN runs
      BY <2>4, <2>5 DEF Frames, e
    <3>3. \A v \in Workers : pc[v] # "idle" => job[v] # None
      BY RefreshAssumption DEF TypeOK
    <3>4. \A v \in Workers : pc[v] # "idle" => rows'[job[v]].op = rows[job[v]].op
      BY <2>5, <2>9, <3>3
    <3> QED BY <3>1, <3>2, <3>4 DEF Frames
  <2>13. Inputs'
    <3>1. UNCHANGED <<committed, marker, runs, ml>>
      BY <2>8 DEF inputs
    <3>2. \A s \in Refreshes : rows'[s].revision <= committed
      BY <2>2, <2>4, <2>5 DEF Inputs, e
    <3>3. ml.for \in Refreshes => rows'[ml.for].revision <= ml.input
      BY <2>5, <2>9 DEF Inputs
    <3>4. \A i \in DOMAIN runs : runs[i].refresh # None =>
            rows'[runs[i].refresh].revision = rows[runs[i].refresh].revision
      BY <2>5, <2>9
    <3> QED BY <3>1, <3>2, <3>3, <3>4 DEF Inputs
  <2>14. NotYetPersisted' /\ OneRunPerRefresh'
    BY <2>8 DEF NotYetPersisted, OneRunPerRefresh
  <2>15. CompletedIsPublished'
    BY <2>4, <2>5, <2>8 DEF CompletedIsPublished, e
  <2> QED BY <2>10, <2>11, <2>12, <2>13, <2>14, <2>15 DEF Inv
<1>5. ASSUME NEW r \in Refreshes, Enqueue(r) PROVE Inv'
  BY <1>5 DEF Enqueue, inputs, worker,
     Inv, TypeOK, OnlyReserved, Used, Frames, Inputs, NotYetPersisted, OneRunPerRefresh,
     CompletedIsPublished
<1>6. ASSUME NEW r \in Refreshes, EnqueueFails(r) PROVE Inv'
  <2>1. rows' = [rows EXCEPT ![r] = [rows[r] EXCEPT !.status = "failed"]]
    BY <1>6 DEF EnqueueFails
  <2>2. r \in unsent /\ rows[r].status # "none"
    BY <1>6 DEF EnqueueFails, OnlyReserved, Used
  <2>3. [rows[r] EXCEPT !.status = "failed"] \in Row
    BY Typed DEF Row
  <2>4. /\ RowsKept /\ rows'[r] = [rows[r] EXCEPT !.status = "failed"]
        /\ \A s \in Refreshes \ {r} : rows'[s] = rows[s]
    BY <2>1, <2>2, <2>3, OneRowKept, Typed DEF Row
  <2>5. \A s \in Refreshes : /\ rows'[s].base = rows[s].base
                             /\ rows'[s].status = "completed" => rows[s].status = "completed"
    BY <2>4, Typed DEF Row
  <2>6. \A s \in queue' \cup unsent' : s \in Refreshes /\ Used(s)
    BY <1>6 DEF EnqueueFails, OnlyReserved, TypeOK
  <2>7. UNCHANGED <<inputs, runs, ml, worker>> /\ faults' \in 0 .. MaxFaults
    BY <1>6 DEF EnqueueFails, Fault, TypeOK
  <2> QED BY <2>4, <2>5, <2>6, <2>7, RowStep
<1>7. ASSUME NEW r \in Refreshes, RequesterDies(r) PROVE Inv'
  BY <1>7 DEF RequesterDies, Fault, inputs, worker,
     Inv, TypeOK, OnlyReserved, Used, Frames, Inputs, NotYetPersisted, OneRunPerRefresh,
     CompletedIsPublished
<1>8. ASSUME NEW r \in Refreshes, JobLost(r) PROVE Inv'
  BY <1>8 DEF JobLost, Fault, inputs, worker,
     Inv, TypeOK, OnlyReserved, Used, Frames, Inputs, NotYetPersisted, OneRunPerRefresh,
     CompletedIsPublished
<1>9. ASSUME NEW r \in Refreshes, GoesQuiet(r) PROVE Inv'
  <2>1. rows' = [rows EXCEPT ![r] = [rows[r] EXCEPT !.quiet = TRUE]]
    BY <1>9 DEF GoesQuiet
  <2>2. [rows[r] EXCEPT !.quiet = TRUE] \in Row
    BY Typed DEF Row
  <2>3. /\ RowsKept /\ rows'[r] = [rows[r] EXCEPT !.quiet = TRUE]
        /\ \A s \in Refreshes \ {r} : rows'[s] = rows[s]
    BY <2>1, <2>2, OneRowKept, Typed DEF Row
  <2>4. \A s \in Refreshes : /\ rows'[s].base = rows[s].base
                             /\ rows'[s].status = "completed" => rows[s].status = "completed"
    BY <2>3, Typed DEF Row
  <2>5. \A s \in queue' \cup unsent' : s \in Refreshes /\ Used(s)
    BY <1>9 DEF GoesQuiet, OnlyReserved, TypeOK
  <2>6. UNCHANGED <<inputs, runs, ml, worker>> /\ faults' \in 0 .. MaxFaults
    BY <1>9 DEF GoesQuiet, TypeOK
  <2> QED BY <2>3, <2>4, <2>5, <2>6, RowStep
<1>10. ASSUME NEW w \in Workers, NEW r \in Refreshes, Claim(w, r) PROVE Inv'
  <2>1. CASE ~ Claimable(r)
    <3>1. /\ UNCHANGED <<rows, inputs, runs, unsent, ml, faults, worker>>
          /\ queue' \subseteq queue
      BY <1>10, <2>1 DEF Claim
    <3>2. TypeOK' /\ OnlyReserved'
      BY <3>1 DEF TypeOK, OnlyReserved, Used, inputs, worker
    <3>3. Frames' /\ Inputs' /\ NotYetPersisted' /\ OneRunPerRefresh' /\ CompletedIsPublished'
      BY <3>1 DEF Frames, Inputs, NotYetPersisted, OneRunPerRefresh, CompletedIsPublished,
                  inputs, worker
    <3> QED BY <3>2, <3>3 DEF Inv
  <2>2. CASE Claimable(r)
    <3> DEFINE e == [rows[r] EXCEPT !.status = "running", !.quiet = FALSE]
               b == IF rows[r].op = "split" THEN rows[r].base ELSE None
    <3>1. /\ pc[w] = "idle" /\ r \in queue
          /\ rows' = [rows EXCEPT ![r] = e] /\ pc' = [pc EXCEPT ![w] = "recover"]
          /\ job' = [job EXCEPT ![w] = r] /\ run' = [run EXCEPT ![w] = b]
          /\ pulse' = [pulse EXCEPT ![w] = TRUE]
          /\ UNCHANGED <<inputs, runs, unsent, queue, ml, faults>>
      BY <1>10, <2>2 DEF Claim, At
    <3>2. rows[r].status # "none" /\ rows[r] \in Row
      BY <3>1, Typed DEF OnlyReserved, Used
    <3>3. e \in Row /\ e.status = "running" /\ e.op = rows[r].op /\ e.base = rows[r].base
          /\ e.revision = rows[r].revision
      BY <3>2 DEF Row
    <3> HIDE DEF e
    <3>4. RowsKept /\ rows'[r] = e /\ \A s \in Refreshes \ {r} : rows'[s] = rows[s]
      BY <3>1, <3>2, <3>3, OneRowKept
    <3>5. RunsKept /\ DOMAIN runs' = DOMAIN runs
      BY <3>1 DEF RunsKept, TypeOK
    <3>6. b \in Nat \cup {None} /\ (b # None => b \in DOMAIN runs)
          /\ (rows[r].op = "split" => b # None)
      BY <3>2, RefreshAssumption DEF Frames, Row, TypeOK
    <3> HIDE DEF b
    <3>7. WorkersOK
      BY DEF TypeOK, WorkersOK
    <3>8. /\ pc'[w] = "recover" /\ job'[w] = r /\ run'[w] = b
          /\ \A v \in Workers \ {w} : pc'[v] = pc[v] /\ job'[v] = job[v] /\ run'[v] = run[v]
      BY <3>1, <3>7 DEF WorkersOK
    <3>9. TypeOK'
      <4>1. WorkersOK'
        BY <3>1, <3>6, <3>7, <3>8 DEF WorkersOK
      <4> QED BY <3>1, <3>4, <4>1 DEF TypeOK, WorkersOK, RowsKept, inputs
    <3>10. OnlyReserved'
      <4>1. \A v \in Workers : job'[v] # None => job'[v] \in Refreshes /\ Used(job'[v])
        BY <3>2, <3>7, <3>8 DEF OnlyReserved, WorkersOK, Used
      <4>2. \A s \in queue' \cup unsent' : s \in Refreshes /\ Used(s)
        BY <3>1 DEF OnlyReserved, TypeOK
      <4> QED BY <3>1, <3>4, <3>5, <4>1, <4>2, KeptReservations
    <3>11. Frames'
      <4>1. \A s \in Refreshes : /\ rows'[s].base = rows[s].base
                                 /\ rows'[s].op = rows[s].op
        BY <3>3, <3>4
      <4> QED BY <3>1, <3>6, <3>7, <3>8, <4>1 DEF Frames, WorkersOK
    <3>12. CompletedIsPublished'
      BY <3>3, <3>4, <3>5, KeptCompleted
    <3> QED BY <3>1, <3>4, <3>9, <3>10, <3>11, <3>12, KeptRows DEF Inv
  <2> QED BY <2>1, <2>2
<1>11. ASSUME NEW w \in Workers, Recover(w) PROVE Inv'
  <2>1. /\ pc[w] = "recover" /\ job[w] \in Refreshes /\ rows[job[w]] \in Row
        /\ UNCHANGED <<inputs, rows, runs, unsent, queue, ml, job, pulse, faults>>
    BY <1>11, Typed DEF Recover, TypeOK
  <2> DEFINE Moves(i, label) ==
        /\ At(w, label) /\ run' = [run EXCEPT ![w] = i]
        /\ label \in {"publish", "post"}
        /\ label = "publish" => i \in Known(w)
        /\ label = "post" => Known(w) = {} /\ i = run[w]
  <2>2. PICK i, label : Moves(i, label)
    <3>1. CASE Known(w) = {}
      <4>1. run' = [run EXCEPT ![w] = run[w]] /\ At(w, "post")
        BY <1>11, <3>1 DEF Recover, TypeOK
      <4>2. Moves(run[w], "post")
        BY <3>1, <4>1
      <4> QED BY <4>2
    <3>2. CASE Known(w) # {}
      <4>1. PICK i \in Known(w) : run' = [run EXCEPT ![w] = i] /\ At(w, "publish")
        BY <1>11, <3>2 DEF Recover
      <4>2. Moves(i, "publish")
        BY <4>1
      <4> QED BY <4>2
    <3> QED BY <3>1, <3>2
  <2>3. /\ rows[job[w]].op = "split" => Known(w) = {run[w]} /\ run[w] \in DOMAIN runs
        /\ rows[job[w]].op = "generate" =>
             \A j \in Known(w) : j \in DOMAIN runs /\ runs[j].refresh = job[w]
    BY <2>1 DEF Known, RunsOf, Frames
  <2>4. rows[job[w]].op \in {"split", "generate"}
    BY <2>1 DEF Row
  <2>5. /\ i \in Nat \cup {None} /\ (i # None => i \in DOMAIN runs)
        /\ label = "publish" => i \in DOMAIN runs
        /\ label = "post" => rows[job[w]].op = "generate"
        /\ label = "publish" /\ rows[job[w]].op = "generate" => runs[i].refresh = job[w]
    BY <2>2, <2>3, <2>4, Typed DEF Frames, TypeOK
  <2>6. WorkersOK'
    BY <2>1, <2>2, <2>5, MovedOK
  <2>7. Frames'
    BY <2>1, <2>2, <2>5, MovedFrames
  <2> QED BY <2>1, <2>6, <2>7 DEF Inv, TypeOK, WorkersOK, OnlyReserved, Used, Inputs,
        NotYetPersisted, OneRunPerRefresh, CompletedIsPublished, inputs
<1>12. ASSUME NEW w \in Workers, Post(w) PROVE Inv'
  <2>1. /\ pc[w] = "post" /\ job[w] \in Refreshes /\ run \in [Workers -> Nat \cup {None}]
        /\ UNCHANGED <<inputs, rows, runs, unsent, queue, job, pulse, faults>>
        /\ rows[job[w]].op = "generate" /\ rows[job[w]].status # "none"
    BY <1>12 DEF Post, TypeOK, Frames, OnlyReserved, Used
  <2> DEFINE Moves(i, label) ==
        /\ At(w, label) /\ run' = [run EXCEPT ![w] = i]
        /\ label \in {"publish", "wait", "fail"}
        /\ label = "publish" => i \in RunsOf(job[w]) /\ ml' = ml
        /\ label = "wait" => /\ i = run[w] /\ RunsOf(job[w]) = {}
                             /\ ml' = [for |-> job[w], input |-> committed]
        /\ label = "fail" => i = run[w] /\ ml' = ml
  <2>2. PICK i, label : Moves(i, label)
    <3>1. run = [run EXCEPT ![w] = run[w]]
      BY <2>1
    <3>2. CASE ml = Idle /\ RunsOf(job[w]) # {}
      <4>1. PICK i \in RunsOf(job[w]) :
              run' = [run EXCEPT ![w] = i] /\ At(w, "publish") /\ ml' = ml
        BY <1>12, <3>2 DEF Post
      <4>2. Moves(i, "publish")
        BY <4>1
      <4> QED BY <4>2
    <3>3. CASE ml = Idle /\ RunsOf(job[w]) = {}
      <4>1. Moves(run[w], "wait")
        BY <1>12, <3>1, <3>3 DEF Post
      <4> QED BY <4>1
    <3>4. CASE ml # Idle
      <4>1. Moves(run[w], "fail")
        BY <1>12, <3>1, <3>4 DEF Post
      <4> QED BY <4>1
    <3> QED BY <3>2, <3>3, <3>4
  <2>3. /\ i \in Nat \cup {None} /\ (i # None => i \in DOMAIN runs)
        /\ label = "publish" => i \in DOMAIN runs /\ runs[i].refresh = job[w]
    BY <2>1, <2>2, Typed DEF Frames, RunsOf
  <2>4. WorkersOK'
    BY <2>1, <2>2, <2>3, MovedOK
  <2>5. Frames'
    BY <2>1, <2>2, <2>3, MovedFrames
  <2>6. \/ ml' = ml
        \/ RunsOf(job[w]) = {} /\ ml' = [for |-> job[w], input |-> committed]
    BY <2>2
  <2>7. TypeOK'
    BY <2>1, <2>4, <2>6 DEF TypeOK, WorkersOK, inputs
  <2>8. OnlyReserved' /\ NotYetPersisted'
    BY <2>1, <2>6 DEF OnlyReserved, Used, NotYetPersisted, RunsOf
  <2>9. Inputs'
    BY <2>1, <2>6, Typed DEF Inputs, inputs
  <2> QED BY <2>1, <2>5, <2>7, <2>8, <2>9 DEF Inv, OneRunPerRefresh, CompletedIsPublished
<1>13. ASSUME NEW w \in Workers, Respond(w) PROVE Inv'
  <2>1. /\ pc[w] = "wait" /\ job[w] \in Refreshes /\ run \in [Workers -> Nat \cup {None}]
        /\ UNCHANGED <<inputs, rows, runs, unsent, queue, ml, job, pulse, faults>>
        /\ rows[job[w]].op = "generate"
    BY <1>13 DEF Respond, TypeOK, Frames
  <2> DEFINE Moves(i, label) ==
        /\ At(w, label) /\ run' = [run EXCEPT ![w] = i]
        /\ label \in {"publish", "fail"}
        /\ label = "publish" => i \in RunsOf(job[w])
        /\ label = "fail" => i = run[w]
  <2>2. PICK i, label : Moves(i, label)
    <3>1. run = [run EXCEPT ![w] = run[w]]
      BY <2>1
    <3>2. CASE RunsOf(job[w]) # {}
      <4>1. PICK i \in RunsOf(job[w]) : run' = [run EXCEPT ![w] = i] /\ At(w, "publish")
        BY <1>13, <3>2 DEF Respond
      <4>2. Moves(i, "publish")
        BY <4>1
      <4> QED BY <4>2
    <3>3. CASE RunsOf(job[w]) = {}
      <4>1. Moves(run[w], "fail")
        BY <1>13, <3>1, <3>3 DEF Respond
      <4> QED BY <4>1
    <3> QED BY <3>2, <3>3
  <2>3. /\ i \in Nat \cup {None} /\ (i # None => i \in DOMAIN runs)
        /\ label = "publish" => i \in DOMAIN runs /\ runs[i].refresh = job[w]
    BY <2>1, <2>2, Typed DEF Frames, RunsOf
  <2>4. WorkersOK'
    BY <2>1, <2>2, <2>3, MovedOK
  <2>5. Frames'
    BY <2>1, <2>2, <2>3, MovedFrames
  <2> QED BY <2>1, <2>4, <2>5 DEF Inv, TypeOK, WorkersOK, OnlyReserved, Used, Inputs,
        NotYetPersisted, OneRunPerRefresh, CompletedIsPublished, inputs
<1>14. ASSUME NEW w \in Workers, Publish(w) PROVE Inv'
  <2> DEFINE r == job[w]
             i == run[w]
             stamp == IF rows[r].op = "generate" THEN rows[r].revision ELSE runs[i].stamp
             e == [runs[i] EXCEPT !.split = TRUE, !.stamp = stamp]
             f == [rows[r] EXCEPT !.status = "completed", !.base = i]
  <2>1. /\ r \in Refreshes /\ i \in DOMAIN runs /\ i \in Nat /\ i # None
        /\ rows[r] \in Row /\ runs[i] \in Run /\ rows[r].status # "none"
        /\ rows[r].op = "generate" => runs[i].refresh = r
    BY <1>14, Typed, RefreshAssumption DEF Publish, TypeOK, OnlyReserved, Used, Frames
  <2>2. /\ runs' = [runs EXCEPT ![i] = e] /\ rows' = [rows EXCEPT ![r] = f]
        /\ Finish(w) /\ queue' = queue \ {r} /\ UNCHANGED <<inputs, unsent, ml, faults>>
    BY <1>14 DEF Publish
  <2>3. /\ e \in Run /\ e.split /\ e.stamp = stamp
        /\ e.refresh = runs[i].refresh /\ e.input = runs[i].input
    BY <2>1 DEF Run, Row
  <2>4. /\ f \in Row /\ f.status = "completed" /\ f.base = i
        /\ f.op = rows[r].op /\ f.revision = rows[r].revision
    BY <2>1 DEF Row
  <2> HIDE DEF e, f
  <2>5. /\ RunsKept /\ DOMAIN runs' = DOMAIN runs /\ runs'[i] = e
        /\ \A j \in DOMAIN runs \ {i} : runs'[j] = runs[j]
    BY <2>1, <2>2, <2>3, OneRunKept
  <2>6. RowsKept /\ rows'[r] = f /\ \A s \in Refreshes \ {r} : rows'[s] = rows[s]
    BY <2>1, <2>2, <2>4, OneRowKept
  <2>7. WorkersOK'
    BY <2>2, <2>5, FinishedOK
  <2>8. TypeOK'
    BY <2>2, <2>5, <2>6, <2>7 DEF TypeOK, WorkersOK, RowsKept, RunsKept, inputs
  <2>9. OnlyReserved'
    <3>1. \A v \in Workers : job'[v] # None => job'[v] \in Refreshes /\ Used(job'[v])
      BY <2>2 DEF OnlyReserved, Used, TypeOK, Finish
    <3>2. \A s \in queue' \cup unsent' : s \in Refreshes /\ Used(s)
      BY <2>2 DEF OnlyReserved, TypeOK
    <3> QED BY <2>2, <2>5, <2>6, <3>1, <3>2, KeptReservations
  <2>10. Frames'
    <3>1. \A s \in Refreshes : rows'[s].op = "split" => rows'[s].base \in DOMAIN runs
      BY <2>1, <2>4, <2>6 DEF Frames
    <3> QED BY <2>2, <2>5, <2>6, <3>1, FinishedFrames
  <2>11. Inputs'
    <3>1. \A j \in DOMAIN runs : runs'[j].stamp =
            IF j = i THEN stamp ELSE runs[j].stamp
      BY <2>3, <2>5
    <3>2. \A j \in DOMAIN runs :
            runs[j].refresh # None => runs'[j].stamp \in {None, rows[runs[j].refresh].revision}
      BY <2>1, <3>1 DEF Inputs
    <3>3. \A s \in Refreshes : rows'[s].revision = rows[s].revision
      BY <2>6 DEF RowsKept
    <3> HIDE DEF stamp, r, i
    <3>4. \A j \in DOMAIN runs :
            /\ runs'[j].refresh = runs[j].refresh /\ runs'[j].input = runs[j].input
            /\ runs[j].refresh \in Refreshes \cup {None}
      BY <2>5, Typed DEF RunsKept
    <3>5. marker' = marker /\ committed' = committed /\ ml' = ml
      BY <2>2 DEF inputs
    <3>6. \A j \in DOMAIN runs' : j \in DOMAIN runs
      BY <2>5
    <3> QED BY <3>2, <3>3, <3>4, <3>5, <3>6 DEF Inputs
  <2>12. CompletedIsPublished'
    <3>1. ASSUME NEW s \in Refreshes \ {r}, rows'[s].status = "completed"
          PROVE  /\ rows'[s].base \in DOMAIN runs' /\ runs'[rows'[s].base].split
                 /\ rows'[s].op = "generate" => runs'[rows'[s].base].refresh = s
      BY <2>5, <2>6, <3>1 DEF CompletedIsPublished, RunsKept
    <3>2. /\ rows'[r].base \in DOMAIN runs' /\ runs'[rows'[r].base].split
          /\ rows'[r].op = "generate" => runs'[rows'[r].base].refresh = r
      BY <2>1, <2>3, <2>4, <2>5, <2>6
    <3> QED BY <3>1, <3>2 DEF CompletedIsPublished
  <2> QED BY <2>2, <2>5, <2>8, <2>9, <2>10, <2>11, <2>12, KeptRuns DEF Inv
<1>15. ASSUME NEW w \in Workers, Fail(w) PROVE Inv'
  <2> DEFINE r == job[w]
             b == IF run[w] = None THEN rows[r].base ELSE run[w]
             f == [rows[r] EXCEPT !.status = "failed", !.base = b]
  <2>1. /\ r \in Refreshes /\ rows[r] \in Row /\ rows[r].status # "none"
        /\ run[w] \in Nat \cup {None} /\ (run[w] # None => run[w] \in DOMAIN runs)
    BY <1>15, Typed, RefreshAssumption DEF Fail, TypeOK, OnlyReserved, Used, Frames
  <2>2. /\ rows' = [rows EXCEPT ![r] = f] /\ Finish(w) /\ queue' \in {queue, queue \ {r}}
        /\ UNCHANGED <<inputs, runs, unsent, ml, faults>>
    BY <1>15 DEF Fail
  <2>3. /\ f \in Row /\ f.status = "failed" /\ f.base = b
        /\ f.op = rows[r].op /\ f.revision = rows[r].revision
    BY <2>1 DEF Row
  <2>4. rows[r].op = "split" => b \in DOMAIN runs
    BY <2>1 DEF Frames
  <2> HIDE DEF f, b
  <2>5. RowsKept /\ rows'[r] = f /\ \A s \in Refreshes \ {r} : rows'[s] = rows[s]
    BY <2>1, <2>2, <2>3, OneRowKept
  <2>6. RunsKept /\ DOMAIN runs' = DOMAIN runs
    BY <2>2 DEF RunsKept, TypeOK
  <2>7. TypeOK'
    <3>1. WorkersOK'
      BY <2>2, <2>6, FinishedOK
    <3> QED BY <2>2, <2>5, <3>1 DEF TypeOK, WorkersOK, RowsKept, inputs
  <2>8. OnlyReserved'
    <3>1. \A v \in Workers : job'[v] # None => job'[v] \in Refreshes /\ Used(job'[v])
      BY <2>2 DEF OnlyReserved, Used, TypeOK, Finish
    <3>2. \A s \in queue' \cup unsent' : s \in Refreshes /\ Used(s)
      BY <2>2 DEF OnlyReserved, TypeOK
    <3> QED BY <2>2, <2>5, <2>6, <3>1, <3>2, KeptReservations
  <2>9. Frames'
    <3>1. \A s \in Refreshes : rows'[s].op = "split" => rows'[s].base \in DOMAIN runs
      BY <2>1, <2>3, <2>4, <2>5 DEF Frames
    <3> QED BY <2>2, <2>5, <2>6, <3>1, FinishedFrames
  <2>10. CompletedIsPublished'
    BY <2>3, <2>5, <2>6, KeptCompleted
  <2> QED BY <2>2, <2>5, <2>7, <2>8, <2>9, <2>10, KeptRows DEF Inv
<1>16. ASSUME NEW w \in Workers, Raises(w) PROVE Inv'
  BY <1>16 DEF Raises, Fault, At, inputs,
     Inv, TypeOK, OnlyReserved, Used, Frames, Inputs, NotYetPersisted, OneRunPerRefresh,
     CompletedIsPublished
<1>17. ASSUME NEW w \in Workers, FailFails(w) PROVE Inv'
  <2>1. TypeOK' /\ OnlyReserved' /\ Frames'
    BY <1>17 DEF FailFails, Fault, Finish, At, inputs, Inv, TypeOK, OnlyReserved, Used, Frames
  <2>2. Inputs' /\ NotYetPersisted' /\ OneRunPerRefresh' /\ CompletedIsPublished'
    BY <1>17 DEF FailFails, Fault, Finish, At, inputs, Inv, TypeOK, Frames, Inputs, NotYetPersisted,
                OneRunPerRefresh, CompletedIsPublished
  <2> QED BY <2>1, <2>2 DEF Inv
<1>18. ASSUME NEW w \in Workers, Crash(w) PROVE Inv'
  <2>1. TypeOK' /\ OnlyReserved' /\ Frames'
    BY <1>18 DEF Crash, Fault, Finish, At, inputs, Inv, TypeOK, OnlyReserved, Used, Frames
  <2>2. Inputs' /\ NotYetPersisted' /\ OneRunPerRefresh' /\ CompletedIsPublished'
    BY <1>18 DEF Crash, Fault, Finish, At, inputs, Inv, TypeOK, Frames, Inputs, NotYetPersisted,
                OneRunPerRefresh, CompletedIsPublished
  <2> QED BY <2>1, <2>2 DEF Inv
<1>19. ASSUME NEW w \in Workers, PulseStops(w) PROVE Inv'
  BY <1>19 DEF PulseStops, Fault, inputs,
     Inv, TypeOK, OnlyReserved, Used, Frames, Inputs, NotYetPersisted, OneRunPerRefresh,
     CompletedIsPublished
<1>20. ASSUME Persist PROVE Inv'
  <2> DEFINE e == [refresh |-> IF ml.for \in Refreshes THEN ml.for ELSE None,
                   input |-> ml.input, observed |-> marker, stamp |-> None, split |-> FALSE]
             n == Len(runs) + 1
  <2>1. /\ runs' = Append(runs, e) /\ ml' = Idle /\ ml # Idle /\ runs \in Seq(Run)
        /\ UNCHANGED <<inputs, rows, unsent, queue, worker, faults>>
    BY <1>20 DEF Persist, TypeOK
  <2>2. e \in Run /\ e.stamp = None /\ e.input = ml.input
        /\ e.refresh = (IF ml.for \in Refreshes THEN ml.for ELSE None)
    BY DEF Run, TypeOK
  <2> HIDE DEF e
  <2>3. /\ runs' \in Seq(Run) /\ DOMAIN runs' = DOMAIN runs \cup {n} /\ n \notin DOMAIN runs
        /\ runs'[n] = e /\ \A i \in DOMAIN runs : runs'[i] = runs[i]
    BY <2>1, <2>2
  <2> HIDE DEF n
  <2>4. /\ marker' = marker /\ committed' = committed /\ rows' = rows /\ importing' = importing
        /\ unsent' = unsent /\ queue' = queue /\ pc' = pc /\ job' = job /\ run' = run
        /\ pulse' = pulse /\ faults' = faults
    BY <2>1 DEF inputs, worker
  <2>5. ml'.for = None /\ ml'.input = 0
    BY <2>1 DEF Idle
  <2>6. TypeOK'
    BY <2>1, <2>3, <2>4 DEF TypeOK, Idle
  <2>7. OnlyReserved' /\ NotYetPersisted'
    BY <2>2, <2>3, <2>4, <2>5 DEF OnlyReserved, Used, NotYetPersisted
  <2>8. Frames'
    <3>1. \A v \in Workers : pc[v] = "publish" => run[v] \in DOMAIN runs
      BY DEF TypeOK
    <3> QED BY <2>3, <2>4, <3>1 DEF Frames
  <2>9. Inputs'
    BY <2>1, <2>2, <2>3, <2>4, <2>5 DEF Inputs
  <2>10. OneRunPerRefresh'
    BY <2>2, <2>3 DEF OneRunPerRefresh, NotYetPersisted
  <2>11. CompletedIsPublished'
    BY <2>3, <2>4 DEF CompletedIsPublished
  <2> QED BY <2>6, <2>7, <2>8, <2>9, <2>10, <2>11 DEF Inv
<1>21. ASSUME ComputationFails PROVE Inv'
  BY <1>21 DEF ComputationFails, Idle, Fault, inputs, worker,
     Inv, TypeOK, OnlyReserved, Used, Frames, Inputs, NotYetPersisted, OneRunPerRefresh,
     CompletedIsPublished
<1>22. ASSUME GenerateDirectly PROVE Inv'
  BY <1>22 DEF GenerateDirectly, inputs, worker,
     Inv, TypeOK, OnlyReserved, Used, Frames, Inputs, NotYetPersisted, OneRunPerRefresh,
     CompletedIsPublished
<1>23. ASSUME NEW i \in DOMAIN runs, SplitDirectly(i) PROVE Inv'
  <2> DEFINE e == [runs[i] EXCEPT !.split = TRUE]
  <2>1. /\ runs' = [runs EXCEPT ![i] = e]
        /\ UNCHANGED <<inputs, rows, unsent, queue, ml, worker, faults>>
    BY <1>23 DEF SplitDirectly
  <2>2. /\ e \in Run /\ e.split /\ e.stamp = runs[i].stamp
        /\ e.refresh = runs[i].refresh /\ e.input = runs[i].input
    BY Typed DEF Run
  <2> HIDE DEF e
  <2>3. /\ RunsKept /\ DOMAIN runs' = DOMAIN runs /\ runs'[i] = e
        /\ \A j \in DOMAIN runs \ {i} : runs'[j] = runs[j]
    BY <2>1, <2>2, OneRunKept
  <2>4. \A j \in DOMAIN runs :
          /\ runs'[j].refresh = runs[j].refresh /\ runs'[j].input = runs[j].input
          /\ runs'[j].stamp = runs[j].stamp
    BY <2>2, <2>3
  <2>5. /\ marker' = marker /\ committed' = committed /\ rows' = rows /\ ml' = ml
        /\ unsent' = unsent /\ queue' = queue /\ pc' = pc /\ job' = job /\ run' = run
        /\ pulse' = pulse /\ importing' = importing /\ faults' = faults
    BY <2>1 DEF inputs, worker
  <2>6. TypeOK'
    BY <2>3, <2>5 DEF TypeOK, RunsKept
  <2>7. OnlyReserved'
    BY <2>3, <2>4, <2>5 DEF OnlyReserved, Used
  <2>8. Frames'
    <3>1. \A v \in Workers : pc[v] = "publish" => run[v] \in DOMAIN runs
      BY DEF TypeOK
    <3>2. \A s \in Refreshes : rows[s].op = "split" => rows[s].base \in DOMAIN runs
      BY DEF Frames
    <3> QED BY <2>3, <2>4, <2>5, <3>1, <3>2 DEF Frames
  <2>9. Inputs'
    BY <2>3, <2>4, <2>5 DEF Inputs
  <2>10. CompletedIsPublished'
    BY <2>3, <2>5 DEF CompletedIsPublished, RunsKept
  <2>11. NotYetPersisted' /\ OneRunPerRefresh'
    BY <2>3, <2>5, KeptRuns
  <2> QED BY <2>6, <2>7, <2>8, <2>9, <2>10, <2>11 DEF Inv
<1>24. CASE UNCHANGED vars
  BY <1>24 DEF vars, inputs, worker,
     Inv, TypeOK, OnlyReserved, Used, Frames, Inputs, NotYetPersisted, OneRunPerRefresh,
     CompletedIsPublished
<1> QED BY <1>1, <1>2, <1>3, <1>4, <1>5, <1>6, <1>7, <1>8, <1>9, <1>10, <1>11, <1>12, <1>13, <1>14, <1>15, <1>16, <1>17, <1>18, <1>19, <1>20, <1>21, <1>22, <1>23, <1>24 DEF Next, Request, Work

\* It holds of empty tables.
LEMMA InitInv == Init => Inv
<1> SUFFICES ASSUME Init PROVE Inv
  OBVIOUS
<1>1. runs = << >> /\ DOMAIN runs = {} /\ runs \in Seq(Run)
  BY DEF Init
<1>2. Absent \in Row
  BY RefreshAssumption DEF Absent, Row
<1>3. TypeOK
  <2>1. rows \in [Refreshes -> Row] /\ ml \in [for : Refreshes \cup {None, "direct"},
                                              input : 0 .. MaxImports]
    BY <1>2, RefreshAssumption DEF Init, Idle
  <2>2. /\ pc = [w \in Workers |-> "idle"] /\ job = [w \in Workers |-> None]
        /\ run = [w \in Workers |-> None] /\ pulse = [w \in Workers |-> FALSE]
        /\ queue = {} /\ unsent = {} /\ importing = FALSE
        /\ marker = 0 /\ committed = 0 /\ faults = 0
    BY DEF Init
  <2>3. WorkersOK
    BY <2>2, RefreshAssumption DEF WorkersOK
  <2>4. 0 \in 0 .. MaxImports /\ 0 \in 0 .. MaxFaults
    BY RefreshAssumption
  <2> QED BY <1>1, <2>1, <2>2, <2>3, <2>4 DEF TypeOK, WorkersOK
<1>4. OnlyReserved /\ Frames /\ NotYetPersisted /\ OneRunPerRefresh
  BY <1>1, RefreshAssumption
  DEF Init, OnlyReserved, Used, Frames, NotYetPersisted, OneRunPerRefresh, Absent, Idle
<1>5. Inputs /\ CompletedIsPublished
  BY <1>1, RefreshAssumption DEF Init, Inputs, CompletedIsPublished, Absent, Idle
<1> QED BY <1>3, <1>4, <1>5 DEF Inv

\* The invariant holds in every reachable state (request_refresh and
\* execute_baseline_refresh, in any interleaving).
THEOREM Invariance == Spec => []Inv
  BY InitInv, NextInv, PTL DEF Spec

-----------------------------------------------------------------------------
(* What follows *)

\* The tables, the queue and the workers' frames keep their types, and a worker that
\* publishes has a run to publish (execute_baseline_refresh).
THEOREM TypeCorrect == Spec => []TypeOK
<1>1. Inv => TypeOK
  BY DEF Inv
<1> QED BY <1>1, Invariance, PTL

\* Whatever is delivered twice, retried or abandoned, a refresh is computed and
\* persisted at most once (_guarded's find_refresh under tenant_inference_slot).
THEOREM ComputedOnce == Spec => []OneRunPerRefresh
<1>1. Inv => OneRunPerRefresh
  BY DEF Inv
<1> QED BY <1>1, Invariance, PTL

\* A completed refresh has published its run, also if a worker that was declared
\* dead completed it (execute_baseline_refresh's last transaction).
THEOREM Published == Spec => []CompletedIsPublished
<1>1. Inv => CompletedIsPublished
  BY DEF Inv
<1> QED BY <1>1, Invariance, PTL

\* A refresh's run that passes as fresh was computed from every committed import
\* (request_refresh's input_revision, run_is_stale).
THEOREM FreshIsCurrent == Spec => []FreshRefreshIsCurrent
<1>1. Inv => FreshRefreshIsCurrent
  <2> SUFFICES ASSUME Inv, runs # << >>, runs[Len(runs)].refresh # None,
                      ~ Stale(Len(runs))
               PROVE  runs[Len(runs)].input = committed
    BY DEF FreshRefreshIsCurrent
  <2> DEFINE n == Len(runs)
             r == runs[n].refresh
  <2>1. TypeOK /\ Inputs
    BY DEF Inv
  <2>2. n \in DOMAIN runs
    BY <2>1 DEF TypeOK
  <2>3. rows[r].revision <= runs[n].input /\ runs[n].input <= committed
    BY <2>1, <2>2 DEF Inputs
  <2>4. runs[n].stamp \in {None, rows[r].revision}
    BY <2>1, <2>2 DEF Inputs
  <2>5. committed = rows[r].revision
    BY <2>4 DEF Stale
  <2>6. runs[n].input \in Nat /\ committed \in Nat /\ r \in Refreshes
    BY <2>1, <2>2, Typed
  <2> QED BY <2>3, <2>5, <2>6
<1> QED BY <1>1, Invariance, PTL

\* A workspace never has two active refreshes (request_refresh's transaction under
\* the workspace's advisory lock, and the claim, which takes active rows only).
THEOREM OneActiveRefresh == Spec => []OneActive
<1>1. Init => OneActive
  BY DEF Init, OneActive, Active, Absent
<1>2. Inv /\ OneActive /\ [Next]_vars => OneActive'
  <2> SUFFICES ASSUME Inv, OneActive, [Next]_vars PROVE OneActive'
    OBVIOUS
  <2>1. TypeOK
    BY DEF Inv
  <2>2. ASSUME NEW r \in Refreshes, NEW force \in BOOLEAN, Reserve(r, force)
        PROVE  OneActive'
    <3>1. ASSUME NEW s \in Refreshes \ {r} PROVE rows'[s] = Reaped[s]
      BY <2>2 DEF Reserve, Reaped
    <3>2. ASSUME NEW s \in Refreshes \ {r} PROVE Reaped[s].status \notin {"pending", "running"}
      BY <2>2 DEF Reserve, StillActive
    <3> QED BY <3>1, <3>2 DEF OneActive, Active
  <2>3. ASSUME \A r \in Refreshes : rows'[r].status \in {"pending", "running"} =>
                 rows[r].status \in {"pending", "running"}
        PROVE  OneActive'
    BY <2>3 DEF OneActive, Active
  <2>4. CASE UNCHANGED rows
    BY <2>3, <2>4
  <2>5. CASE Look
    <3>1. ASSUME NEW r \in Refreshes
          PROVE  \/ rows'[r] = rows[r]
                 \/ rows'[r] = [rows[r] EXCEPT !.quiet = FALSE]
                 \/ rows'[r] = [rows[r] EXCEPT !.status = "failed"]
      BY <2>5 DEF Look, Reaped
    <3>2. ASSUME NEW r \in Refreshes PROVE rows'[r].status \in {rows[r].status, "failed"}
      <4>1. rows[r] \in Row
        BY <2>1, Typed
      <4> QED BY <3>1, <4>1 DEF Row
    <3> QED BY <2>3, <3>2
  <2>6. ASSUME NEW r \in Refreshes, EnqueueFails(r) \/ GoesQuiet(r) PROVE OneActive'
    <3>1. \A s \in Refreshes \ {r} : rows'[s] = rows[s]
      BY <2>1, <2>6 DEF EnqueueFails, GoesQuiet, TypeOK
    <3>2. rows'[r].status \in {rows[r].status, "failed"}
      BY <2>1, <2>6, Typed DEF EnqueueFails, GoesQuiet, TypeOK, Row
    <3> QED BY <2>3, <3>1, <3>2
  <2>7. ASSUME NEW w \in Workers, NEW r \in Refreshes, Claim(w, r) PROVE OneActive'
    <3>1. CASE ~ Claimable(r)
      BY <2>4, <2>7, <3>1 DEF Claim
    <3>2. CASE Claimable(r)
      BY <2>1, <2>3, <2>7, <3>2 DEF Claim, Claimable, TypeOK, Row
    <3> QED BY <3>1, <3>2
  <2>8. ASSUME NEW w \in Workers, Publish(w) \/ Fail(w) PROVE OneActive'
    <3>1. job[w] \in Refreshes /\ rows \in [Refreshes -> Row]
      BY <2>1, <2>8 DEF Publish, Fail, TypeOK
    <3>2. \A s \in Refreshes \ {job[w]} : rows'[s] = rows[s]
      BY <2>8, <3>1 DEF Publish, Fail
    <3>3. rows'[job[w]].status \in {"completed", "failed"}
      BY <2>8, <3>1 DEF Publish, Fail, Row
    <3> QED BY <2>3, <3>2, <3>3
  <2>9. \/ \E w \in Workers : \/ Recover(w) \/ Post(w) \/ Respond(w) \/ Raises(w)
                              \/ FailFails(w) \/ Crash(w) \/ PulseStops(w)
        \/ ImportBegins \/ ImportEnds \/ Persist \/ ComputationFails \/ GenerateDirectly
        \/ \E r \in Refreshes : Enqueue(r) \/ RequesterDies(r) \/ JobLost(r)
        \/ \E i \in DOMAIN runs : SplitDirectly(i)
        \/ UNCHANGED vars
        => UNCHANGED rows
    BY DEF Recover, Post, Respond, Raises, FailFails, Crash, PulseStops, ImportBegins,
      ImportEnds, Persist, ComputationFails, GenerateDirectly, Enqueue, RequesterDies,
      JobLost, SplitDirectly, vars
  <2> QED BY <2>2, <2>4, <2>5, <2>6, <2>7, <2>8, <2>9 DEF Next, Request, Work
<1> QED BY <1>1, <1>2, Invariance, PTL DEF Spec
==============================================================================
