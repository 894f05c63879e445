----------------------------- MODULE Idempotency -----------------------------
(* Requests of one caller with one Idempotency-Key (middleware/idempotency.py): the
   first to set the key in Redis runs the handler and stores its answer, the others
   are answered from there or told to wait. Answers are told apart by the run of the
   handler that gave them.                                                     *)
EXTENDS Naturals

CONSTANTS Requests,
          MaxRuns  \* bound: runs of the handler

ASSUME IdempotencyAssumption == MaxRuns \in Nat \ {0}

VARIABLES entry,    \* the key in Redis: "none", "in_progress" or a run's answer
          request,  \* request -> where it is
          owns,     \* request -> it set the key itself
          answer,   \* request -> [kind, run]: kept, large, error (5xx), conflict
          runs,     \* runs of the handler so far
          astray    \* history: Redis failed, a key expired, or an answer could not be kept

idemVars == <<entry, request, owns, answer, runs, astray>>

Missing  == [kind |-> "none", run |-> 0]
Sentinel == [kind |-> "in_progress", run |-> 0]

IdemInit ==
  /\ entry = Missing
  /\ request = [r \in Requests |-> "new"]
  /\ owns = [r \in Requests |-> FALSE]
  /\ answer = [r \in Requests |-> Missing]
  /\ runs = 0 /\ astray = FALSE

Moves(r, at) == request' = [request EXCEPT ![r] = at]
Answered(r, a) == answer' = [answer EXCEPT ![r] = a] /\ Moves(r, "answered")

\* Mutant: the key is set whether or not it is there.
ClaimOver(r) ==
  /\ request[r] = "new"
  /\ entry' = Sentinel /\ owns' = [owns EXCEPT ![r] = TRUE] /\ Moves(r, "runs")
  /\ UNCHANGED <<answer, runs, astray>>

\* SET NX; a request that did not set the key goes on to read it.
ClaimKey(r) ==
  /\ request[r] = "new"
  /\ \/ /\ entry = Missing
        /\ entry' = Sentinel /\ owns' = [owns EXCEPT ![r] = TRUE] /\ Moves(r, "runs")
     \/ entry # Missing /\ Moves(r, "reads") /\ UNCHANGED <<entry, owns>>
  /\ UNCHANGED <<answer, runs, astray>>

\* Redis fails, the key set or not: the handler runs without it.
ClaimLost(r) ==
  /\ request[r] = "new" /\ Moves(r, "runs")
  /\ entry' \in {entry, IF entry = Missing THEN Sentinel ELSE entry}
  /\ astray' = TRUE
  /\ UNCHANGED <<owns, answer, runs>>

\* The key may have gone, or its owner be running still, or the read fail.
Replay(r) ==
  /\ request[r] = "reads"
  /\ \/ entry \notin {Missing, Sentinel} /\ Answered(r, entry)
     \/ Answered(r, [kind |-> "conflict", run |-> 0])
  /\ UNCHANGED <<entry, owns, runs, astray>>

\* call_next: the handler answers; a raise leaves the key as it is.
Run(r) ==
  /\ request[r] = "runs" /\ runs < MaxRuns
  /\ runs' = runs + 1
  /\ \E kind \in {"kept", "large", "error"} :
       /\ answer' = [answer EXCEPT ![r] = [kind |-> kind, run |-> runs']]
       /\ Moves(r, IF owns[r] THEN "stores" ELSE "answered")
       /\ astray' = (astray \/ kind = "large")
  /\ UNCHANGED <<entry, owns>>

Raises(r) ==
  /\ request[r] = "runs" /\ runs < MaxRuns
  /\ runs' = runs + 1
  /\ Answered(r, [kind |-> "error", run |-> runs'])
  /\ UNCHANGED <<entry, owns, astray>>

\* A small answer below 500 is kept; any other frees the key for a retry.
Store(r) ==
  /\ request[r] = "stores"
  /\ entry' = IF answer[r].kind = "kept" THEN answer[r] ELSE Missing
  /\ Moves(r, "answered")
  /\ UNCHANGED <<owns, answer, runs, astray>>

\* Redis fails: the sentinel stays, which refuses every retry until it expires.
StoreLost(r) ==
  /\ request[r] = "stores" /\ Moves(r, "answered")
  /\ UNCHANGED <<entry, owns, answer, runs, astray>>

\* The client sends the request again.
Again(r) ==
  /\ request[r] = "answered"
  /\ Moves(r, "new") /\ answer' = [answer EXCEPT ![r] = Missing]
  /\ owns' = [owns EXCEPT ![r] = FALSE]
  /\ UNCHANGED <<entry, runs, astray>>

KeyExpires ==
  /\ entry # Missing /\ entry' = Missing /\ astray' = TRUE
  /\ UNCHANGED <<request, owns, answer, runs>>

IdemNext ==
  \/ \E r \in Requests :
       \/ ClaimKey(r) \/ ClaimLost(r) \/ Replay(r) \/ Run(r) \/ Raises(r)
       \/ Store(r) \/ StoreLost(r) \/ Again(r)
  \/ KeyExpires

IdemSpec == IdemInit /\ [][IdemNext]_idemVars

-----------------------------------------------------------------------------
(* Properties *)

\* All who are answered, twins and retries, are answered by one run of the handler, as
\* long as Redis works, the key lives and the answer is small enough to keep; a run
\* that has failed does not count (dispatch: "execute exactly once").
SameAnswer ==
  astray \/ \A r, s \in Requests :
    answer[r].kind = "kept" /\ answer[s].kind = "kept" => answer[r].run = answer[s].run
=============================================================================
