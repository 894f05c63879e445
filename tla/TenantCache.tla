----------------------------- MODULE TenantCache -----------------------------
(* One cached query of a tenant (core/cache.py): entries are kept under the tenant's
   version, which a write bumps after it has committed. Readers read the version, the
   entry and, if it is missing, the database, in that order.                   *)
EXTENDS Naturals

CONSTANTS Readers,
          MaxWrites  \* bound: writes that invalidate

ASSUME CacheAssumption == MaxWrites \in Nat

VARIABLES data,      \* the database: its last committed write
          announced, \* history: the newest write whose invalidation has ended
          version,   \* the counter in Redis
          entries,   \* version -> what is cached under it, or NoEntry
          pending,   \* writes that have committed and not yet bumped the version
          reader,    \* reader -> where it is, the version read, its value, and history:
                     \*   the newest write announced when it began
          failed     \* history: Redis has failed a reader or an invalidation

cacheVars == <<data, announced, version, entries, pending, reader, failed>>

NoEntry  == MaxWrites + 1
Asks  == [at |-> "asks", version |-> 0, value |-> 0, since |-> 0]

CacheInit ==
  /\ data = 0 /\ announced = 0 /\ version = 0
  /\ entries = [v \in 0..MaxWrites |-> NoEntry]
  /\ pending = {}
  /\ reader = [r \in Readers |-> Asks]
  /\ failed = FALSE

ReaderIs(r, state) == reader' = [reader EXCEPT ![r] = state]

\* Redis without a version, or failing, gives version 0.
ReadVersion(r) ==
  /\ reader[r].at = "asks"
  /\ \/ ReaderIs(r, [at |-> "gets", version |-> version, value |-> 0, since |-> announced])
        /\ UNCHANGED failed
     \/ ReaderIs(r, [at |-> "gets", version |-> 0, value |-> 0, since |-> announced])
        /\ failed' = TRUE
  /\ UNCHANGED <<data, announced, version, entries, pending>>

GetEntry(r) ==
  LET cached == entries[reader[r].version] IN
  /\ reader[r].at = "gets"
  /\ IF cached # NoEntry THEN ReaderIs(r, [reader[r] EXCEPT !.at = "done", !.value = cached])
     ELSE ReaderIs(r, [reader[r] EXCEPT !.at = "produces"])
  /\ UNCHANGED <<data, announced, version, entries, pending, failed>>

\* Redis fails, or the entry's time is up.
GetNothing(r) ==
  /\ reader[r].at = "gets"
  /\ ReaderIs(r, [reader[r] EXCEPT !.at = "produces"])
  /\ UNCHANGED <<data, announced, version, entries, pending, failed>>

Produce(r) ==
  /\ reader[r].at = "produces"
  /\ ReaderIs(r, [reader[r] EXCEPT !.at = "fills", !.value = data])
  /\ UNCHANGED <<data, announced, version, entries, pending, failed>>

\* Mutant: the entry is kept under the version of now.
SetUnderPresent(r) ==
  /\ reader[r].at = "fills"
  /\ entries' = [entries EXCEPT ![version] = reader[r].value]
  /\ ReaderIs(r, [reader[r] EXCEPT !.at = "done"])
  /\ UNCHANGED <<data, announced, version, pending, failed>>

\* SET under the version read at the start, or nothing if Redis fails.
SetEntry(r) ==
  /\ reader[r].at = "fills"
  /\ entries' \in {entries, [entries EXCEPT ![reader[r].version] = reader[r].value]}
  /\ ReaderIs(r, [reader[r] EXCEPT !.at = "done"])
  /\ UNCHANGED <<data, announced, version, pending, failed>>

ReadAgain(r) ==
  /\ reader[r].at = "done" /\ ReaderIs(r, Asks)
  /\ UNCHANGED <<data, announced, version, entries, pending, failed>>

\* The sales reset commits and invalidates afterwards, and another may overtake it.
CommitWrite ==
  /\ data < MaxWrites
  /\ data' = data + 1 /\ pending' = pending \cup {data'}
  /\ UNCHANGED <<announced, version, entries, reader, failed>>

\* INCR; an error is only logged.
Invalidate(w) ==
  /\ pending' = pending \ {w}
  /\ announced' = IF w > announced THEN w ELSE announced
  /\ \/ version' = version + 1 /\ UNCHANGED failed
     \/ failed' = TRUE /\ UNCHANGED version
  /\ UNCHANGED <<data, entries, reader>>

CacheNext ==
  \/ \E r \in Readers : ReadVersion(r) \/ GetEntry(r) \/ GetNothing(r) \/ Produce(r)
                        \/ SetEntry(r) \/ ReadAgain(r)
  \/ CommitWrite \/ \E w \in pending : Invalidate(w)

CacheSpec == CacheInit /\ [][CacheNext]_cacheVars

-----------------------------------------------------------------------------
(* Properties *)

\* Who asks after a write was announced gets an answer that knows the write, however
\* slow fills of older readings fall after it, as long as Redis works (get_or_set,
\* invalidate_tenant).
FreshAfterInvalidation ==
  failed \/ \A r \in Readers :
    reader[r].at = "done" => reader[r].value >= reader[r].since
=============================================================================
