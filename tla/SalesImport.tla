----------------------------- MODULE SalesImport -----------------------------
(* The keyed sales of one workspace: uploads and pushes that store them
   (services/integrations/file_import.py, services/sales_identity.py), and what removes
   them: the repairs of the data-quality page (services/data_quality_audit.py with
   migrations 0023 and 0032) and the sales reset (migration 0039). Transactions read
   committed rows; a removal does not take the imports' lock.                   *)
EXTENDS Naturals, Sequences, FiniteSets

CONSTANTS Imports, Removers,
          Subjects,   \* what identifies a line of a file: an order's line, the sale's fields, a period
          SaleValues,
          Invalid,    \* values that the repairs drop: in the future, or negative
          NoImport,
          MaxLines,   \* bound: lines of a file
          MaxRows     \* bound: rows ever stored, 1..MaxRows in the order of their ids' text

ASSUME SalesAssumption ==
  /\ NoImport \notin Imports /\ Invalid \subseteq SaleValues
  /\ MaxLines \in Nat \ {0} /\ MaxRows \in Nat \ {0, 1}

VARIABLES sales,       \* row -> its key and value, or Unused, or Removed
          importLock,  \* pg_advisory_xact_lock of the workspace
          import,      \* import -> its lines with their keys and what it does with them, or NoFile
          removal      \* remover -> its kind and the rows it has seen

importVars == <<sales, importLock, import, removal>>

Rows    == 1..MaxRows
Legacy  == {1, 2}   \* rows stored before migration 0022 compared keys
Unused  == [key |-> <<"unused">>]
Removed == [key |-> <<"removed">>]

Stored    == {id \in Rows : sales[id] \notin {Unused, Removed}}
Copies(k) == {id \in Rows : sales[id].key = k}
Values(k) == {sales[id].value : id \in Copies(k)}

NoFile    == [lines |-> <<>>, new |-> {}, todo |-> <<>>, fixed |-> <<>>, crossed |-> FALSE]
NoRemoval == [kind |-> "none", rows |-> {}]

-----------------------------------------------------------------------------
(* sales_identity.py *)

Line  == [subject : Subjects, value : SaleValues]
Files == UNION {[1..n -> Line] : n \in 1..MaxLines}

\* Without an order's id the fields are the identity, quantity and price among them.
BaseKey(mode, l) ==
  IF mode = "fields" THEN <<mode, l.subject, l.value>> ELSE <<mode, l.subject>>

\* Mutant: equal lines of one file get one key.
RecordKeyPlain(mode, lines, i) == BaseKey(mode, lines[i])

\* A line's key ends with its occurrence in the file, but for a period's total.
RecordKey(mode, lines, i) ==
  LET base == BaseKey(mode, lines[i]) IN
  IF mode = "period" THEN base
  ELSE Append(base, Cardinality({j \in 1..i : BaseKey(mode, lines[j]) = base}))

\* Of one period a file must not hold two totals: such lines are rejected.
Keyed(mode, lines) ==
  LET key == [i \in DOMAIN lines |-> RecordKey(mode, lines, i)] IN
  [i \in {i \in DOMAIN lines : mode = "period" => \A j \in DOMAIN lines : key[j] = key[i] => j = i}
     |-> [key |-> key[i], value |-> lines[i].value]]

\* Replays from before migration 0022 have left copies of one key; those of an order's line
\* may differ.
ImportInit ==
  /\ \E a, b \in Line, mode \in {"order", "fields"} :
       /\ a.subject = b.subject /\ (mode = "fields" => a = b)
       /\ sales = [id \in Rows |->
            CASE id = 1 -> [key |-> RecordKey(mode, <<a>>, 1), value |-> a.value]
              [] id = 2 -> [key |-> RecordKey(mode, <<b>>, 1), value |-> b.value]
              [] OTHER -> Unused]
  /\ importLock = NoImport
  /\ import = [u \in Imports |-> NoFile]
  /\ removal = [x \in Removers |-> NoRemoval]

-----------------------------------------------------------------------------
(* upsert_sales_rows, the last part of an import's transaction *)

MoveOn(u, f) == import' = [import EXCEPT ![u] = f]

\* Mutant: imports do not wait for one another.
LockShared(u) == UNCHANGED importLock

LockImports(u) == importLock = NoImport /\ importLock' = u

\* The rows are read once, under the lock. A line whose key has copies is left alone; one
\* with a new key will be inserted, and one whose key is held once with another value will
\* be a correction. (A file that only meets copies writes nothing.)
Look(u) ==
  /\ import[u] = NoFile
  /\ LockImports(u)
  /\ \E lines \in Files, mode \in {"order", "fields", "period"} :
       LET given   == Keyed(mode, lines)
           mine    == {i \in DOMAIN given : Cardinality(Copies(given[i].key)) <= 1}
           new     == {i \in mine : Copies(given[i].key) = {}}
           changed == {i \in mine : Values(given[i].key) \notin {{}, {given[i].value}}} IN
       /\ mine # {}
       /\ MoveOn(u, [NoFile EXCEPT !.lines = [i \in mine |-> given[i]], !.new = new,
            !.todo = [i \in changed |-> CHOOSE id \in Rows : Copies(given[i].key) = {id}]])
  /\ UNCHANGED <<sales, removal>>

\* sanket_correct_sale: the row, if still the sole holder of its key, is rewritten and
\* stays locked.
Correct(u, i) ==
  LET f  == import[u]
      id == f.todo[i] IN
  /\ i \in DOMAIN f.todo
  /\ MoveOn(u, [f EXCEPT !.todo = [j \in DOMAIN @ \ {i} |-> @[j]],
       !.fixed = IF Copies(f.lines[i].key) = {id}
                 THEN [r \in DOMAIN @ \cup {id} |-> IF r = id THEN f.lines[i].value ELSE @[r]]
                 ELSE @])
  /\ UNCHANGED <<sales, importLock, removal>>

\* A new row's id is random: it may be any that was never used.
CommitImport(u) ==
  LET f == import[u] IN
  /\ f # NoFile /\ f.todo = <<>>
  /\ \E id \in [f.new -> {r \in Rows : sales[r] = Unused}] :
       /\ \A i, j \in f.new : id[i] = id[j] => i = j
       /\ sales' = [r \in Rows |->
            IF r \in DOMAIN f.fixed THEN [sales[r] EXCEPT !.value = f.fixed[r]]
            ELSE IF \E i \in f.new : id[i] = r THEN f.lines[CHOOSE i \in f.new : id[i] = r]
            ELSE sales[r]]
  /\ importLock' = IF importLock = u THEN NoImport ELSE importLock
  /\ MoveOn(u, NoFile)
  /\ UNCHANGED removal

\* An error, a deadlock over the SKUs, or a lost connection undoes the file.
FailImport(u) ==
  /\ import[u] # NoFile
  /\ importLock' = IF importLock = u THEN NoImport ELSE importLock
  /\ MoveOn(u, NoFile)
  /\ UNCHANGED <<sales, removal>>

-----------------------------------------------------------------------------
(* Removals: one statement each, which sees the rows first and then waits for those that
   an import has rewritten *)

\* Mutant: copies of a key are taken for replays whatever their values.
ExtraOfKey == {id \in Stored : \E keep \in Copies(sales[id].key) : keep < id}

\* sanket_dedupe_sales: all but the lowest id of a group whose copies are alike.
ExtraCopies ==
  {id \in Stored : /\ Cardinality(Values(sales[id].key)) = 1
                   /\ \E keep \in Copies(sales[id].key) : keep < id}

\* sanket_repair_invalid_sales and sanket_clear_sales name theirs; a removal that sees no
\* row removes none.
SeeRows(x, kind) ==
  LET seen == CASE kind = "copies"  -> ExtraCopies
                [] kind = "invalid" -> {id \in Stored : sales[id].value \in Invalid}
                [] kind = "all"     -> Stored IN
  /\ removal[x] = NoRemoval /\ seen # {}
  /\ removal' = [removal EXCEPT ![x] = [kind |-> kind, rows |-> seen]]
  /\ UNCHANGED <<sales, importLock, import>>

\* What was rewritten meanwhile is removed only if it is still invalid; the other two kinds
\* look at the key and the industry again, which a correction does not change.
Remove(x) ==
  LET r    == removal[x]
      gone == {id \in r.rows \cap Stored :
                 r.kind = "invalid" => sales[id].value \in Invalid} IN
  /\ r # NoRemoval
  /\ \A u \in Imports : r.rows \cap DOMAIN import[u].fixed = {}
  /\ sales' = [id \in Rows |-> IF id \in gone THEN Removed ELSE sales[id]]
  /\ import' = [u \in Imports |->
       [import[u] EXCEPT !.crossed = @ \/ (r.kind # "copies" /\ import[u] # NoFile)]]
  /\ removal' = [removal EXCEPT ![x] = NoRemoval]
  /\ UNCHANGED importLock

ImportNext ==
  \/ \E u \in Imports :
       \/ Look(u) \/ CommitImport(u) \/ FailImport(u)
       \/ \E i \in 1..MaxLines : Correct(u, i)
  \/ \E x \in Removers : Remove(x) \/ \E kind \in {"copies", "invalid", "all"} : SeeRows(x, kind)

ImportSpec == ImportInit /\ [][ImportNext]_importVars

-----------------------------------------------------------------------------
(* Properties *)

\* Whoever imports, repairs and clears at the same time, a key is stored once but for
\* the copies of old; a repair of copies keeps every value a key had; and when a file is
\* committed, its lines are stored line for line, equal ones apart, unless sales were dropped
\* while it was written ("Insert new sales, skip replays, apply corrections - never duplicate").
SoldOnce ==
  /\ [](\A id \in Stored : Cardinality(Copies(sales[id].key)) > 1 => id \in Legacy)
  /\ [][\A x \in Removers : removal[x].kind = "copies" /\ removal'[x] = NoRemoval =>
          \A k \in {sales[id].key : id \in Stored} : Values(k)' = Values(k)]_importVars
  /\ [][\A u \in Imports : CommitImport(u) /\ ~ import[u].crossed =>
          LET lines == import[u].lines IN
          \A v \in SaleValues :
            Cardinality({id \in Rows : sales'[id] \in {lines[i] : i \in DOMAIN lines} /\ sales'[id].value = v})
            = Cardinality({i \in DOMAIN lines : lines[i].value = v})]_importVars
=============================================================================
