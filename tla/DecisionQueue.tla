---------------------------- MODULE DecisionQueue ----------------------------
(* The replenishment decisions of one workspace and industry: refreshes that replace the
   open queue (services/decision_builder.py) and the planners who accept or dismiss its
   rows (routers/decisions.py). Each is one transaction that reads committed rows and
   locks a row only by writing it; the write names the row, not the status it was read
   with. A partial unique index (migration 0027) allows one open row per item.    *)
EXTENDS Naturals, FiniteSets

CONSTANTS Planners, Refreshers,
          Items,     \* a SKU, a kind of decision and its places
          MaxRecs    \* bound: rows ever stored, numbered as they are inserted

ASSUME QueueAssumption ==
  MaxRecs \in Nat /\ IsFiniteSet(Items) /\ Planners \cap Refreshers = {}

VARIABLES recs,      \* row -> its item, its status and whether units were accepted on it
          planner,   \* planner -> the row being decided and how
          refresh,   \* refresher -> the rows it supersedes, the items it will offer
          late       \* history: actor -> which of its rows were decided, and which refreshes
                     \* committed, since it read

queueVars == <<recs, planner, refresh, late>>

Actors   == Planners \cup Refreshers
Recs     == DOMAIN recs
NoRow     == [at |-> "away", id |-> 0, as |-> "open"]
NoTurn   == [at |-> "away", old |-> {}, offers |-> {}]
Reading  == {p \in Planners : planner[p] # NoRow} \cup {f \in Refreshers : refresh[f] # NoTurn}
Holds(a) == IF a \in Planners THEN {planner[a].id} ELSE refresh[a].old
Settled  == {"accepted", "dismissed"}
Decided  == {id \in Recs : recs[id].status \in Settled}

QueueInit ==
  /\ recs = <<>>
  /\ planner = [p \in Planners |-> NoRow]
  /\ refresh = [f \in Refreshers |-> NoTurn]
  /\ late = [a \in Actors |-> {}]

-----------------------------------------------------------------------------
(* accept_decision, dismiss_decision *)

\* Mutant: the row is loaded and written, whatever its status.
MayDecideAny(id) == TRUE

\* (An accept is refused too once expires_at has passed: nothing happens then.)
MayDecide(id) == recs[id].status = "open"

Load(p, id, as) ==
  /\ planner[p] = NoRow
  /\ id \in Recs /\ MayDecide(id)
  /\ planner' = [planner EXCEPT ![p] = [at |-> "writes", id |-> id, as |-> as]]
  /\ UNCHANGED <<recs, refresh, late>>

\* The write waits for a refresh that has the row locked.
Decide(p) ==
  LET id == planner[p].id IN
  /\ planner[p].at = "writes"
  /\ \A f \in Refreshers : refresh[f].at = "expired" => id \notin refresh[f].old
  /\ recs' = [recs EXCEPT ![id].status = planner[p].as,
                          ![id].units = @ \/ planner[p].as = "accepted"]
  /\ planner' = [planner EXCEPT ![p] = NoRow]
  /\ late' = [a \in Actors |-> IF a \in Reading \ {p} THEN late[a] \cup ({id} \cap Holds(a)) ELSE {}]
  /\ UNCHANGED refresh

-----------------------------------------------------------------------------
(* refresh and persist_decisions *)

OpenRecs == {id \in Recs : recs[id].status = "open"}

\* Mutant: a refresh supersedes only what it offers again.
SupersededItems(offers) == {id \in OpenRecs : recs[id].item \in offers}

Superseded(offers) == OpenRecs

\* What is offered was computed before the open rows are read.
ReadQueue(f, offers) ==
  /\ refresh[f] = NoTurn
  /\ refresh' = [refresh EXCEPT ![f] = [at |-> "read", old |-> Superseded(offers), offers |-> offers]]
  /\ UNCHANGED <<recs, planner, late>>

\* The first flush locks the rows and waits for another refresh's locks.
ExpireOld(f) ==
  /\ refresh[f].at = "read"
  /\ \A g \in Refreshers \ {f} :
       refresh[g].at = "expired" => refresh[g].old \cap refresh[f].old = {}
  /\ refresh' = [refresh EXCEPT ![f].at = "expired"]
  /\ UNCHANGED <<recs, planner, late>>

\* The second flush and the commit, unless an item is already open in another row.
OfferNew(f) ==
  LET r == refresh[f] IN
  /\ r.at = "expired"
  /\ Cardinality(Recs) + Cardinality(r.offers) <= MaxRecs
  /\ \A id \in OpenRecs \ r.old : recs[id].item \notin r.offers
  /\ \E item \in [Cardinality(Recs) + 1 .. Cardinality(Recs) + Cardinality(r.offers) -> r.offers] :
       /\ \A i, j \in DOMAIN item : item[i] = item[j] => i = j
       /\ recs' = [id \in Recs \cup DOMAIN item |->
            IF id \in r.old THEN [recs[id] EXCEPT !.status = "expired"]
            ELSE IF id \in Recs THEN recs[id]
            ELSE [item |-> item[id], status |-> "open", units |-> FALSE]]
  /\ refresh' = [refresh EXCEPT ![f] = NoTurn]
  /\ late' = [a \in Actors |-> IF a \in (Refreshers \cap Reading) \ {f} THEN late[a] \cup {f}
                              ELSE IF a = f THEN {} ELSE late[a]]
  /\ UNCHANGED planner

\* An open row of the same item, or any other error, undoes the refresh.
RefreshFails(f) ==
  /\ refresh[f] # NoTurn
  /\ refresh' = [refresh EXCEPT ![f] = NoTurn]
  /\ late' = [late EXCEPT ![f] = {}]
  /\ UNCHANGED <<recs, planner>>

QueueNext ==
  \/ \E p \in Planners :
       \/ Decide(p)
       \/ \E id \in 1..MaxRecs, as \in Settled : Load(p, id, as)
  \/ \E f \in Refreshers :
       \/ ExpireOld(f) \/ OfferNew(f) \/ RefreshFails(f)
       \/ \E offers \in SUBSET Items : ReadQueue(f, offers)

QueueSpec == QueueInit /\ [][QueueNext]_queueVars

-----------------------------------------------------------------------------
(* Properties *)

\* No item is open twice and an accepted row has its units; a planner's decision is changed
\* only by someone who had read the row before it was taken, which does happen (see
\* RefreshSparesDecisions), and by nobody who comes later; and a refresh that no other
\* one crossed leaves exactly its own rows open, also when it offers nothing ("must not
\* leave the previous recommendations open and acceptable").
DecisionsStand ==
  /\ [](/\ \A i, j \in OpenRecs : recs[i].item = recs[j].item => i = j
        /\ \A id \in Recs : recs[id].status = "accepted" => recs[id].units)
  /\ [][\A id \in Decided : recs'[id].status # recs[id].status =>
          \E a \in Actors : id \in late[a]
            /\ (IF a \in Planners THEN Decide(a) /\ planner[a].id = id ELSE OfferNew(a))]_queueVars
  /\ [][\A f \in Refreshers : OfferNew(f) /\ late[f] \cap Refreshers = {} =>
          OpenRecs' = Recs' \ Recs]_queueVars

\* A refresh leaves every row alone that was decided by the time it writes:
\* "accepted/dismissed rows are never touched -- those are the user's decisions, not ours
\* to rewrite" (persist_decisions).
RefreshSparesDecisions ==
  [][\A f \in Refreshers : OfferNew(f) => \A id \in Decided : recs'[id] = recs[id]]_queueVars
=============================================================================
