--------------------------- MODULE Decisions_proofs ---------------------------
(* Theorems about the decision queue, for any number of planners, refreshes, items and
   rows, and about what its decisions are made of: the sharing out of a scarce stock and
   the matching of transfers, for any stores, rates and packs.                 *)
EXTENDS DecisionQueue, Replenishment, Sums_proofs

-----------------------------------------------------------------------------
(* The decision queue *)

Rec  == [item : Items, status : {"open", "accepted", "dismissed", "expired"}, units : BOOLEAN]
Turn == [at : {"read", "expired"}, old : SUBSET Nat, offers : SUBSET Items]

QueueType ==
  /\ \E n \in Nat : Recs = 1..n
  /\ recs \in [Recs -> Rec]
  /\ planner \in [Planners -> {NoRow} \cup [at : {"writes"}, id : Recs, as : Settled]]
  /\ refresh \in [Refreshers -> {NoTurn} \cup Turn]
  /\ \A f \in Refreshers : refresh[f].old \in SUBSET Recs
  /\ late \in [Actors -> SUBSET (Nat \cup Refreshers)]

\* No item is open twice, and an accepted row has its units.
RowsInOrder ==
  /\ \A i, j \in OpenRecs : recs[i].item = recs[j].item => i = j
  /\ \A id \in Recs : recs[id].status = "accepted" => recs[id].units

\* Whoever still holds a row that is decided by now was overtaken; a refresh that no other
\* one overtook holds every row that is open.
OvertakenKnown ==
  /\ \A p \in Planners : planner[p] # NoRow /\ planner[p].id \in Decided =>
       planner[p].id \in late[p]
  /\ \A f \in Refreshers : \A id \in refresh[f].old : id \in Decided => id \in late[f]
  /\ \A f \in Refreshers : refresh[f] # NoTurn /\ late[f] \cap Refreshers = {} =>
       OpenRecs \in SUBSET refresh[f].old

QueueInv == QueueType /\ RowsInOrder /\ OvertakenKnown

\* The queue is empty.
LEMMA InitQueue == QueueInit => QueueInv
<1> SUFFICES ASSUME QueueInit PROVE QueueInv
  OBVIOUS
<1>1. Recs = {} /\ Recs = 1..0
  BY DEF QueueInit, Recs
<1>2. recs \in [Recs -> Rec]
  BY <1>1 DEF QueueInit, Recs
<1>3. \A f \in Refreshers : refresh[f].old = {}
  BY DEF QueueInit, NoTurn
<1>4. QueueType
  BY <1>1, <1>2, <1>3 DEF QueueInit, QueueType
<1>5. RowsInOrder /\ OvertakenKnown
  BY <1>1, <1>3 DEF QueueInit, RowsInOrder, OvertakenKnown, OpenRecs, Decided
<1> QED BY <1>4, <1>5 DEF QueueInv

\* A step that leaves the rows and what is known of them alone.
LEMMA LoadStep ==
  ASSUME QueueInv, NEW p \in Planners, NEW id \in 1..MaxRecs, NEW as \in Settled, Load(p, id, as)
  PROVE  QueueInv'
<1>1. /\ id \in Recs /\ recs[id].status = "open"
      /\ planner' = [planner EXCEPT ![p] = [at |-> "writes", id |-> id, as |-> as]]
      /\ UNCHANGED <<recs, refresh, late>>
  BY DEF Load, MayDecide
<1>2. QueueType'
  <2>1. [at |-> "writes", id |-> id, as |-> as] \in [at : {"writes"}, id : Recs, as : Settled]
    BY <1>1
  <2> QED BY <1>1, <2>1 DEF QueueInv, QueueType, Recs
<1>3. RowsInOrder'
  BY <1>1 DEF QueueInv, RowsInOrder, OpenRecs, Recs
<1>4. OvertakenKnown'
  <2>1. \A q \in Planners : planner'[q] = planner[q] \/ planner'[q].id = id
    BY <1>1 DEF QueueInv, QueueType
  <2>2. id \notin Decided
    BY <1>1 DEF Decided, Settled
  <2> QED BY <1>1, <2>1, <2>2 DEF QueueInv, OvertakenKnown, Decided, OpenRecs, Recs
<1> QED BY <1>2, <1>3, <1>4 DEF QueueInv

\* A planner's decision: whoever else holds the row learns of it.
LEMMA DecideStep == ASSUME QueueInv, NEW p \in Planners, Decide(p) PROVE QueueInv'
<1>0. QueueType
  BY DEF QueueInv
<1>1. PICK id \in Recs : id = planner[p].id
  BY <1>0 DEF Decide, QueueType, NoRow
<1>2. PICK as \in Settled : as = planner[p].as
  BY <1>0 DEF Decide, QueueType, NoRow
<1>3. /\ recs' = [recs EXCEPT ![id].status = as, ![id].units = @ \/ as = "accepted"]
      /\ planner' = [planner EXCEPT ![p] = NoRow] /\ UNCHANGED refresh
      /\ late' = [a \in Actors |-> IF a \in Reading \ {p} THEN late[a] \cup ({id} \cap Holds(a)) ELSE {}]
  BY <1>1, <1>2 DEF Decide
<1>4. /\ recs' \in [Recs -> Rec] /\ Recs' = Recs
      /\ recs'[id].status = as /\ recs'[id].item = recs[id].item
      /\ recs'[id].units <=> (recs[id].units \/ as = "accepted")
      /\ \A i \in Recs \ {id} : recs'[i] = recs[i]
  <2>1. recs \in [Recs -> Rec] /\ recs[id] \in Rec /\ as \in Settled
    BY <1>0, <1>1, <1>2 DEF QueueType
  <2>2. PICK units \in BOOLEAN : units = (recs[id].units \/ as = "accepted")
    BY <2>1 DEF Rec
  <2>3. PICK rec \in Rec : /\ rec.item = recs[id].item /\ rec.status = as /\ rec.units = units
                           /\ recs' = [recs EXCEPT ![id] = rec]
    <3>1. recs' = [recs EXCEPT ![id] = [[recs[id] EXCEPT !.status = as] EXCEPT !.units = units]]
      BY <1>3, <2>1, <2>2
    <3>2. [[recs[id] EXCEPT !.status = as] EXCEPT !.units = units] \in Rec
      BY <2>1, <2>2 DEF Rec, Settled
    <3> QED BY <2>1, <3>1, <3>2 DEF Rec
  <2> QED BY <2>1, <2>2, <2>3 DEF Recs
<1>5. /\ OpenRecs' \in SUBSET OpenRecs
      /\ \A i \in Recs \ {id} : i \in Decided' <=> i \in Decided
  BY <1>2, <1>4 DEF OpenRecs, Decided, Settled
<1>6. late' \in [Actors -> SUBSET (Nat \cup Refreshers)]
  <2>1. id \in Nat
    BY <1>0 DEF QueueType
  <2> QED BY <1>0, <1>3, <2>1 DEF QueueType
<1>7. planner' \in [Planners -> {NoRow} \cup [at : {"writes"}, id : Recs, as : Settled]]
  BY <1>0, <1>3 DEF QueueType
<1>8. QueueType'
  BY <1>0, <1>3, <1>4, <1>6, <1>7 DEF QueueType
<1>9. RowsInOrder'
  BY <1>0, <1>2, <1>4, <1>5 DEF QueueInv, RowsInOrder, OpenRecs, Settled
<1>10. ASSUME NEW q \in Planners, planner'[q] # NoRow, planner'[q].id \in Decided'
       PROVE  planner'[q].id \in late'[q]
  <2>1. q # p /\ planner'[q] = planner[q] /\ q \in Reading /\ q \in Actors
    BY <1>0, <1>3, <1>10 DEF QueueType, Reading, Actors
  <2>2. late'[q] = late[q] \cup ({id} \cap {planner[q].id})
    BY <1>3, <2>1 DEF Holds
  <2>3. planner[q].id \in Recs
    BY <1>0, <1>10, <2>1 DEF QueueType
  <2> QED BY <1>5, <1>10, <2>1, <2>2, <2>3 DEF QueueInv, OvertakenKnown
<1>11. ASSUME NEW f \in Refreshers, NEW i \in refresh[f].old
       PROVE  /\ f \notin Planners /\ f \in Actors /\ f \in Reading /\ f # p
              /\ late'[f] = late[f] \cup ({id} \cap refresh[f].old)
  <2>1. refresh[f] # NoTurn
    BY <1>11 DEF NoTurn
  <2>2. f \notin Planners /\ f \in Actors /\ f # p
    BY QueueAssumption DEF Actors
  <2>3. f \in Reading
    BY <2>1 DEF Reading
  <2> QED BY <1>3, <2>2, <2>3 DEF Holds
<1>12. \A f \in Refreshers : \A i \in refresh[f].old : i \in Decided' => i \in late'[f]
  <2>1. \A f \in Refreshers : \A i \in refresh[f].old : i \in Recs
    BY <1>0 DEF QueueType
  <2> QED BY <1>5, <1>11, <2>1 DEF QueueInv, OvertakenKnown
<1>13. ASSUME NEW f \in Refreshers, refresh[f] # NoTurn, late'[f] \cap Refreshers = {}
       PROVE  OpenRecs' \in SUBSET refresh[f].old
  <2>1. f \notin Planners /\ f \in Actors /\ f # p /\ f \in Reading
    BY <1>13, QueueAssumption DEF Actors, Reading
  <2>2. late[f] \in SUBSET late'[f]
    BY <1>3, <2>1
  <2> QED BY <1>5, <1>13, <2>2 DEF QueueInv, OvertakenKnown
<1>14. OvertakenKnown'
  BY <1>3, <1>10, <1>12, <1>13 DEF OvertakenKnown
<1> QED BY <1>8, <1>9, <1>14 DEF QueueInv

\* A refresh reads the queue, locks what it has read, or is undone.
LEMMA RefreshStep ==
  ASSUME QueueInv, NEW f \in Refreshers, NEW offers \in SUBSET Items,
         ReadQueue(f, offers) \/ ExpireOld(f) \/ RefreshFails(f)
  PROVE  QueueInv'
<1>0. QueueType
  BY DEF QueueInv
<1>1. /\ UNCHANGED <<recs, planner>> /\ Recs' = Recs /\ OpenRecs' = OpenRecs /\ Decided' = Decided
      /\ OpenRecs \in SUBSET Recs /\ OpenRecs \cap Decided = {} /\ Recs \in SUBSET Nat
  BY <1>0 DEF ReadQueue, ExpireOld, RefreshFails, Recs, OpenRecs, Decided, Settled, QueueType
<1>2. PICK turn \in {NoTurn} \cup Turn :
        /\ refresh' = [refresh EXCEPT ![f] = turn]
        /\ turn.old \in {{}, OpenRecs, refresh[f].old}
        /\ turn # NoTurn => /\ UNCHANGED late
                            /\ turn.old = OpenRecs \/ (turn.old = refresh[f].old /\ refresh[f] # NoTurn)
        /\ turn = NoTurn => late' = [late EXCEPT ![f] = {}]
  <2>1. CASE ReadQueue(f, offers)
    <3>1. [at |-> "read", old |-> OpenRecs, offers |-> offers] \in Turn
      BY <1>1 DEF Turn
    <3>2. [at |-> "read", old |-> OpenRecs, offers |-> offers] # NoTurn
      BY DEF NoTurn
    <3> QED BY <2>1, <3>1, <3>2 DEF ReadQueue, Superseded
  <2>2. CASE ExpireOld(f)
    <3>1. refresh[f] \in Turn /\ refresh[f] # NoTurn
      BY <1>0, <2>2 DEF ExpireOld, QueueType, NoTurn
    <3>2. PICK turn \in Turn : /\ turn = [refresh[f] EXCEPT !.at = "expired"]
                               /\ turn.old = refresh[f].old /\ turn.at = "expired"
      <4>1. [refresh[f] EXCEPT !.at = "expired"] \in Turn
        BY <3>1 DEF Turn
      <4> QED BY <3>1, <4>1 DEF Turn
    <3>3. turn # NoTurn
      BY <3>2 DEF NoTurn
    <3>4. refresh' = [refresh EXCEPT ![f] = turn] /\ UNCHANGED late
      BY <2>2, <3>2 DEF ExpireOld
    <3> QED BY <3>1, <3>2, <3>3, <3>4
  <2>3. CASE RefreshFails(f)
    BY <2>3 DEF RefreshFails, NoTurn
  <2> QED BY <2>1, <2>2, <2>3
<1>3. /\ refresh'[f] = turn /\ \A g \in Refreshers \ {f} : refresh'[g] = refresh[g]
      /\ refresh' \in [Refreshers -> {NoTurn} \cup Turn]
  BY <1>0, <1>2 DEF QueueType
<1>4. /\ f \notin Planners /\ f \in Actors
      /\ \A a \in Actors \ {f} : late'[a] = late[a]
      /\ turn # NoTurn => late'[f] = late[f]
      /\ late' \in [Actors -> SUBSET (Nat \cup Refreshers)]
  BY <1>0, <1>2, QueueAssumption DEF Actors, QueueType
<1>5. QueueType'
  <2>1. \A g \in Refreshers : refresh'[g].old \in SUBSET Recs
    BY <1>0, <1>1, <1>2, <1>3 DEF QueueType
  <2> QED BY <1>0, <1>1, <1>3, <1>4, <2>1 DEF QueueType
<1>6. RowsInOrder'
  BY <1>1 DEF QueueInv, RowsInOrder
<1>7. \A p \in Planners : planner'[p] # NoRow /\ planner'[p].id \in Decided' =>
        planner'[p].id \in late'[p]
  BY <1>1, <1>4 DEF QueueInv, OvertakenKnown, Actors
<1>8. \A g \in Refreshers : \A id \in refresh'[g].old : id \in Decided' => id \in late'[g]
  <2>1. NoTurn.old = {}
    BY DEF NoTurn
  <2>2. \A id \in turn.old : id \in Decided => id \in late'[f]
    BY <1>1, <1>2, <1>4, <2>1 DEF QueueInv, OvertakenKnown
  <2> QED BY <1>1, <1>3, <1>4, <2>2 DEF QueueInv, OvertakenKnown, Actors
<1>9. \A g \in Refreshers : refresh'[g] # NoTurn /\ late'[g] \cap Refreshers = {} =>
        OpenRecs' \in SUBSET refresh'[g].old
  BY <1>1, <1>2, <1>3, <1>4 DEF QueueInv, OvertakenKnown, Actors
<1>10. OvertakenKnown'
  BY <1>7, <1>8, <1>9 DEF OvertakenKnown
<1> QED BY <1>5, <1>6, <1>10 DEF QueueInv

\* The rows after a refresh: those it held have expired, the new ones are open, one for
\* each item it offers, and the others are as they were.
LEMMA OfferedRows ==
  ASSUME QueueInv, NEW f \in Refreshers, OfferNew(f)
  PROVE  /\ \E n \in Nat : Recs' = 1..n
         /\ recs' \in [Recs' -> Rec] /\ Recs \in SUBSET Recs' /\ refresh[f] \in Turn
         /\ \A id \in Recs : /\ id \in refresh[f].old => recs'[id].status = "expired"
                             /\ id \notin refresh[f].old => recs'[id] = recs[id]
         /\ \A id \in Recs' \ Recs : recs'[id].status = "open" /\ recs'[id].item \in refresh[f].offers
         /\ \A i, j \in Recs' \ Recs : recs'[i].item = recs'[j].item => i = j
<1>0. QueueType
  BY DEF QueueInv
<1>1. refresh[f] \in Turn
  BY <1>0 DEF OfferNew, QueueType, NoTurn
<1>2. PICK n \in Nat : Recs = 1..n
  BY <1>0 DEF QueueType
<1>3. Cardinality(Recs) = n
  BY <1>2, FS_Interval
<1>4. PICK k \in Nat : k = Cardinality(refresh[f].offers)
  <2>1. IsFiniteSet(refresh[f].offers)
    BY <1>1, QueueAssumption, FS_Subset DEF Turn
  <2> QED BY <2>1, FS_CardinalityType
<1>5. PICK item \in [n + 1 .. n + k -> refresh[f].offers] :
        /\ \A i, j \in n + 1 .. n + k : item[i] = item[j] => i = j
        /\ recs' = [id \in Recs \cup (n + 1 .. n + k) |->
             IF id \in refresh[f].old THEN [recs[id] EXCEPT !.status = "expired"]
             ELSE IF id \in Recs THEN recs[id]
             ELSE [item |-> item[id], status |-> "open", units |-> FALSE]]
  <2>1. PICK item \in [Cardinality(Recs) + 1 .. Cardinality(Recs) + Cardinality(refresh[f].offers)
                         -> refresh[f].offers] :
          /\ \A i, j \in DOMAIN item : item[i] = item[j] => i = j
          /\ recs' = [id \in Recs \cup DOMAIN item |->
               IF id \in refresh[f].old THEN [recs[id] EXCEPT !.status = "expired"]
               ELSE IF id \in Recs THEN recs[id]
               ELSE [item |-> item[id], status |-> "open", units |-> FALSE]]
    BY DEF OfferNew
  <2>2. item \in [n + 1 .. n + k -> refresh[f].offers] /\ DOMAIN item = n + 1 .. n + k
    BY <1>3, <1>4, <2>1
  <2> QED BY <2>1, <2>2
<1>6. Recs' = Recs \cup (n + 1 .. n + k)
  BY <1>5 DEF Recs
<1>7. Recs' = 1 .. n + k /\ n + k \in Nat
  BY <1>2, <1>6
<1>8. refresh[f].old \in SUBSET Recs /\ \A id \in Recs : recs[id] \in Rec
  BY <1>0 DEF QueueType
<1>9. \A id \in Recs : /\ id \in refresh[f].old => recs'[id] \in Rec /\ recs'[id].status = "expired"
                       /\ id \notin refresh[f].old => recs'[id] = recs[id]
  BY <1>5, <1>8 DEF Rec
<1>10. \A id \in Recs' \ Recs : /\ id \in n + 1 .. n + k
                                /\ recs'[id] = [item |-> item[id], status |-> "open", units |-> FALSE]
  BY <1>5, <1>6, <1>8
<1>11. \A id \in Recs' \ Recs : /\ recs'[id] \in Rec /\ recs'[id].status = "open"
                                /\ recs'[id].item = item[id] /\ item[id] \in refresh[f].offers
  <2> SUFFICES ASSUME NEW id \in Recs' \ Recs
               PROVE  /\ recs'[id] \in Rec /\ recs'[id].status = "open"
                      /\ recs'[id].item = item[id] /\ item[id] \in refresh[f].offers
    OBVIOUS
  <2>1. item[id] \in refresh[f].offers /\ refresh[f].offers \in SUBSET Items
    BY <1>1, <1>10 DEF Turn
  <2>2. recs'[id] = [item |-> item[id], status |-> "open", units |-> FALSE]
    BY <1>10
  <2>3. [item |-> item[id], status |-> "open", units |-> FALSE] \in Rec
    BY <2>1 DEF Rec
  <2> QED BY <2>1, <2>2, <2>3
<1>12. recs' \in [Recs' -> Rec]
  <2>1. \A id \in Recs' : recs'[id] \in Rec
    BY <1>8, <1>9, <1>11
  <2> DEFINE row(id) == IF id \in refresh[f].old THEN [recs[id] EXCEPT !.status = "expired"]
                        ELSE IF id \in Recs THEN recs[id]
                        ELSE [item |-> item[id], status |-> "open", units |-> FALSE]
  <2>2. recs' = [id \in Recs' |-> row(id)]
    BY <1>5, <1>6
  <2> HIDE DEF row
  <2>3. recs' = [id \in Recs' |-> recs'[id]]
    BY <2>2
  <2> QED BY <2>1, <2>3
<1>13. \A i, j \in Recs' \ Recs : recs'[i].item = recs'[j].item => i = j
  <2> SUFFICES ASSUME NEW i \in Recs' \ Recs, NEW j \in Recs' \ Recs, recs'[i].item = recs'[j].item
               PROVE  i = j
    OBVIOUS
  <2>1. i \in n + 1 .. n + k /\ j \in n + 1 .. n + k /\ item[i] = item[j]
    BY <1>10, <1>11
  <2> QED BY <2>1, <1>5
<1>14. \E m \in Nat : Recs' = 1..m
  BY <1>7
<1>15. Recs \in SUBSET Recs'
  BY <1>6
<1> QED BY <1>1, <1>9, <1>11, <1>12, <1>13, <1>14, <1>15

\* A refresh that offers new rows keeps the queue's invariant.
LEMMA OfferStep == ASSUME QueueInv, NEW f \in Refreshers, OfferNew(f) PROVE QueueInv'
<1>0. QueueType
  BY DEF QueueInv
<1>1. /\ refresh' = [refresh EXCEPT ![f] = NoTurn] /\ UNCHANGED planner
      /\ late' = [a \in Actors |-> IF a \in (Refreshers \cap Reading) \ {f} THEN late[a] \cup {f}
                                   ELSE IF a = f THEN {} ELSE late[a]]
      /\ \A id \in OpenRecs \ refresh[f].old : recs[id].item \notin refresh[f].offers
  BY DEF OfferNew
<1>2. /\ OpenRecs' = (OpenRecs \ refresh[f].old) \cup (Recs' \ Recs)
      /\ Decided' \in SUBSET Decided /\ Recs \in SUBSET Recs'
  BY OfferedRows DEF OpenRecs, Decided, Settled
<1>3. /\ refresh'[f] = NoTurn /\ \A g \in Refreshers \ {f} : refresh'[g] = refresh[g]
      /\ refresh' \in [Refreshers -> {NoTurn} \cup Turn] /\ NoTurn.old = {}
  BY <1>0, <1>1 DEF QueueType, NoTurn
<1>4. /\ late' \in [Actors -> SUBSET (Nat \cup Refreshers)]
      /\ \A a \in Actors \ {f} : late[a] \in SUBSET late'[a]
      /\ \A g \in Refreshers \ {f} : refresh[g] # NoTurn => f \in late'[g]
  <2>1. \A a \in Actors : late'[a] \in SUBSET (Nat \cup Refreshers)
    BY <1>0, <1>1 DEF QueueType
  <2>2. \A g \in Refreshers \ {f} : refresh[g] # NoTurn => f \in late'[g]
    BY <1>1 DEF Reading, Actors
  <2>3. \A a \in Actors \ {f} : late[a] \in SUBSET late'[a]
    BY <1>1
  <2> QED BY <1>1, <2>1, <2>2, <2>3
<1>5. QueueType'
  <2>1. planner' \in [Planners -> {NoRow} \cup [at : {"writes"}, id : Recs', as : Settled]]
    BY <1>0, <1>1, <1>2 DEF QueueType
  <2>2. \A g \in Refreshers : refresh'[g].old \in SUBSET Recs'
    BY <1>0, <1>2, <1>3 DEF QueueType
  <2> QED BY <1>3, <1>4, <2>1, <2>2, OfferedRows DEF QueueType
<1>6. \A i, j \in OpenRecs' : recs'[i].item = recs'[j].item => i = j
  <2>1. \A i \in OpenRecs \ refresh[f].old : recs'[i] = recs[i] /\ i \in OpenRecs
    BY OfferedRows DEF OpenRecs
  <2>2. \A i, j \in OpenRecs \ refresh[f].old : recs'[i].item = recs'[j].item => i = j
    BY <2>1 DEF QueueInv, RowsInOrder
  <2>3. \A i \in OpenRecs \ refresh[f].old : \A j \in Recs' \ Recs : recs'[i].item # recs'[j].item
    BY <1>1, <2>1, OfferedRows
  <2>4. \A i, j \in Recs' \ Recs : recs'[i].item = recs'[j].item => i = j
    BY OfferedRows
  <2> QED BY <1>2, <2>2, <2>3, <2>4
<1>7. \A id \in Recs' : recs'[id].status = "accepted" => recs'[id].units
  BY OfferedRows DEF QueueInv, RowsInOrder
<1>8. \A p \in Planners : planner'[p] # NoRow /\ planner'[p].id \in Decided' =>
        planner'[p].id \in late'[p]
  BY <1>1, <1>2, <1>4, QueueAssumption DEF QueueInv, OvertakenKnown, Actors
<1>9. \A g \in Refreshers : \A id \in refresh'[g].old : id \in Decided' => id \in late'[g]
  BY <1>2, <1>3, <1>4 DEF QueueInv, OvertakenKnown, Actors
<1>10. \A g \in Refreshers : ~ (refresh'[g] # NoTurn /\ late'[g] \cap Refreshers = {})
  BY <1>3, <1>4
<1> QED BY <1>5, <1>6, <1>7, <1>8, <1>9, <1>10 DEF QueueInv, RowsInOrder, OvertakenKnown

\* Every step keeps the queue's invariant.
LEMMA NextQueue == QueueInv /\ [QueueNext]_queueVars => QueueInv'
<1>1. QueueInv /\ UNCHANGED queueVars => QueueInv'
  BY DEF queueVars, QueueInv, QueueType, RowsInOrder, OvertakenKnown, OpenRecs, Decided, Recs
<1> QED BY <1>1, LoadStep, DecideStep, RefreshStep, OfferStep DEF QueueNext

\* A decision is changed only by who had read the row before it was taken.
LEMMA OnlyOvertaken ==
  ASSUME QueueInv, [QueueNext]_queueVars, NEW id \in Decided, recs'[id].status # recs[id].status
  PROVE  \E a \in Actors : id \in late[a]
           /\ (IF a \in Planners THEN Decide(a) /\ planner[a].id = id ELSE OfferNew(a))
<1>0. QueueType /\ id \in Recs
  BY DEF QueueInv, Decided
<1>1. ASSUME NEW p \in Planners, Decide(p)
      PROVE  p \in Actors /\ id \in late[p] /\ planner[p].id = id
  <2>1. planner[p].id = id
    BY <1>0, <1>1 DEF Decide, QueueType
  <2>2. planner[p] # NoRow
    BY <1>1 DEF Decide, NoRow
  <2> QED BY <2>1, <2>2 DEF QueueInv, OvertakenKnown, Actors
<1>2. ASSUME NEW f \in Refreshers, OfferNew(f)
      PROVE  f \in Actors /\ f \notin Planners /\ id \in late[f]
  <2>1. id \in refresh[f].old
    BY <1>0, <1>2, OfferedRows
  <2> QED BY <2>1, QueueAssumption DEF QueueInv, OvertakenKnown, Actors
<1>3. \/ \E p \in Planners : Decide(p)
      \/ \E f \in Refreshers : OfferNew(f)
  BY DEF QueueNext, queueVars, Load, ExpireOld, RefreshFails, ReadQueue
<1> QED BY <1>1, <1>2, <1>3

\* No item is open twice, an accepted row has its units, a decision stands unless someone
\* was overtaken, and a refresh leaves exactly its own rows open (accept_decision,
\* dismiss_decision, persist_decisions).
THEOREM DecisionsAreKept == QueueSpec => DecisionsStand
<1>1. QueueInv => /\ \A i, j \in OpenRecs : recs[i].item = recs[j].item => i = j
                  /\ \A id \in Recs : recs[id].status = "accepted" => recs[id].units
  BY DEF QueueInv, RowsInOrder
<1>2. QueueInv /\ [QueueNext]_queueVars =>
        [\A id \in Decided : recs'[id].status # recs[id].status =>
          \E a \in Actors : id \in late[a]
            /\ (IF a \in Planners THEN Decide(a) /\ planner[a].id = id ELSE OfferNew(a))]_queueVars
  BY OnlyOvertaken
<1>3. QueueInv /\ [QueueNext]_queueVars =>
        [\A f \in Refreshers : OfferNew(f) /\ late[f] \cap Refreshers = {} =>
          OpenRecs' = Recs' \ Recs]_queueVars
  <2> SUFFICES ASSUME QueueInv, NEW f \in Refreshers, OfferNew(f), late[f] \cap Refreshers = {}
               PROVE  OpenRecs' = Recs' \ Recs
    OBVIOUS
  <2>1. refresh[f] # NoTurn
    BY DEF OfferNew, NoTurn
  <2>2. OpenRecs \in SUBSET refresh[f].old
    BY <2>1 DEF QueueInv, OvertakenKnown
  <2> QED BY <2>2, OfferedRows DEF OpenRecs
<1> QED BY InitQueue, NextQueue, <1>1, <1>2, <1>3, PTL DEF QueueSpec, DecisionsStand

-----------------------------------------------------------------------------
(* The search for the level of cover *)

Ranges == Nat \X Nat

\* What a search over r looks up, where high are the levels that are too high.
Halved(g, high, r) ==
  LET mid == (r[1] + r[2]) \div 2 IN
  IF r[2] - r[1] <= 1 THEN r[1]
  ELSE IF mid \in high THEN g[<<r[1], mid>>] ELSE g[<<mid, r[2]>>]

Searches(g, high) == g = [r \in Ranges |-> Halved(g, high, r)]

\* g is such a search where a range is no wider than n.
SearchesUpTo(g, high, n) == \A r \in Ranges : r[2] - r[1] <= n => g[r] = Halved(g, high, r)

\* Both halves of a range are ranges and less wide.
LEMMA Halves ==
  ASSUME NEW r \in Ranges, r[2] - r[1] > 1
  PROVE  LET mid == (r[1] + r[2]) \div 2 IN
         /\ mid \in Nat /\ r[1] < mid /\ mid < r[2]
         /\ <<r[1], mid>> \in Ranges /\ <<mid, r[2]>> \in Ranges
  BY DEF Ranges

\* Two searches agree.
LEMMA SearchesAgree ==
  ASSUME NEW high, NEW n \in Nat, NEW g, SearchesUpTo(g, high, n),
         NEW h, SearchesUpTo(h, high, n), NEW r \in Ranges, r[2] - r[1] <= n
  PROVE  g[r] = h[r]
<1> DEFINE A == {k \in Nat : k <= n => \A q \in Ranges : q[2] - q[1] <= k => g[q] = h[q]}
<1>1. ASSUME NEW q \in Ranges, q[2] - q[1] <= 1, q[2] - q[1] <= n PROVE g[q] = h[q]
  <2>1. g[q] = Halved(g, high, q) /\ h[q] = Halved(h, high, q)
    BY <1>1 DEF SearchesUpTo
  <2> QED BY <1>1, <2>1 DEF Halved
<1>2. 0 \in A
  BY <1>1 DEF Ranges
<1>3. ASSUME NEW k \in Nat, k \in A PROVE k + 1 \in A
  <2> SUFFICES ASSUME k + 1 <= n, NEW q \in Ranges, q[2] - q[1] <= k + 1 PROVE g[q] = h[q]
    OBVIOUS
  <2>0. q[1] \in Nat /\ q[2] \in Nat /\ q[2] - q[1] <= n
    BY DEF Ranges
  <2>1. CASE q[2] - q[1] <= 1
    BY <1>1, <2>0, <2>1
  <2>2. CASE q[2] - q[1] > 1
    <3> DEFINE mid == (q[1] + q[2]) \div 2
               left == <<q[1], mid>>
               right == <<mid, q[2]>>
    <3>1. mid \in Nat /\ q[1] < mid /\ mid < q[2] /\ left \in Ranges /\ right \in Ranges
      BY <2>2, Halves
    <3>2. left[2] - left[1] <= k /\ right[2] - right[1] <= k
      BY <2>0, <3>1
    <3>3. g[left] = h[left] /\ g[right] = h[right]
      BY <1>3, <3>1, <3>2
    <3>4. g[q] = Halved(g, high, q) /\ h[q] = Halved(h, high, q)
      BY <2>0 DEF SearchesUpTo
    <3> QED BY <3>3, <3>4 DEF Halved
  <2> QED BY <2>0, <2>1, <2>2
<1> HIDE DEF A
<1>4. n \in A
  BY <1>2, <1>3, NumberInduction
<1> QED BY <1>4 DEF A

\* There is a search for ranges of every width.
LEMMA SearchGrows == ASSUME NEW high, NEW n \in Nat PROVE \E g : SearchesUpTo(g, high, n)
<1> DEFINE A == {k \in Nat : \E g : SearchesUpTo(g, high, k)}
<1>1. 0 \in A
  <2> DEFINE g == [r \in Ranges |-> r[1]]
  <2>1. SearchesUpTo(g, high, 0)
    BY DEF SearchesUpTo, Halved, Ranges
  <2> QED BY <2>1
<1>2. ASSUME NEW k \in Nat, k \in A PROVE k + 1 \in A
  <2>1. PICK g : SearchesUpTo(g, high, k)
    BY <1>2
  <2> DEFINE h == [r \in Ranges |-> Halved(g, high, r)]
  <2>2. ASSUME NEW r \in Ranges, r[2] - r[1] <= k + 1 PROVE h[r] = Halved(h, high, r)
    <3>0. r[1] \in Nat /\ r[2] \in Nat
      BY DEF Ranges
    <3>1. CASE r[2] - r[1] <= 1
      BY <3>1 DEF Halved
    <3>2. CASE r[2] - r[1] > 1
      <4> DEFINE mid == (r[1] + r[2]) \div 2
                 left == <<r[1], mid>>
                 right == <<mid, r[2]>>
      <4>1. mid \in Nat /\ r[1] < mid /\ mid < r[2] /\ left \in Ranges /\ right \in Ranges
        BY <3>2, Halves
      <4>2. left[2] - left[1] <= k /\ right[2] - right[1] <= k
        BY <2>2, <3>0, <4>1
      <4>3. h[left] = g[left] /\ h[right] = g[right]
        BY <2>1, <4>1, <4>2 DEF SearchesUpTo
      <4>4. h[r] = Halved(g, high, r)
        OBVIOUS
      <4> HIDE DEF h
      <4> QED BY <4>3, <4>4 DEF Halved
    <3> QED BY <3>0, <3>1, <3>2
  <2> HIDE DEF h
  <2>3. SearchesUpTo(h, high, k + 1)
    BY <2>2 DEF SearchesUpTo
  <2> QED BY <2>3
<1> HIDE DEF A
<1>3. n \in A
  BY <1>1, <1>2, NumberInduction
<1> QED BY <1>3 DEF A

\* There is a search for all ranges.
LEMMA SearchExists == ASSUME NEW high PROVE \E g : Searches(g, high)
<1> DEFINE W(r) == IF r[2] > r[1] THEN r[2] - r[1] ELSE 0
           G(n) == CHOOSE g : SearchesUpTo(g, high, n)
           all == [r \in Ranges |-> G(W(r))[r]]
<1>1. \A n \in Nat : SearchesUpTo(G(n), high, n)
  BY SearchGrows
<1> HIDE DEF G
<1>2. ASSUME NEW r \in Ranges PROVE all[r] = Halved(all, high, r)
  <2>0. r[1] \in Nat /\ r[2] \in Nat /\ W(r) \in Nat /\ r[2] - r[1] <= W(r)
    BY DEF Ranges
  <2>1. all[r] = Halved(G(W(r)), high, r)
    BY <1>1, <2>0 DEF SearchesUpTo
  <2>2. CASE r[2] - r[1] <= 1
    BY <2>1, <2>2 DEF Halved
  <2>3. CASE r[2] - r[1] > 1
    <3> DEFINE mid == (r[1] + r[2]) \div 2
               left == <<r[1], mid>>
               right == <<mid, r[2]>>
    <3>1. mid \in Nat /\ r[1] < mid /\ mid < r[2] /\ left \in Ranges /\ right \in Ranges
      BY <2>3, Halves
    <3>2. ASSUME NEW q \in Ranges, W(q) \in Nat, W(q) <= W(r), q[2] - q[1] <= W(q)
          PROVE  all[q] = G(W(r))[q]
      <4>1. SearchesUpTo(G(W(q)), high, W(q))
        BY <1>1, <3>2
      <4>2. SearchesUpTo(G(W(r)), high, W(r))
        BY <1>1, <2>0
      <4>3. SearchesUpTo(G(W(r)), high, W(q))
        BY <2>0, <3>2, <4>2 DEF SearchesUpTo, Ranges
      <4>4. all[q] = G(W(q))[q]
        BY <3>2
      <4> HIDE DEF all
      <4>5. PICK n \in Nat : n = W(q)
        BY <3>2
      <4>6. PICK g : g = G(W(q))
        OBVIOUS
      <4>7. PICK h : h = G(W(r))
        OBVIOUS
      <4> HIDE DEF W
      <4>8. SearchesUpTo(g, high, n) /\ SearchesUpTo(h, high, n) /\ q[2] - q[1] <= n
        BY <3>2, <4>1, <4>3, <4>5, <4>6, <4>7
      <4>9. g[q] = h[q]
        BY <4>8, SearchesAgree
      <4> QED BY <4>4, <4>6, <4>7, <4>9
    <3>3. /\ W(left) \in Nat /\ W(left) <= W(r) /\ left[2] - left[1] <= W(left)
          /\ W(right) \in Nat /\ W(right) <= W(r) /\ right[2] - right[1] <= W(right)
      BY <2>0, <3>1
    <3>4. all[left] = G(W(r))[left] /\ all[right] = G(W(r))[right]
      BY <3>1, <3>2, <3>3
    <3> HIDE DEF all, W
    <3> QED BY <2>1, <3>4 DEF Halved
  <2> QED BY <2>0, <2>2, <2>3
<1> HIDE DEF all
<1>3. all = [r \in Ranges |-> all[r]]
  BY DEF all
<1>4. Searches(all, high)
  BY <1>2, <1>3 DEF Searches
<1> QED BY <1>4

\* A search that starts at a level that is not too high ends at one.
LEMMA SearchFinds ==
  ASSUME NEW high, NEW g, Searches(g, high), NEW r \in Ranges, r[1] \notin high
  PROVE  g[r] \in Nat /\ g[r] \notin high
<1> DEFINE A == {k \in Nat : \A q \in Ranges : q[2] - q[1] <= k /\ q[1] \notin high =>
                                 g[q] \in Nat /\ g[q] \notin high}
<1>1. \A q \in Ranges : g[q] = Halved(g, high, q)
  BY DEF Searches
<1>2. ASSUME NEW q \in Ranges, q[2] - q[1] <= 1, q[1] \notin high
      PROVE  g[q] \in Nat /\ g[q] \notin high
  BY <1>1, <1>2 DEF Halved, Ranges
<1>3. 0 \in A
  BY <1>2 DEF Ranges
<1>4. ASSUME NEW k \in Nat, k \in A PROVE k + 1 \in A
  <2> SUFFICES ASSUME NEW q \in Ranges, q[2] - q[1] <= k + 1, q[1] \notin high
               PROVE  g[q] \in Nat /\ g[q] \notin high
    OBVIOUS
  <2>0. q[1] \in Nat /\ q[2] \in Nat
    BY DEF Ranges
  <2>1. CASE q[2] - q[1] <= 1
    BY <1>2, <2>1
  <2>2. CASE q[2] - q[1] > 1
    <3> DEFINE mid == (q[1] + q[2]) \div 2
               left == <<q[1], mid>>
               right == <<mid, q[2]>>
    <3>1. mid \in Nat /\ q[1] < mid /\ mid < q[2] /\ left \in Ranges /\ right \in Ranges
      BY <2>2, Halves
    <3>2. left[2] - left[1] <= k /\ right[2] - right[1] <= k
      BY <2>0, <3>1
    <3>3. CASE mid \in high
      <4>1. Halved(g, high, q) = g[left]
        BY <2>0, <2>2, <3>3 DEF Halved
      <4>2. g[q] = g[left]
        BY <1>1, <4>1
      <4> QED BY <1>4, <3>1, <3>2, <4>2
    <3>4. CASE mid \notin high
      <4>1. Halved(g, high, q) = g[right]
        BY <2>0, <2>2, <3>4 DEF Halved
      <4>2. g[q] = g[right]
        BY <1>1, <4>1
      <4> QED BY <1>4, <3>1, <3>2, <3>4, <4>2
    <3> QED BY <3>3, <3>4
  <2> QED BY <2>0, <2>1, <2>2
<1> HIDE DEF A
<1>5. PICK n \in Nat : r[2] - r[1] <= n
  BY DEF Ranges
<1>6. n \in A
  BY <1>3, <1>4, NumberInduction
<1> QED BY <1>5, <1>6 DEF A

-----------------------------------------------------------------------------
(* Replenishment: how the warehouse's stock is shared out *)

ShareType ==
  /\ store \in [Stores -> [position : Nat, rate : Nat, lead : Nat, fresh : BOOLEAN,
                       safety : Nat, spread : Nat]]
  /\ supply \in Nat /\ moq \in Nat \ {0}

\* What a store has and wants is a number of units.
LEMMA StoreUnits ==
  ASSUME ShareType, NEW s \in Stores
  PROVE  /\ Position(s) \in Nat /\ Rate(s) \in Nat /\ P50(s) \in Nat /\ P90(s) \in Nat
         /\ Target(s) \in Nat /\ Need(s) \in Nat
<1>1. store[s] \in [position : Nat, rate : Nat, lead : Nat, fresh : BOOLEAN, safety : Nat,
                      spread : Nat]
  BY DEF ShareType
<1>2. Window(s) \in Nat /\ Rate(s) \in Nat /\ Position(s) \in Nat
  BY <1>1, StockAssumption DEF Window, Rate, Position
<1>3. P50(s) \in Nat
  <2>1. PICK w \in Nat : w = Window(s)
    BY <1>2
  <2>2. PICK q \in Nat : q = Rate(s)
    BY <1>2
  <2> QED BY <2>1, <2>2 DEF P50, Rate
<1>4. P90(s) \in Nat /\ Target(s) \in Nat
  BY <1>1, <1>3 DEF P90, Target
<1> QED BY <1>2, <1>3, <1>4 DEF Need

\* A store that needs something and sells is one of finitely many.
LEMMA NeedyStores ==
  ASSUME ShareType
  PROVE  /\ IsFiniteSet(Needy) /\ Needy \subseteq Stores
         /\ \A s \in Needy : Need(s) \in Nat \ {0} /\ Rate(s) \in Nat \ {0}
  BY StockAssumption, StoreUnits, FS_Subset DEF Needy

\* A store is filled up to the level of cover or to its need, and not at all above it.
LEMMA FillBounds ==
  ASSUME ShareType, NEW s \in Stores, NEW level \in Nat
  PROVE  /\ Fill(s, level) \in Nat
         /\ Parts * Need(s) \in Nat /\ Parts * Position(s) \in Nat /\ level * Rate(s) \in Nat
         /\ Fill(s, level) <= Parts * Need(s)
         /\ Fill(s, level) > 0 => Fill(s, level) + Parts * Position(s) <= level * Rate(s)
         /\ Fill(s, level) < Parts * Need(s) =>
              level * Rate(s) <= Fill(s, level) + Parts * Position(s)
<1>1. PICK n \in Nat : n = Need(s)
  BY StoreUnits
<1>2. PICK p \in Nat : p = Position(s)
  BY StoreUnits
<1>3. PICK q \in Nat : q = Rate(s)
  BY StoreUnits
<1>4. Parts \in Nat
  BY StockAssumption
<1>5. PICK pn \in Nat : pn = Parts * n
  BY <1>4
<1>6. PICK pp \in Nat : pp = Parts * p
  BY <1>4
<1>7. PICK lr \in Nat : lr = level * q
  OBVIOUS
<1>8. Parts * Need(s) = pn /\ Parts * Position(s) = pp /\ level * Rate(s) = lr
  BY <1>1, <1>2, <1>3, <1>5, <1>6, <1>7
<1>9. Fill(s, level) = IF lr - pp < 0 THEN 0 ELSE IF lr - pp < pn THEN lr - pp ELSE pn
  BY <1>8, Zenon DEF Fill
<1> QED BY <1>8, <1>9

\* At no level of cover nothing is filled.
LEMMA NothingFilled == ASSUME ShareType PROVE Filled(0) = 0
<1> DEFINE f == [s \in Needy |-> Fill(s, 0)]
<1>1. ASSUME NEW s \in Needy PROVE f[s] = 0
  <2>1. s \in Stores
    BY NeedyStores
  <2>2. /\ Fill(s, 0) \in Nat /\ Parts * Position(s) \in Nat
        /\ Fill(s, 0) > 0 => Fill(s, 0) + Parts * Position(s) <= 0 * Rate(s)
    BY <2>1, FillBounds
  <2>3. 0 * Rate(s) = 0
    BY <2>1, StoreUnits
  <2> QED BY <2>2, <2>3
<1>2. Filled(0) = SumFunctionOnSet(f, Needy)
  BY DEF Filled, SumFunction
<1> HIDE DEF f
<1>3. SumFunctionOnSet(f, Needy) = SumFunctionOnSet(f, {})
  BY <1>1, NeedyStores, SumWhere
<1> QED BY <1>2, <1>3, SumEmpty

\* The search of CoverLevel, as it stands there.
Bisects(bisect) ==
  bisect = [r \in Nat \X Nat |->
              LET mid == (r[1] + r[2]) \div 2 IN
              IF r[2] - r[1] <= 1 THEN r[1]
              ELSE IF Filled(mid) > Parts * supply THEN bisect[<<r[1], mid>>]
                   ELSE bisect[<<mid, r[2]>>]]

\* The level that cover_level finds takes no more than the stock.
LEMMA CoverReached ==
  ASSUME ShareType
  PROVE  CoverLevel \in Nat /\ Filled(CoverLevel) <= Parts * supply
<1> DEFINE high == {m \in Nat : Filled(m) > Parts * supply}
           top == Parts * Max({Target(s) : s \in Needy} \cup {1})
           range == <<0, top + 1>>
           g == CHOOSE bisect : Bisects(bisect)
<1>1. top \in Nat
  <2> DEFINE W == {Target(s) : s \in Needy}
  <2>1. IsFiniteSet(W)
    <3> DEFINE G == {T \in SUBSET Needy : IsFiniteSet({Target(s) : s \in T})}
    <3>1. {} \in G
      BY FS_EmptySet
    <3>2. ASSUME NEW T \in SUBSET Needy, NEW x \in Needy \ T, T \in G PROVE T \cup {x} \in G
      <4>1. {Target(s) : s \in T \cup {x}} = {Target(s) : s \in T} \cup {Target(x)}
        OBVIOUS
      <4>2. IsFiniteSet({Target(s) : s \in T})
        BY <3>2
      <4>3. PICK U : U = {Target(s) : s \in T}
        OBVIOUS
      <4>4. IsFiniteSet(U \cup {Target(x)})
        BY <4>2, <4>3, FS_AddElement
      <4>5. IsFiniteSet({Target(s) : s \in T \cup {x}})
        BY <4>1, <4>3, <4>4, Zenon
      <4> QED BY <4>5
    <3> HIDE DEF G
    <3>3. Needy \in G
      BY <3>1, <3>2, NeedyStores, ElementInduction
    <3> QED BY <3>3 DEF G
  <2>2. IsFiniteSet(W \cup {1}) /\ W \cup {1} # {}
    BY <2>1, FS_AddElement
  <2>3. W \cup {1} \in SUBSET Int /\ W \cup {1} \in SUBSET Nat
    BY NeedyStores, StoreUnits
  <2> HIDE DEF W
  <2>4. Max(W \cup {1}) \in Nat
    BY <2>2, <2>3, MaxExists
  <2> QED BY <2>4, StockAssumption DEF W
<1>2. supply \in Nat /\ Parts \in Nat
  BY StockAssumption DEF ShareType
<1>3. Parts * supply \in Nat
  BY <1>2
<1>4. 0 \notin high
  BY <1>3, NothingFilled
<1>5. CoverLevel = g[range]
  BY DEF CoverLevel, Bisects
<1>6. Searches(g, high)
  <2>1. ASSUME NEW bisect PROVE Searches(bisect, high) <=> Bisects(bisect)
    <3>1. ASSUME NEW r \in Nat \X Nat, r[2] - r[1] > 1
          PROVE  (r[1] + r[2]) \div 2 \in Nat
      BY <3>1
    <3> QED BY <3>1 DEF Searches, Ranges, Halved, Bisects
  <2>2. \E bisect : Searches(bisect, high)
    BY SearchExists
  <2>3. Bisects(g)
    BY <2>1, <2>2, Zenon
  <2> QED BY <2>1, <2>3
<1>7. range \in Ranges /\ range[1] = 0
  BY <1>1 DEF Ranges
<1> HIDE DEF g, high, range
<1>8. g[range] \in Nat /\ g[range] \notin high
  BY <1>4, <1>6, <1>7, SearchFinds
<1>9. Filled(g[range]) \in Int
  <2>1. PICK m \in Nat : m = g[range]
    BY <1>8
  <2> DEFINE f == [s \in Needy |-> Fill(s, m)]
  <2>2. \A s \in Needy : f[s] \in Int
    BY FillBounds, NeedyStores
  <2>3. Filled(m) = SumFunctionOnSet(f, Needy)
    BY DEF Filled, SumFunction
  <2> HIDE DEF f
  <2> QED BY <2>1, <2>2, <2>3, NeedyStores, SumType
<1> QED BY <1>3, <1>5, <1>8, <1>9 DEF high

\* A store that is rounded up gets whole packs, enough for its need, and one more pack than
\* any whole packs below its need.
LEMMA WantedPacks ==
  ASSUME ShareType, NEW s \in Stores
  PROVE  /\ RoundedUp(s) \in Nat /\ Need(s) <= RoundedUp(s)
         /\ \A k \in Nat : k * moq < Need(s) => k * moq + moq <= RoundedUp(s)
<1>1. PICK n \in Nat : n = Need(s)
  BY StoreUnits
<1>2. PICK m \in Nat \ {0} : m = moq
  BY DEF ShareType
<1>3. PICK x \in Nat : x = n + m - 1
  OBVIOUS
<1>4. PICK j \in Nat : j = x \div m
  BY WholePacks
<1>5. RoundedUp(s) = j * m
  BY <1>1, <1>2, <1>3, <1>4 DEF RoundedUp, Packs
<1>6. j * m \in Nat /\ n <= j * m
  <2>1. (x \div m) * m \in Nat /\ x < (x \div m) * m + m
    BY WholePacks
  <2> QED BY <1>3, <1>4, <2>1
<1>7. ASSUME NEW k \in Nat, k * m < n PROVE k * m + m <= j * m
  <2>1. k * m < j * m
    BY <1>6, <1>7
  <2>2. k + 1 <= j
    <3>1. SUFFICES ASSUME j <= k PROVE FALSE
      OBVIOUS
    <3>2. j * m <= k * m
      BY <3>1
    <3> QED BY <2>1, <3>2
  <2>3. (k + 1) * m <= j * m
    BY <2>2
  <2>4. (k + 1) * m = k * m + m
    OBVIOUS
  <2> QED BY <2>3, <2>4
<1> QED BY <1>1, <1>2, <1>5, <1>6, <1>7

\* What a store gets before the packs left are given out: whole packs, and less than one
\* more pack below what it is filled to.
LEMMA BaseBounds ==
  ASSUME ShareType, NEW s \in Stores, NEW level \in Nat
  PROVE  /\ Base(s, level) \in Nat /\ \E k \in Nat : Base(s, level) = k * moq
         /\ Parts * Base(s, level) <= Fill(s, level)
         /\ Fill(s, level) < Parts * (Base(s, level) + moq)
<1>1. PICK w \in Nat : w = Fill(s, level)
  BY FillBounds
<1>2. PICK m \in Nat \ {0} : m = moq
  BY DEF ShareType
<1>3. PICK p \in Nat \ {0} : p = Parts
  BY StockAssumption
<1>4. PICK q \in Nat : q = w \div p
  BY WholePacks
<1>5. PICK k \in Nat : k = q \div m
  BY WholePacks
<1>6. PICK b \in Nat : b = k * m
  OBVIOUS
<1>7. Base(s, level) = b
  BY <1>1, <1>2, <1>3, <1>4, <1>5, <1>6 DEF Base
<1>8. b <= q /\ q + 1 <= b + m
  <2>1. (q \div m) * m <= q /\ q < (q \div m) * m + m
    BY WholePacks
  <2> QED BY <1>5, <1>6, <2>1
<1>9. q * p <= w /\ w < q * p + p
  BY <1>4, WholePacks
<1>10. p * b <= w
  <2>1. p * b <= p * q /\ p * q = q * p
    BY <1>8
  <2> QED BY <1>9, <2>1
<1>11. w < p * (b + m)
  <2>1. p * (q + 1) <= p * (b + m) /\ p * (q + 1) = q * p + p
    BY <1>8
  <2> QED BY <1>9, <2>1
<1> QED BY <1>1, <1>2, <1>3, <1>6, <1>7, <1>10, <1>11

\* Who is short of a level of cover is behind who is not yet above it.
LEMMA CoverOrder ==
  ASSUME NEW p \in Nat \ {0}, NEW level \in Nat, NEW x \in Int, NEW y \in Int,
         NEW a \in Nat \ {0}, NEW b \in Nat \ {0}, p * x < level * a, level * b < p * y
  PROVE  x * b < y * a
<1>1. (p * x) * b < (level * a) * b
  OBVIOUS
<1>2. (level * b) * a < (p * y) * a
  OBVIOUS
<1>3. (level * a) * b = (level * b) * a /\ (p * x) * b = p * (x * b) /\ (p * y) * a = p * (y * a)
  OBVIOUS
<1>4. p * (x * b) < p * (y * a)
  BY <1>1, <1>2, <1>3
<1>5. PICK u \in Int : u = x * b
  OBVIOUS
<1>6. PICK v \in Int : v = y * a
  OBVIOUS
<1>7. p * u < p * v
  BY <1>4, <1>5, <1>6
<1>8. u < v
  BY <1>7
<1> QED BY <1>5, <1>6, <1>8

-----------------------------------------------------------------------------
(* The three ways of sharing *)

Even(given) ==
  /\ SumFunction(given) <= supply
  /\ \A s \in Stores : given[s] <= RoundedUp(s)
  /\ \A s, t \in Needy : given[s] > 0 /\ given[t] + moq <= Need(t) =>
       (Position(s) + given[s] - moq) * Rate(t) < (Position(t) + given[t] + moq) * Rate(s)

\* Where there is enough, every store gets what it needs.
LEMMA EnoughIsEven ==
  ASSUME ShareType, Enough,
         NEW given, given = [s \in Stores |-> IF s \in Needy THEN RoundedUp(s) ELSE 0]
  PROVE  given \in [Stores -> Nat] /\ Even(given)
<1>1. given \in [Stores -> Nat] /\ \A s \in Stores : given[s] <= RoundedUp(s)
  BY WantedPacks
<1>2. SumFunction(given) <= supply
  <2> DEFINE f == [s \in Needy |-> RoundedUp(s)]
  <2>1. SumFunctionOnSet(given, Stores) = SumFunctionOnSet(f, Needy)
    <3>1. \A s \in Needy : f[s] \in Int /\ given[s] = f[s]
      BY WantedPacks, NeedyStores
    <3>2. \A s \in Stores \ Needy : given[s] = 0
      OBVIOUS
    <3> HIDE DEF f
    <3> QED BY <3>1, <3>2, NeedyStores, StockAssumption, SumWhere
  <2>2. SumFunction(given) = SumFunctionOnSet(given, Stores)
    BY <1>1 DEF SumFunction
  <2> QED BY <2>1, <2>2 DEF Enough, SumFunction
<1>3. ASSUME NEW t \in Needy, given[t] + moq <= Need(t) PROVE FALSE
  BY <1>3, NeedyStores, WantedPacks DEF ShareType
<1> QED BY <1>1, <1>2, <1>3 DEF Even

\* Where there is nothing, nobody gets anything.
LEMMA NothingIsEven ==
  ASSUME ShareType, NEW given, given = [s \in Stores |-> 0]
  PROVE  given \in [Stores -> Nat] /\ Even(given)
<1>1. SumFunctionOnSet(given, Stores) = SumFunctionOnSet(given, {})
  BY StockAssumption, SumWhere
<1>2. SumFunction(given) = 0
  BY <1>1, SumEmpty DEF SumFunction
<1>3. \A s \in Needy : given[s] = 0
  BY NeedyStores
<1> QED BY <1>2, <1>3, WantedPacks DEF Even, ShareType

\* Where there is too little, the packs are given out up to a level of cover.
LEMMA RationIsEven ==
  ASSUME ShareType, NEW level \in Nat, Filled(level) <= Parts * supply,
         NEW up \in RoundUps(level), NEW given,
         given = [s \in Stores |-> IF s \notin Needy THEN 0
                                   ELSE Base(s, level) + (IF s \in up THEN moq ELSE 0)]
  PROVE  given \in [Stores -> Nat] /\ Even(given)
<1>1. up \in SUBSET {s \in Needy : Rest(s, level) > 0}
  BY DEF RoundUps
<1>2. moq \in Nat \ {0} /\ supply \in Nat /\ Parts \in Nat \ {0}
  BY StockAssumption DEF ShareType
<1>3. ASSUME NEW s \in Stores PROVE given[s] \in Nat /\ given[s] <= RoundedUp(s)
  <2>1. CASE s \notin Needy
    BY <2>1, WantedPacks
  <2>2. CASE s \in Needy
    <3>1. PICK b \in Nat : b = Base(s, level)
      BY BaseBounds
    <3>2. PICK k \in Nat : b = k * moq
      BY <3>1, BaseBounds
    <3>3. PICK n \in Nat : n = Need(s)
      BY StoreUnits
    <3>4. Parts * b <= Fill(s, level) /\ Fill(s, level) <= Parts * n /\ Fill(s, level) \in Nat
      BY <3>1, <3>3, BaseBounds, FillBounds
    <3>5. Parts * b <= Parts * n
      BY <1>2, <3>4
    <3>6. b <= n
      BY <1>2, <3>5
    <3>7. CASE s \in up
      <4>1. Fill(s, level) > Parts * b
        BY <1>1, <1>2, <3>1, <3>4, <3>7 DEF Rest
      <4>2. b # n
        BY <1>2, <3>4, <4>1
      <4>3. b < n
        BY <3>6, <4>2
      <4>4. given[s] = b + moq
        BY <2>2, <3>1, <3>7
      <4>5. k * moq + moq <= RoundedUp(s) /\ k * moq = b
        BY <3>2, <3>3, <4>3, WantedPacks
      <4>6. b + moq <= RoundedUp(s)
        BY <4>5
      <4> QED BY <1>2, <4>4, <4>6
    <3>8. CASE s \notin up
      BY <2>2, <3>1, <3>3, <3>6, <3>8, WantedPacks
    <3> QED BY <3>7, <3>8
  <2> QED BY <2>1, <2>2
<1>4. given \in [Stores -> Nat]
  BY <1>3
<1>5. SumFunction(given) <= supply
  <2> DEFINE base == [s \in Needy |-> Base(s, level)]
             fill == [s \in Needy |-> Fill(s, level)]
             f == [s \in Needy |-> base[s] + (IF s \in up THEN moq ELSE 0)]
  <2>1. \A s \in Needy : base[s] \in Nat /\ fill[s] \in Nat /\ Parts * base[s] <= fill[s]
    BY NeedyStores, BaseBounds, FillBounds
  <2>2. PICK b \in Nat : b = SumFunctionOnSet(base, Needy)
    <3> HIDE DEF base
    <3> QED BY <2>1, NeedyStores, SumNat
  <2>3. Parts * b <= Parts * supply
    <3>1. Filled(level) = SumFunctionOnSet(fill, Needy)
      BY DEF Filled, SumFunction
    <3> HIDE DEF base, fill
    <3>2. Parts * b <= SumFunctionOnSet(fill, Needy)
      BY <1>2, <2>1, <2>2, NeedyStores, SumScaled
    <3>3. SumFunctionOnSet(fill, Needy) \in Int
      BY <2>1, NeedyStores, SumType
    <3> QED BY <1>2, <3>1, <3>2, <3>3
  <2>4. b <= supply
    BY <1>2, <2>3
  <2>5. PICK j \in Nat : j = Leftover(level)
    <3>1. Leftover(level) = (supply - b) \div moq
      BY <2>2 DEF Leftover, SumFunction
    <3> QED BY <1>2, <2>4, <3>1, WholePacks
  <2>6. j * moq <= supply - b
    <3>1. j = (supply - b) \div moq
      BY <2>2, <2>5 DEF Leftover, SumFunction
    <3>2. PICK x \in Nat : x = supply - b
      BY <1>2, <2>4
    <3> QED BY <1>2, <3>1, <3>2, WholePacks
  <2>7. PICK c \in Nat : c = Cardinality(up) /\ c <= j
    <3> DEFINE torn == {s \in Needy : Rest(s, level) > 0}
    <3>1. IsFiniteSet(torn) /\ IsFiniteSet(up)
      BY <1>1, NeedyStores, FS_Subset
    <3>2. Cardinality(torn) \in Nat /\ Cardinality(up) \in Nat
      BY <3>1, FS_CardinalityType
    <3>3. Cardinality(up) = Min({Cardinality(torn), j})
      BY <2>5 DEF RoundUps
    <3> HIDE DEF torn
    <3>4. PICK n \in Nat : n = Cardinality(torn)
      BY <3>2
    <3>5. Min({n, j}) <= j
      <4>1. n \in Int /\ j \in Int
        OBVIOUS
      <4> QED BY <4>1, MinOfTwo, Zenon
    <3>6. Cardinality(up) <= j
      BY <3>3, <3>4, <3>5
    <3> QED BY <3>2, <3>6
  <2>8. moq * c <= supply - b
    <3>1. c * moq <= j * moq /\ c * moq = moq * c
      BY <1>2, <2>7
    <3> QED BY <1>2, <2>6, <3>1
  <2>9. SumFunctionOnSet(given, Stores) = SumFunctionOnSet(f, Needy)
    <3>1. \A s \in Needy : f[s] \in Int /\ given[s] = f[s]
      BY <1>4, NeedyStores
    <3>2. \A s \in Stores \ Needy : given[s] = 0
      OBVIOUS
    <3>3. IsFiniteSet(Stores) /\ Needy \in SUBSET Stores
      BY NeedyStores, StockAssumption
    <3> HIDE DEF f
    <3> QED BY <3>1, <3>2, <3>3, SumWhere
  <2>10. SumFunctionOnSet(f, Needy) = b + moq * c
    <3>1. up \in SUBSET Needy
      BY <1>1
    <3> HIDE DEF base
    <3>2. SumFunctionOnSet(f, Needy) = SumFunctionOnSet(base, Needy) + moq * Cardinality(up)
      BY <1>2, <2>1, <3>1, NeedyStores, SumRaised
    <3> QED BY <2>2, <2>7, <3>2
  <2>11. SumFunction(given) = SumFunctionOnSet(given, Stores)
    BY <1>4 DEF SumFunction
  <2>12. moq * c \in Nat
    BY <1>2
  <2> QED BY <1>2, <2>8, <2>9, <2>10, <2>11, <2>12
<1>6. ASSUME NEW s \in Needy, NEW t \in Needy, given[s] > 0, given[t] + moq <= Need(t)
      PROVE  (Position(s) + given[s] - moq) * Rate(t) < (Position(t) + given[t] + moq) * Rate(s)
  <2>1. s \in Stores /\ t \in Stores /\ Rate(s) \in Nat \ {0} /\ Rate(t) \in Nat \ {0}
    BY NeedyStores
  <2>2. PICK x \in Int : x = Position(s) + given[s] - moq
    BY <1>2, <1>3, <2>1, StoreUnits
  <2>3. PICK y \in Int : y = Position(t) + given[t] + moq
    BY <1>2, <1>3, <2>1, StoreUnits
  <2>4. Parts * x < level * Rate(s)
    <3>1. PICK b \in Nat : b = Base(s, level)
      BY <2>1, BaseBounds
    <3>2. PICK ps \in Nat : ps = Position(s)
      BY <2>1, StoreUnits
    <3>3. PICK w \in Nat : w = Fill(s, level)
      BY <2>1, FillBounds
    <3>4. Parts * b <= w
      BY <2>1, <3>1, <3>3, BaseBounds
    <3>5. x <= ps + b /\ w > 0 /\ (x < ps + b \/ Parts * b < w)
      <4>1. CASE s \in up
        <5>1. Rest(s, level) > 0 /\ x = ps + b
          BY <1>1, <1>2, <2>1, <2>2, <3>1, <3>2, <4>1
        <5>2. w - Parts * b > 0
          BY <3>1, <3>3, <5>1 DEF Rest
        <5>3. PICK z \in Nat : z = Parts * b
          BY <1>2
        <5> QED BY <5>1, <5>2, <5>3
      <4>2. CASE s \notin up
        <5>1. b = given[s] /\ x = ps + b - moq
          BY <2>1, <2>2, <3>1, <3>2, <4>2
        <5>2. Parts * b > 0
          BY <1>2, <1>6, <5>1
        <5> QED BY <1>2, <3>4, <5>1, <5>2
      <4> QED BY <4>1, <4>2
    <3>6. w + Parts * ps <= level * Rate(s)
      BY <2>1, <3>2, <3>3, <3>5, FillBounds
    <3>7. Parts * (ps + b) = Parts * ps + Parts * b /\ Parts * ps \in Nat /\ Parts * b \in Nat
      BY <1>2
    <3>8. Parts * x <= Parts * (ps + b) /\ (x < ps + b => Parts * x < Parts * (ps + b))
      BY <1>2, <3>5
    <3>9. Parts * x \in Int /\ level * Rate(s) \in Int
      BY <1>2, <2>1
    <3> QED BY <3>4, <3>5, <3>6, <3>7, <3>8, <3>9
  <2>5. level * Rate(t) < Parts * y
    <3>1. PICK b \in Nat : b = Base(t, level)
      BY <2>1, BaseBounds
    <3>2. PICK pt \in Nat : pt = Position(t)
      BY <2>1, StoreUnits
    <3>3. PICK w \in Nat : w = Fill(t, level)
      BY <2>1, FillBounds
    <3>4. PICK n \in Nat : n = Need(t)
      BY <2>1, StoreUnits
    <3>5. w < Parts * (b + moq)
      BY <2>1, <3>1, <3>3, BaseBounds
    <3>6. b <= given[t] /\ given[t] \in Nat
      BY <1>2, <1>3, <2>1, <3>1
    <3>7. Parts * (b + moq) <= Parts * (given[t] + moq) /\ Parts * (given[t] + moq) <= Parts * n
      BY <1>2, <1>6, <3>4, <3>6
    <3>8. Parts * (b + moq) \in Int /\ Parts * (given[t] + moq) \in Int /\ Parts * n \in Int
      BY <1>2, <3>6
    <3>9. w < Parts * (given[t] + moq) /\ w < Parts * n
      BY <3>5, <3>7, <3>8
    <3>10. level * Rate(t) <= w + Parts * pt
      BY <2>1, <3>2, <3>3, <3>4, <3>9, FillBounds
    <3>11. Parts * y = Parts * pt + Parts * (given[t] + moq) /\ Parts * pt \in Int
      BY <1>2, <2>3, <3>2, <3>6
    <3>12. level * Rate(t) \in Int
      BY <2>1
    <3> QED BY <3>8, <3>9, <3>10, <3>11, <3>12
  <2> QED BY <1>2, <2>1, <2>2, <2>3, <2>4, <2>5, CoverOrder
<1> QED BY <1>3, <1>4, <1>5, <1>6 DEF Even

-----------------------------------------------------------------------------
(* From step to step *)

SharePhases ==
  /\ phase \in {"allocate", "drop", "match"}
  /\ phase = "allocate" => allocated = [s \in Stores |-> 0]
  /\ phase = "drop" => allocated \in [Stores -> Nat] /\ Even(allocated)

ShareInv == ShareType /\ SharePhases

\* Nothing is shared out at first.
LEMMA InitShare == StockInit => ShareInv
  BY StockAssumption DEF StockInit, ShareInv, ShareType, SharePhases

\* Every step of the specification leaves the stores, the stock and the packs alone.
LEMMA SameShop == ASSUME ShareType, StockNext PROVE UNCHANGED <<store, supply, moq>> /\ ShareType'
  BY DEF StockNext, Allocate, FindSites, Serve, Served, Offer, ShareType

\* Every step keeps what is shared out even.
LEMMA NextShare == ShareInv /\ [StockNext]_stockVars => ShareInv'
<1> SUFFICES ASSUME ShareInv, [StockNext]_stockVars PROVE ShareInv'
  OBVIOUS
<1> USE DEF ShareInv
<1>1. UNCHANGED <<store, supply, moq>> /\ ShareType'
  BY SameShop DEF stockVars, ShareType
<1>2. \A s : Position(s)' = Position(s) /\ Rate(s)' = Rate(s) /\ Need(s)' = Need(s)
  BY <1>1 DEF Position, Rate, Need, Target, P50, Window
<1>3. Needy' = Needy /\ \A s : RoundedUp(s)' = RoundedUp(s)
  BY <1>1, <1>2 DEF Needy, RoundedUp, Packs
<1>4. ASSUME NEW given, given = allocated', Even(given) PROVE Even(allocated)'
  BY <1>1, <1>2, <1>3, <1>4 DEF Even
<1>5. CASE Allocate
  <2>1. allocated' \in [Stores -> Nat] /\ Even(allocated')
    <3>1. CASE /\ Enough
               /\ allocated' = [s \in Stores |-> IF s \in Needy THEN RoundedUp(s) ELSE 0]
      BY <3>1, EnoughIsEven
    <3>2. CASE supply = 0 /\ ~ Enough /\ UNCHANGED allocated
      BY <1>5, <3>2, NothingIsEven DEF SharePhases, Allocate
    <3>3. CASE LET level == CoverLevel IN \E up \in RoundUps(level) :
             allocated' = [s \in Stores |->
               IF s \notin Needy THEN 0
               ELSE Base(s, level) + (IF s \in up THEN moq ELSE 0)]
      <4>1. PICK level \in Nat : level = CoverLevel /\ Filled(level) <= Parts * supply
        BY CoverReached
      <4>2. PICK up \in RoundUps(level) :
             allocated' = [s \in Stores |->
               IF s \notin Needy THEN 0
               ELSE Base(s, level) + (IF s \in up THEN moq ELSE 0)]
        BY <3>3, <4>1
      <4> QED BY <4>1, <4>2, RationIsEven
    <3> QED BY <1>5, <3>1, <3>2, <3>3 DEF Allocate
  <2>2. PICK given : given = allocated'
    OBVIOUS
  <2>3. Even(allocated)'
    BY <1>4, <2>1, <2>2
  <2> QED BY <1>1, <1>5, <2>1, <2>3 DEF SharePhases, Allocate
<1>6. CASE FindSites
  BY <1>1, <1>6 DEF SharePhases, FindSites
<1>7. CASE phase' = phase /\ UNCHANGED allocated
  <2>1. PICK given : given = allocated'
    OBVIOUS
  <2>2. Even(allocated) => Even(allocated)'
    BY <1>4, <1>7, <2>1
  <2> QED BY <1>1, <1>7, <2>2 DEF SharePhases
<1>8. Allocate \/ FindSites \/ (phase' = phase /\ UNCHANGED allocated)
  <2>1. ASSUME NEW r \in Stores, Serve(r) PROVE phase' = phase /\ UNCHANGED allocated
    BY <2>1 DEF Serve
  <2>2. ASSUME NEW v, Served(v) PROVE phase' = phase /\ UNCHANGED allocated
    BY <2>2 DEF Served
  <2>3. ASSUME NEW v, NEW d, Offer(v, d) PROVE phase' = phase /\ UNCHANGED allocated
    BY <2>3 DEF Offer
  <2>4. CASE UNCHANGED stockVars
    BY <2>4 DEF stockVars
  <2> QED BY <2>1, <2>2, <2>3, <2>4 DEF StockNext
<1> QED BY <1>5, <1>6, <1>7, <1>8

\* The stock is shared out evenly, whatever the stores are like (RationedEvenly).
THEOREM StockIsSharedEvenly == StockSpec => []RationedEvenly
<1>1. ShareInv => RationedEvenly
  BY DEF ShareInv, SharePhases, RationedEvenly, Even
<1> QED BY InitShare, NextShare, <1>1, PTL DEF StockSpec

-----------------------------------------------------------------------------
(* Replenishment: what donors give to receivers *)

Gives(m, d) == SumFunctionOnSet([r \in Stores |-> m[<<d, r>>]], Stores)
Gets(m, r)  == SumFunctionOnSet([d \in Stores |-> m[<<d, r>>]], Stores)

MatchType ==
  /\ ShareType
  /\ allocated \in [Stores -> Nat] /\ excess \in [Stores -> Nat]
  /\ moved \in [Stores \X Stores -> Nat]
  /\ todo \in SUBSET Stores
  /\ \/ serving = {}
     \/ \E v \in [to : Stores, deficit : Nat, order : [Stores -> Nat], donors : SUBSET Stores] :
          serving = {v}

\* Before the sites are found nothing moves.
NotYetMoved ==
  phase # "match" =>
    /\ phase \in {"allocate", "drop"}
    /\ moved = [p \in Stores \X Stores |-> 0] /\ serving = {} /\ todo = {}

\* What the sites were found by stays true: small quantities are gone for good, what a donor
\* can give still and what it has given are its excess, and only receivers get anything.
SitesStand ==
  phase = "match" =>
    /\ \A s \in Stores : allocated[s] = Kept(s)
    /\ \A d \in Stores : excess[d] + Gives(moved, d) = Excess(d)
    /\ \A d, r \in Stores : moved[<<d, r>>] > 0 => Receives(r)
    /\ \A r \in Stores : Receives(r) => Gets(moved, r) <= Deficit(r)

\* Who waits got nothing yet; who is served got what its deficit fell by, and nothing
\* from the donors it has not asked.
ServedOnce ==
  phase = "match" =>
    /\ \A r \in todo : Receives(r) /\ \A d \in Stores : moved[<<d, r>>] = 0
    /\ \A v \in serving :
         /\ Receives(v.to) /\ v.to \notin todo
         /\ v.deficit + Gets(moved, v.to) = Deficit(v.to)
         /\ \A d \in v.donors : moved[<<d, v.to>>] = 0

MatchInv == MatchType /\ NotYetMoved /\ SitesStand /\ ServedOnce

\* Nothing moved is a sum of zeros, and a sum above 0 has something in it.
LEMMA SumZero ==
  ASSUME NEW f, NEW S, IsFiniteSet(S), \A x \in S : f[x] \in Nat
  PROVE  /\ (\A x \in S : f[x] = 0) => SumFunctionOnSet(f, S) = 0
         /\ SumFunctionOnSet(f, S) > 0 => \E x \in S : f[x] > 0
<1>1. ASSUME \A x \in S : f[x] = 0 PROVE SumFunctionOnSet(f, S) = 0
  <2>1. SumFunctionOnSet(f, S) = SumFunctionOnSet(f, {})
    BY <1>1, SumWhere
  <2> QED BY <2>1, SumEmpty
<1> QED BY <1>1

\* What all donors give to one, and one to all, is a number, none if nothing moves.
LEMMA MovesAdd ==
  ASSUME NEW m \in [Stores \X Stores -> Nat], NEW s \in Stores
  PROVE  /\ Gives(m, s) \in Nat /\ Gets(m, s) \in Nat
         /\ (\A r \in Stores : m[<<s, r>>] = 0) => Gives(m, s) = 0
         /\ (\A d \in Stores : m[<<d, s>>] = 0) => Gets(m, s) = 0
         /\ Gets(m, s) > 0 => \E d \in Stores : m[<<d, s>>] > 0
<1> DEFINE out == [r \in Stores |-> m[<<s, r>>]]
           into == [d \in Stores |-> m[<<d, s>>]]
<1>1. \A x \in Stores : out[x] \in Nat /\ into[x] \in Nat
  OBVIOUS
<1>2. Gives(m, s) = SumFunctionOnSet(out, Stores) /\ Gets(m, s) = SumFunctionOnSet(into, Stores)
  BY DEF Gives, Gets
<1>3. \A x \in Stores : out[x] = m[<<s, x>>] /\ into[x] = m[<<x, s>>]
  OBVIOUS
<1> HIDE DEF out, into
<1>4. SumFunctionOnSet(out, Stores) \in Nat /\ SumFunctionOnSet(into, Stores) \in Nat
  BY <1>1, StockAssumption, SumNat
<1>5. (\A x \in Stores : out[x] = 0) => SumFunctionOnSet(out, Stores) = 0
  BY <1>1, StockAssumption, SumZero
<1>6. /\ (\A x \in Stores : into[x] = 0) => SumFunctionOnSet(into, Stores) = 0
      /\ SumFunctionOnSet(into, Stores) > 0 => \E x \in Stores : into[x] > 0
  BY <1>1, StockAssumption, SumZero
<1> QED BY <1>2, <1>3, <1>4, <1>5, <1>6

Moves == [Stores \X Stores -> Nat]

\* new is m with a transfer of u that was not there.
OneMove(m, d, r, u, new) ==
  /\ m \in Moves /\ new \in Moves /\ d \in Stores /\ r \in Stores /\ u \in Nat
  /\ m[<<d, r>>] = 0 /\ new[<<d, r>>] = u
  /\ \A p \in Stores \X Stores : p # <<d, r>> => new[p] = m[p]

\* A transfer that was not there adds to what its donor gives and its receiver gets, and
\* to nothing else.
LEMMA MoveAdds ==
  ASSUME NEW m, NEW d, NEW r, NEW u, NEW new, OneMove(m, d, r, u, new)
  PROVE  /\ Gives(new, d) = Gives(m, d) + u /\ Gets(new, r) = Gets(m, r) + u
         /\ \A x \in Stores \ {d} : Gives(new, x) = Gives(m, x)
         /\ \A x \in Stores \ {r} : Gets(new, x) = Gets(m, x)
<1>1. /\ m \in [Stores \X Stores -> Nat] /\ new \in [Stores \X Stores -> Nat]
      /\ d \in Stores /\ r \in Stores /\ u \in Nat
  BY DEF OneMove, Moves
<1>2. Gives(new, d) = Gives(m, d) + u
  <2> DEFINE f == [x \in Stores |-> m[<<d, x>>]]
             g == [x \in Stores |-> new[<<d, x>>]]
  <2>1. /\ \A y \in Stores : f[y] \in Int /\ g[y] \in Int
        /\ \A y \in Stores \ {r} : g[y] = f[y]
        /\ g[r] = u /\ f[r] = 0
    BY <1>1 DEF OneMove
  <2>2. Gives(new, d) = SumFunctionOnSet(g, Stores) /\ Gives(m, d) = SumFunctionOnSet(f, Stores)
    BY DEF Gives
  <2> HIDE DEF f, g
  <2>3. SumFunctionOnSet(g, Stores) = SumFunctionOnSet(f, Stores) + (g[r] - f[r])
    <3>1. PICK x \in Stores : x = r
      BY <1>1
    <3>2. \A y \in Stores \ {x} : g[y] = f[y]
      BY <2>1, <3>1
    <3>3. SumFunctionOnSet(g, Stores) = SumFunctionOnSet(f, Stores) + (g[x] - f[x])
      BY <2>1, <3>2, StockAssumption, SumChange
    <3> QED BY <3>1, <3>3, Zenon
  <2> QED BY <2>1, <2>2, <2>3, <1>1
<1>3. Gets(new, r) = Gets(m, r) + u
  <2> DEFINE f == [x \in Stores |-> m[<<x, r>>]]
             g == [x \in Stores |-> new[<<x, r>>]]
  <2>1. /\ \A y \in Stores : f[y] \in Int /\ g[y] \in Int
        /\ \A y \in Stores \ {d} : g[y] = f[y]
        /\ g[d] = u /\ f[d] = 0
    BY <1>1 DEF OneMove
  <2>2. Gets(new, r) = SumFunctionOnSet(g, Stores) /\ Gets(m, r) = SumFunctionOnSet(f, Stores)
    BY DEF Gets
  <2> HIDE DEF f, g
  <2>3. SumFunctionOnSet(g, Stores) = SumFunctionOnSet(f, Stores) + (g[d] - f[d])
    <3>1. PICK x \in Stores : x = d
      BY <1>1
    <3>2. \A y \in Stores \ {x} : g[y] = f[y]
      BY <2>1, <3>1
    <3>3. SumFunctionOnSet(g, Stores) = SumFunctionOnSet(f, Stores) + (g[x] - f[x])
      BY <2>1, <3>2, StockAssumption, SumChange
    <3> QED BY <3>1, <3>3, Zenon
  <2> QED BY <2>1, <2>2, <2>3, <1>1
<1>4. ASSUME NEW x \in Stores \ {d} PROVE Gives(new, x) = Gives(m, x)
  <2>1. [y \in Stores |-> new[<<x, y>>]] = [y \in Stores |-> m[<<x, y>>]]
    BY <1>1 DEF OneMove
  <2> QED BY <2>1, Zenon DEF Gives
<1>5. ASSUME NEW x \in Stores \ {r} PROVE Gets(new, x) = Gets(m, x)
  <2>1. [y \in Stores |-> new[<<y, x>>]] = [y \in Stores |-> m[<<y, x>>]]
    BY <1>1 DEF OneMove
  <2> QED BY <2>1, Zenon DEF Gets
<1> QED BY <1>2, <1>3, <1>4, <1>5

\* What a site has too much of or lacks is a number.
LEMMA SiteUnits ==
  ASSUME MatchType, NEW s \in Stores
  PROVE  /\ Kept(s) \in Nat /\ Excess(s) \in Nat /\ Deficit(s) \in Int
         /\ Receives(s) => Deficit(s) \in Nat /\ Excess(s) = 0
         /\ Excess(s) > 0 => /\ store[s].fresh /\ Kept(s) = 0 /\ ~ Receives(s)
                             /\ Excess(s) = Position(s) - P90(s)
<1>1. ShareType
  BY DEF MatchType
<1>2. Kept(s) \in Nat
  BY DEF MatchType, Kept
<1>3. Position(s) \in Nat /\ P90(s) \in Nat /\ P50(s) \in Nat
  BY <1>1, StoreUnits
<1>4. Excess(s) \in Nat
  BY <1>3 DEF Excess
<1>5. Deficit(s) \in Int
  BY <1>2, <1>3 DEF Deficit
<1>6. Receives(s) => Deficit(s) \in Nat /\ Excess(s) = 0
  BY <1>5 DEF Receives, Excess
<1>7. Excess(s) > 0 => /\ store[s].fresh /\ Kept(s) = 0 /\ ~ Receives(s)
                       /\ Excess(s) = Position(s) - P90(s)
  BY DEF Excess
<1> QED BY <1>2, <1>4, <1>5, <1>6, <1>7

\* The sites are judged alike before and after a step that keeps the quantities.
LEMMA SameSites ==
  ASSUME UNCHANGED <<store, supply, moq>>, \A s \in Stores : Kept(s)' = Kept(s)
  PROVE  \A s \in Stores : /\ Deficit(s)' = Deficit(s) /\ Receives(s)' = Receives(s)
                           /\ Excess(s)' = Excess(s)
<1> SUFFICES ASSUME NEW s \in Stores
             PROVE  /\ Deficit(s)' = Deficit(s) /\ Receives(s)' = Receives(s)
                    /\ Excess(s)' = Excess(s)
  OBVIOUS
<1>1. P50(s)' = P50(s) /\ P90(s)' = P90(s) /\ Position(s)' = Position(s) /\ Rate(s)' = Rate(s)
  BY DEF P50, P90, Position, Rate, Window
<1>2. Deficit(s)' = Deficit(s)
  BY <1>1 DEF Deficit
<1>3. Receives(s)' = Receives(s)
  BY <1>1, <1>2 DEF Receives
<1> QED BY <1>1, <1>2, <1>3 DEF Excess

\* Nothing is moved at first.
LEMMA InitMatch == StockInit => MatchInv
  BY StockAssumption
  DEF StockInit, MatchInv, MatchType, ShareType, NotYetMoved, SitesStand, ServedOnce

\* Sharing the stock moves nothing.
LEMMA AllocateMatch == ASSUME MatchInv, SharePhases, Allocate PROVE MatchInv'
<1>1. ShareInv /\ StockNext
  BY DEF MatchInv, MatchType, ShareInv, StockNext
<1>2. ShareInv' /\ phase' = "drop"
  BY <1>1, NextShare DEF Allocate
<1> QED BY <1>2
        DEF ShareInv, SharePhases, Allocate, MatchInv, MatchType, NotYetMoved, SitesStand, ServedOnce

\* The sites are found by the quantities that are left.
LEMMA FindSitesMatch == ASSUME MatchInv, SharePhases, FindSites PROVE MatchInv'
<1>1. UNCHANGED <<store, supply, moq, serving, moved>> /\ ShareType'
  BY DEF FindSites, MatchInv, MatchType, ShareType
<1>2. \A s \in Stores : Kept(s) \in Nat /\ Excess(s) \in Nat /\ (Receives(s) => Deficit(s) \in Nat)
  BY SiteUnits DEF MatchInv
<1>3. ASSUME NEW s \in Stores PROVE Kept(s)' = Kept(s) /\ allocated'[s] = Kept(s)
  <2>1. allocated'[s] = Kept(s)
    BY DEF FindSites
  <2> QED BY <2>1 DEF Kept
<1>4. \A s \in Stores : /\ Deficit(s)' = Deficit(s) /\ Receives(s)' = Receives(s)
                        /\ Excess(s)' = Excess(s)
  BY <1>1, <1>3, SameSites
<1>5. moved \in [Stores \X Stores -> Nat] /\ \A p \in Stores \X Stores : moved[p] = 0
  BY DEF MatchInv, MatchType, NotYetMoved, FindSites
<1>6. \A s \in Stores : Gives(moved, s) = 0 /\ Gets(moved, s) = 0
  BY <1>5, MovesAdd
<1>7. \A s \in Stores : Gives(moved, s)' = 0 /\ Gets(moved, s)' = 0
  BY <1>1, <1>6 DEF Gives, Gets
<1>8. MatchType'
  BY <1>1, <1>2 DEF FindSites, MatchInv, MatchType
<1>9. NotYetMoved'
  BY DEF FindSites, NotYetMoved
<1>10. SitesStand'
  <2>1. \A d \in Stores : excess'[d] = Excess(d)
    BY DEF FindSites
  <2>2. \A d \in Stores : (excess[d] + Gives(moved, d) = Excess(d))'
    BY <1>2, <1>4, <1>7, <2>1
  <2>3. \A r \in Stores : (Receives(r) => Gets(moved, r) <= Deficit(r))'
    BY <1>2, <1>4, <1>7
  <2>4. \A d, r \in Stores : moved'[<<d, r>>] = 0
    BY <1>1, <1>5
  <2>5. \A d, r \in Stores : (moved[<<d, r>>] > 0 => Receives(r))'
    BY <2>4
  <2>6. \A s \in Stores : (allocated[s] = Kept(s))'
    BY <1>3
  <2> QED BY <2>2, <2>3, <2>5, <2>6 DEF SitesStand
<1>11. ServedOnce'
  BY <1>1, <1>4, <1>5 DEF FindSites, ServedOnce, MatchInv, NotYetMoved
<1> QED BY <1>8, <1>9, <1>10, <1>11 DEF MatchInv

\* While sites are matched they are judged as they were found.
LEMMA MatchKeeps ==
  ASSUME MatchInv, phase = "match", UNCHANGED <<store, supply, moq, phase, allocated>>
  PROVE  /\ ShareType' /\ NotYetMoved'
         /\ \A s \in Stores : /\ Kept(s)' = Kept(s) /\ Deficit(s)' = Deficit(s)
                              /\ Receives(s)' = Receives(s) /\ Excess(s)' = Excess(s)
<1>1. \A s \in Stores : Kept(s)' = Kept(s)
  BY DEF Kept
<1> QED BY <1>1, SameSites DEF MatchInv, MatchType, ShareType, NotYetMoved

\* The receiver that is served next has got nothing.
LEMMA ServeMatch == ASSUME MatchInv, NEW r \in Stores, Serve(r) PROVE MatchInv'
<1>1. /\ phase = "match" /\ serving = {} /\ r \in todo
      /\ UNCHANGED <<store, supply, moq, phase, allocated, excess, moved>>
      /\ todo' = todo \ {r}
  BY DEF Serve
<1>2. /\ ShareType' /\ NotYetMoved'
      /\ \A s \in Stores : /\ Kept(s)' = Kept(s) /\ Deficit(s)' = Deficit(s)
                           /\ Receives(s)' = Receives(s) /\ Excess(s)' = Excess(s)
  BY <1>1, MatchKeeps
<1>3. PICK v : /\ serving' = {v}
               /\ v = [to |-> r, deficit |-> P50(r) - (Position(r) + allocated[r]),
                       order |-> excess, donors |-> {d \in Stores : Excess(d) > 0}]
  BY DEF Serve
<1>4. Receives(r) /\ \A d \in Stores : moved[<<d, r>>] = 0
  BY <1>1 DEF MatchInv, ServedOnce
<1>5. v.deficit = Deficit(r) /\ Deficit(r) \in Nat
  <2>1. allocated[r] = Kept(r)
    BY <1>1 DEF MatchInv, SitesStand
  <2> QED BY <1>3, <1>4, <2>1, SiteUnits DEF Deficit, MatchInv
<1>6. v \in [to : Stores, deficit : Nat, order : [Stores -> Nat], donors : SUBSET Stores]
  BY <1>3, <1>5 DEF MatchInv, MatchType
<1>7. v.to = r /\ v.donors \subseteq Stores
  BY <1>3
<1>8. MatchType'
  BY <1>1, <1>2, <1>3, <1>6 DEF MatchInv, MatchType
<1>9. Gets(moved, r) = 0
  BY <1>4, MovesAdd DEF MatchInv, MatchType
<1>10. \A s \in Stores : Gives(moved, s)' = Gives(moved, s) /\ Gets(moved, s)' = Gets(moved, s)
  BY <1>1 DEF Gives, Gets
<1>11. SitesStand'
  BY <1>1, <1>2, <1>10 DEF MatchInv, SitesStand
<1>12. ServedOnce'
  <2>1. ASSUME NEW o \in todo' PROVE Receives(o)' /\ \A d \in Stores : moved'[<<d, o>>] = 0
    <3>1. o \in todo /\ o \in Stores
      BY <1>1 DEF MatchInv, MatchType
    <3>2. Receives(o) /\ \A d \in Stores : moved[<<d, o>>] = 0
      BY <1>1, <3>1 DEF MatchInv, ServedOnce
    <3> QED BY <1>1, <1>2, <3>1, <3>2
  <2>2. (v.deficit + Gets(moved, v.to) = Deficit(v.to))'
    BY <1>2, <1>5, <1>7, <1>9, <1>10
  <2>3. \A d \in v.donors : moved'[<<d, v.to>>] = 0
    BY <1>1, <1>4, <1>7
  <2>4. Receives(v.to)' /\ v.to \notin todo'
    BY <1>1, <1>2, <1>4, <1>7
  <2> QED BY <1>3, <2>1, <2>2, <2>3, <2>4 DEF ServedOnce
<1> QED BY <1>2, <1>8, <1>11, <1>12 DEF MatchInv

\* A receiver that was served is left as it is.
LEMMA ServedMatch == ASSUME MatchInv, NEW v \in serving, Served(v) PROVE MatchInv'
<1>1. /\ phase = "match"
      /\ UNCHANGED <<store, supply, moq, phase, allocated, excess, todo, moved>> /\ serving' = {}
  BY DEF Served, MatchInv, NotYetMoved
<1>2. /\ ShareType' /\ NotYetMoved'
      /\ \A s \in Stores : /\ Kept(s)' = Kept(s) /\ Deficit(s)' = Deficit(s)
                           /\ Receives(s)' = Receives(s) /\ Excess(s)' = Excess(s)
  BY <1>1, MatchKeeps
<1>3. \A s \in Stores : Gives(moved, s)' = Gives(moved, s) /\ Gets(moved, s)' = Gets(moved, s)
  BY <1>1 DEF Gives, Gets
<1>4. MatchType'
  BY <1>1, <1>2 DEF MatchInv, MatchType
<1>5. SitesStand'
  BY <1>1, <1>2, <1>3 DEF MatchInv, SitesStand
<1>6. ServedOnce'
  BY <1>1, <1>2 DEF MatchInv, ServedOnce, MatchType
<1> QED BY <1>2, <1>4, <1>5, <1>6 DEF MatchInv

\* What a donor gives is taken from what it can give still and from the deficit.
LEMMA OfferMatch == ASSUME MatchInv, NEW v \in serving, NEW d \in Stores, Offer(v, d) PROVE MatchInv'
<1> DEFINE w == Min({v.deficit, excess[d]})
           units == Packs(w)
           enough == units >= 1 /\ units >= MinTransfer
           left == [v EXCEPT !.donors = @ \ {d}, !.deficit = IF enough THEN @ - units ELSE @]
<1>1. /\ phase = "match" /\ UNCHANGED <<store, supply, moq, phase, allocated, todo>>
      /\ d \in v.donors /\ serving' = {left}
  BY DEF Offer, MatchInv, NotYetMoved
<1>2. /\ ShareType' /\ NotYetMoved'
      /\ \A s \in Stores : /\ Kept(s)' = Kept(s) /\ Deficit(s)' = Deficit(s)
                           /\ Receives(s)' = Receives(s) /\ Excess(s)' = Excess(s)
  BY <1>1, MatchKeeps
<1>3. v \in [to : Stores, deficit : Nat, order : [Stores -> Nat], donors : SUBSET Stores]
  BY DEF MatchInv, MatchType
<1>4. /\ Receives(v.to) /\ v.to \notin todo /\ v.deficit + Gets(moved, v.to) = Deficit(v.to)
      /\ \A o \in v.donors : moved[<<o, v.to>>] = 0
  BY <1>1 DEF MatchInv, ServedOnce
<1>5. moved \in [Stores \X Stores -> Nat] /\ excess \in [Stores -> Nat]
  BY DEF MatchInv, MatchType
<1>6. units \in Nat /\ units <= v.deficit /\ units <= excess[d]
  <2>1. PICK a \in Nat : a = v.deficit
    BY <1>3
  <2>2. PICK b \in Nat : b = excess[d]
    BY <1>5
  <2>3. a \in Int /\ b \in Int
    OBVIOUS
  <2>4. /\ Min({a, b}) \in Int /\ Min({a, b}) <= a /\ Min({a, b}) <= b /\ Min({a, b}) \in {a, b}
    BY <2>3, MinOfTwo
  <2>5. PICK x \in Nat : x = w
    BY <2>1, <2>2, <2>4
  <2>6. PICK m \in Nat \ {0} : m = moq
    BY DEF MatchInv, MatchType, ShareType
  <2>7. (x \div m) * m \in Nat /\ (x \div m) * m <= x
    BY WholePacks
  <2>8. units = (x \div m) * m
    BY <2>5, <2>6 DEF Packs
  <2>9. x <= a /\ x <= b
    BY <2>1, <2>2, <2>4, <2>5
  <2> QED BY <2>1, <2>2, <2>7, <2>8, <2>9
<1>7. PICK u \in Nat : /\ moved' = [moved EXCEPT ![<<d, v.to>>] = u]
                       /\ excess' = [excess EXCEPT ![d] = @ - u]
                       /\ u <= v.deficit /\ u <= excess[d]
                       /\ left = [v EXCEPT !.donors = @ \ {d}, !.deficit = @ - u]
  <2>1. CASE enough
    <3>1. moved' = [moved EXCEPT ![<<d, v.to>>] = units] /\ excess' = [excess EXCEPT ![d] = @ - units]
      BY <2>1 DEF Offer, TakeFrom
    <3> HIDE DEF units
    <3>2. left = [v EXCEPT !.donors = @ \ {d}, !.deficit = @ - units]
      BY <2>1, <1>3
    <3> QED BY <1>6, <3>1, <3>2
  <2>2. CASE ~ enough
    <3>1. moved' = moved /\ excess' = excess
      BY <2>2 DEF Offer
    <3>2. moved[<<d, v.to>>] = 0 /\ excess[d] - 0 = excess[d] /\ v.deficit - 0 = v.deficit
      BY <1>1, <1>3, <1>4, <1>5
    <3>3. moved = [moved EXCEPT ![<<d, v.to>>] = 0] /\ excess = [excess EXCEPT ![d] = @ - 0]
      BY <1>3, <1>5, <3>2
    <3>4. left = [v EXCEPT !.donors = @ \ {d}, !.deficit = @ - 0]
      <4> HIDE DEF enough
      <4> QED BY <2>2, <1>3, <3>2
    <3>5. 0 <= v.deficit /\ 0 <= excess[d]
      BY <1>3, <1>5
    <3> QED BY <3>1, <3>3, <3>4, <3>5
  <2> QED BY <2>1, <2>2
<1> HIDE DEF left
<1>8. PICK rest : /\ serving' = {rest} /\ rest = [v EXCEPT !.donors = @ \ {d}, !.deficit = @ - u]
  BY <1>1, <1>7
<1>9. rest.to = v.to /\ rest.deficit = v.deficit - u /\ rest.donors = v.donors \ {d}
  BY <1>3, <1>8
<1>10. rest \in [to : Stores, deficit : Nat, order : [Stores -> Nat], donors : SUBSET Stores]
  <2>1. v.deficit - u \in Nat /\ v.donors \ {d} \in SUBSET Stores
    BY <1>3, <1>7
  <2> QED BY <1>3, <1>8, <2>1
<1>11. excess' \in [Stores -> Nat]
  BY <1>5, <1>7
<1>12. moved[<<d, v.to>>] = 0 /\ v.to \in Stores
  BY <1>1, <1>3, <1>4
<1>13. PICK to \in Stores : to = v.to
  BY <1>12
<1>14. /\ moved' \in [Stores \X Stores -> Nat]
       /\ Gives(moved', d) = Gives(moved, d) + u /\ Gets(moved', to) = Gets(moved, to) + u
       /\ \A x \in Stores \ {d} : Gives(moved', x) = Gives(moved, x)
       /\ \A x \in Stores \ {to} : Gets(moved', x) = Gets(moved, x)
  <2>1. PICK m \in [Stores \X Stores -> Nat] : m = moved
    BY <1>5
  <2>2. PICK new \in [Stores \X Stores -> Nat] : new = moved'
    BY <1>5, <1>7
  <2>3. OneMove(m, d, to, u, new)
    BY <1>7, <1>12, <1>13, <2>1, <2>2 DEF OneMove, Moves
  <2>4. /\ Gives(new, d) = Gives(m, d) + u /\ Gets(new, to) = Gets(m, to) + u
        /\ \A x \in Stores \ {d} : Gives(new, x) = Gives(m, x)
        /\ \A x \in Stores \ {to} : Gets(new, x) = Gets(m, x)
    BY <2>3, MoveAdds
  <2> QED BY <2>1, <2>2, <2>4
<1>15. \A s \in Stores : /\ Gives(moved, s)' = Gives(moved', s) /\ Gets(moved, s)' = Gets(moved', s)
                         /\ Gives(moved, s) \in Nat /\ Gets(moved, s) \in Nat
  <2>1. \A s \in Stores : Gives(moved, s)' = Gives(moved', s) /\ Gets(moved, s)' = Gets(moved', s)
    OBVIOUS
  <2> QED BY <1>5, <2>1, MovesAdd
<1>16. MatchType'
  BY <1>1, <1>2, <1>8, <1>10, <1>11, <1>14 DEF MatchInv, MatchType
<1>17. SitesStand'
  <2>1. \A s \in Stores : (allocated[s] = Kept(s))'
    BY <1>1, <1>2 DEF MatchInv, SitesStand
  <2>2. ASSUME NEW s \in Stores PROVE (excess[s] + Gives(moved, s) = Excess(s))'
    <3>1. excess[s] + Gives(moved, s) = Excess(s) /\ excess[s] \in Nat /\ Gives(moved, s) \in Nat
      BY <1>1, <1>5, <1>15 DEF MatchInv, SitesStand
    <3>2. excess'[s] + Gives(moved', s) = Excess(s)
      <4>1. CASE s = d
        <5>1. excess'[d] = excess[d] - u
          BY <1>5, <1>7
        <5> QED BY <1>14, <3>1, <4>1, <5>1
      <4>2. CASE s # d
        <5>1. excess'[s] = excess[s] /\ Gives(moved', s) = Gives(moved, s)
          BY <1>5, <1>7, <1>14, <4>2
        <5> QED BY <3>1, <5>1
      <4> QED BY <4>1, <4>2
    <3> QED BY <1>2, <1>15, <3>2
  <2>3. ASSUME NEW o \in Stores, NEW r \in Stores PROVE (moved[<<o, r>>] > 0 => Receives(r))'
    <3>1. moved[<<o, r>>] > 0 => Receives(r)
      BY <1>1 DEF MatchInv, SitesStand
    <3>2. moved'[<<o, r>>] = moved[<<o, r>>] \/ r = v.to
      BY <1>5, <1>7
    <3> QED BY <1>2, <1>4, <3>1, <3>2
  <2>4. ASSUME NEW r \in Stores PROVE (Receives(r) => Gets(moved, r) <= Deficit(r))'
    <3>1. Receives(r) => Gets(moved, r) <= Deficit(r)
      BY <1>1 DEF MatchInv, SitesStand
    <3>2. CASE r = to
      <4>1. Gets(moved', to) <= Deficit(to)
        <5>1. v.deficit \in Nat /\ Gets(moved, to) \in Nat /\ v.deficit + Gets(moved, to) = Deficit(to)
          BY <1>3, <1>4, <1>13, <1>15
        <5>2. PICK a \in Nat : a = v.deficit
          BY <5>1
        <5>3. PICK b \in Nat : b = Gets(moved, to)
          BY <5>1
        <5>4. Gets(moved', to) = b + u
          BY <1>14, <5>3
        <5>5. u <= a /\ Deficit(to) = a + b
          BY <1>7, <5>1, <5>2, <5>3
        <5> QED BY <5>4, <5>5
      <4> QED BY <1>2, <1>15, <3>2, <4>1
    <3>3. CASE r # to
      BY <1>2, <1>14, <1>15, <3>1, <3>3
    <3> QED BY <3>2, <3>3
  <2> QED BY <2>1, <2>2, <2>3, <2>4 DEF SitesStand
<1>18. ServedOnce'
  <2>1. ASSUME NEW r \in todo' PROVE Receives(r)' /\ \A o \in Stores : moved'[<<o, r>>] = 0
    <3>1. r \in todo /\ r # v.to /\ r \in Stores
      BY <1>1, <1>4 DEF MatchInv, MatchType
    <3>2. Receives(r) /\ \A o \in Stores : moved[<<o, r>>] = 0
      BY <1>1, <3>1 DEF MatchInv, ServedOnce
    <3> QED BY <1>2, <1>5, <1>7, <3>1, <3>2
  <2>2. rest.deficit + Gets(moved', to) = Deficit(to)
    <3>1. v.deficit \in Nat /\ Gets(moved, to) \in Nat
      BY <1>3, <1>15
    <3> QED BY <1>4, <1>9, <1>13, <1>14, <3>1
  <2>3. \A o \in rest.donors : moved'[<<o, to>>] = 0
    BY <1>3, <1>4, <1>5, <1>7, <1>9, <1>13
  <2>4. Receives(to)' /\ to \notin todo'
    BY <1>1, <1>2, <1>4, <1>13
  <2>5. (rest.deficit + Gets(moved, to) = Deficit(to))'
    BY <1>2, <1>15, <2>2
  <2>6. rest.to = to
    BY <1>9, <1>13
  <2> QED BY <1>8, <2>1, <2>3, <2>4, <2>5, <2>6 DEF ServedOnce
<1> QED BY <1>2, <1>16, <1>17, <1>18 DEF MatchInv

\* Every step keeps donors' and receivers' accounts.
LEMMA NextMatch == MatchInv /\ SharePhases /\ [StockNext]_stockVars => MatchInv'
<1> SUFFICES ASSUME MatchInv, SharePhases, [StockNext]_stockVars PROVE MatchInv'
  OBVIOUS
<1>1. CASE UNCHANGED stockVars
  <2>1. UNCHANGED <<store, supply, moq, phase, allocated, excess, todo, serving, moved>>
    BY <1>1 DEF stockVars
  <2>2. \A s \in Stores : Kept(s)' = Kept(s)
    BY <2>1 DEF Kept
  <2>3. \A s \in Stores : /\ Deficit(s)' = Deficit(s) /\ Receives(s)' = Receives(s)
                          /\ Excess(s)' = Excess(s)
    BY <2>1, <2>2, SameSites
  <2>4. \A s \in Stores : Gives(moved, s)' = Gives(moved, s) /\ Gets(moved, s)' = Gets(moved, s)
    BY <2>1 DEF Gives, Gets
  <2>5. MatchType' /\ NotYetMoved'
    BY <2>1 DEF MatchInv, MatchType, ShareType, NotYetMoved
  <2>6. SitesStand'
    BY <2>1, <2>2, <2>3, <2>4 DEF MatchInv, SitesStand
  <2>7. ServedOnce'
    <3>1. ASSUME phase = "match", NEW r \in todo
          PROVE  Receives(r)' /\ \A d \in Stores : moved'[<<d, r>>] = 0
      BY <2>1, <2>3, <3>1 DEF MatchInv, MatchType, ServedOnce
    <3>2. ASSUME phase = "match", NEW v \in serving
          PROVE  /\ Receives(v.to)' /\ v.to \notin todo'
                 /\ (v.deficit + Gets(moved, v.to) = Deficit(v.to))'
                 /\ \A d \in v.donors : moved'[<<d, v.to>>] = 0
      <4>1. v.to \in Stores
        BY DEF MatchInv, MatchType
      <4> QED BY <2>1, <2>3, <2>4, <3>2, <4>1 DEF MatchInv, ServedOnce
    <3> QED BY <2>1, <3>1, <3>2 DEF ServedOnce
  <2> QED BY <2>5, <2>6, <2>7 DEF MatchInv
<1>2. CASE StockNext
  BY <1>2, AllocateMatch, FindSitesMatch, ServeMatch, ServedMatch, OfferMatch DEF StockNext
<1> QED BY <1>1, <1>2

\* Donors keep their demand and nobody is sent more than it lacks, whatever the stores are
\* like and whichever pairs are matched (DonorsKeepTheirDemand).
THEOREM DonorsAreSafe == StockSpec => []DonorsKeepTheirDemand
<1>1. MatchInv => DonorsKeepTheirDemand
  <2> SUFFICES ASSUME MatchInv, NEW d \in Stores
               PROVE  /\ Gives(moved, d) > 0 =>
                           /\ store[d].fresh /\ Position(d) - Gives(moved, d) >= P90(d)
                           /\ allocated[d] + Gets(moved, d) = 0
                      /\ Gets(moved, d) > 0 =>
                           Position(d) + allocated[d] + Gets(moved, d) <= P50(d)
    BY DEF DonorsKeepTheirDemand, SumFunction, Gives, Gets
  <2>1. moved \in [Stores \X Stores -> Nat] /\ excess[d] \in Nat
    BY DEF MatchInv, MatchType
  <2>2. /\ Gives(moved, d) \in Nat /\ Gets(moved, d) \in Nat
        /\ Gets(moved, d) > 0 => \E o \in Stores : moved[<<o, d>>] > 0
    BY <2>1, MovesAdd
  <2>3. CASE phase # "match"
    <3>1. \A r \in Stores : moved[<<d, r>>] = 0 /\ moved[<<r, d>>] = 0
      BY <2>3 DEF MatchInv, NotYetMoved
    <3>2. Gives(moved, d) = 0 /\ Gets(moved, d) = 0
      BY <2>1, <3>1, MovesAdd
    <3> QED BY <3>2
  <2>4. CASE phase = "match"
    <3>1. /\ allocated[d] = Kept(d) /\ excess[d] + Gives(moved, d) = Excess(d)
          /\ \A o \in Stores : moved[<<o, d>>] > 0 => Receives(d)
          /\ Receives(d) => Gets(moved, d) <= Deficit(d)
      BY <2>4 DEF MatchInv, SitesStand
    <3>2. /\ Kept(d) \in Nat /\ Position(d) \in Nat /\ P90(d) \in Nat /\ P50(d) \in Nat
      BY SiteUnits, StoreUnits DEF MatchInv, MatchType
    <3>3. /\ Receives(d) => Excess(d) = 0
          /\ Excess(d) > 0 => /\ store[d].fresh /\ Kept(d) = 0 /\ ~ Receives(d)
                              /\ Excess(d) = Position(d) - P90(d)
      BY SiteUnits DEF MatchInv
    <3>4. Deficit(d) = P50(d) - (Position(d) + Kept(d))
      BY DEF Deficit
    <3>5. ASSUME Gives(moved, d) > 0
          PROVE  /\ store[d].fresh /\ Position(d) - Gives(moved, d) >= P90(d)
                 /\ allocated[d] + Gets(moved, d) = 0
      <4>1. Excess(d) > 0
        BY <2>1, <2>2, <3>1, <3>5
      <4>2. store[d].fresh /\ Kept(d) = 0 /\ ~ Receives(d) /\ Excess(d) = Position(d) - P90(d)
        BY <3>3, <4>1
      <4>3. Gets(moved, d) = 0
        <5>1. ~ (Gets(moved, d) > 0)
          BY <2>2, <3>1, <4>2, Zenon
        <5> QED BY <2>2, <5>1
      <4>4. Gives(moved, d) <= Position(d) - P90(d)
        BY <2>1, <2>2, <3>1, <4>2
      <4> QED BY <2>2, <3>1, <3>2, <4>2, <4>3, <4>4
    <3>6. ASSUME Gets(moved, d) > 0
          PROVE  Position(d) + allocated[d] + Gets(moved, d) <= P50(d)
      <4>1. Gets(moved, d) <= P50(d) - (Position(d) + Kept(d))
        BY <2>2, <3>1, <3>4, <3>6
      <4> QED BY <2>2, <3>1, <3>2, <4>1
    <3> QED BY <3>5, <3>6
  <2> QED BY <2>3, <2>4
<1> QED BY InitShare, NextShare, InitMatch, NextMatch, <1>1, PTL DEF StockSpec, ShareInv
===============================================================================
