---------------------------- MODULE Replenishment ----------------------------
(* One SKU across a warehouse and its stores: services/network_decisions.py first
   shares the warehouse's stock out (allocation.py), then matches stores that run out
   too soon with stores that have too much (transfers.py), pair by pair. Amounts are
   whole units; days of cover are counted in parts of a day so that the level at which
   the stock is used up is one of them. Ties go either way: they follow the order in
   which the stores were read.                                                 *)
EXTENDS Integers, FiniteSets, FiniteSetsExt

CONSTANTS Stores,
          Profiles,      \* what a store may be like: position, rate, lead, fresh, and the
                         \*   units its target and its p90 lie above the p50 of its window
          Supplies, PackSizes,
          Review,        \* review_period_days
          MinAllocation, MinTransfer,
          TransferLead,  \* transfer_lead_time_days
          Parts          \* parts of a day

ASSUME StockAssumption ==
  /\ IsFiniteSet(Stores)
  /\ Profiles \subseteq [position : Nat, rate : Nat, lead : Nat, fresh : BOOLEAN,
                          safety : Nat, spread : Nat]
  /\ Parts \in Nat \ {0} /\ Review \in Nat \ {0}
  /\ Supplies \subseteq Nat /\ PackSizes \subseteq Nat \ {0}

VARIABLES store,      \* store -> its profile
          supply, moq,
          phase,
          allocated,  \* what allocate gives, before the small quantities are dropped
          excess,     \* donor -> what it can give still
          todo,       \* receivers not yet served
          serving,    \* the receiver being served, its deficit and the donors left, or none
          moved       \* <<donor, receiver>> -> units

stockVars == <<store, supply, moq, phase, allocated, excess, todo, serving, moved>>

-----------------------------------------------------------------------------
(* Demand over a store's window: a target rises with the service level, and over several
   weeks their pooled spread is less than the sum that a p90 holds *)

Window(s)   == store[s].lead + Review
P50(s)      == store[s].rate * Window(s)
P90(s)      == P50(s) + store[s].spread
Target(s)   == P50(s) + store[s].safety
Position(s) == store[s].position
Rate(s)     == store[s].rate

\* A store without a forecast, or with stale stock, gets nothing from the warehouse.
Need(s) ==
  IF store[s].fresh /\ Target(s) > Position(s) THEN Target(s) - Position(s) ELSE 0
Needy == {s \in Stores : Need(s) > 0 /\ Rate(s) > 0}

StockInit ==
  /\ store \in [Stores -> Profiles]
  /\ supply \in Supplies /\ moq \in PackSizes
  /\ phase = "allocate"
  /\ allocated = [s \in Stores |-> 0]
  /\ excess = [s \in Stores |-> 0]
  /\ todo = {} /\ serving = {}
  /\ moved = [p \in Stores \X Stores |-> 0]

-----------------------------------------------------------------------------
(* allocate *)

Packs(units) == (units \div moq) * moq
RoundedUp(s) == Packs(Need(s) + moq - 1)

\* _fill, in parts of a unit, at a level of cover in parts of a day.
Fill(s, level) ==
  LET lift == level * Rate(s) - Parts * Position(s) IN
  IF lift < 0 THEN 0 ELSE IF lift < Parts * Need(s) THEN lift ELSE Parts * Need(s)

Filled(level) == SumFunction([s \in Needy |-> Fill(s, level)])

\* cover_level: the highest level of cover that the stock reaches.
CoverLevel ==
  LET top == Parts * Max({Target(s) : s \in Needy} \cup {1})
      bisect[r \in Nat \X Nat] ==
        LET mid == (r[1] + r[2]) \div 2 IN
        IF r[2] - r[1] <= 1 THEN r[1]
        ELSE IF Filled(mid) > Parts * supply THEN bisect[<<r[1], mid>>]
             ELSE bisect[<<mid, r[2]>>]
  IN bisect[<<0, top + 1>>]

Base(s, level) == ((Fill(s, level) \div Parts) \div moq) * moq
Rest(s, level) == Fill(s, level) - Parts * Base(s, level)

\* Mutant: the packs left are counted as if they were single units.
LeftoverUnits(level) == supply - SumFunction([s \in Needy |-> Base(s, level)])

Leftover(level) == (supply - SumFunction([s \in Needy |-> Base(s, level)])) \div moq

\* The packs left go to the largest remainders.
RoundUps(level) ==
  LET torn == {s \in Needy : Rest(s, level) > 0} IN
  {up \in SUBSET torn :
     /\ Cardinality(up) = Min({Cardinality(torn), Leftover(level)})
     /\ \A s \in up, t \in torn \ up : Rest(s, level) >= Rest(t, level)}

Enough == SumFunction([s \in Needy |-> RoundedUp(s)]) <= supply

Allocate ==
  /\ phase = "allocate" /\ phase' = "drop"
  /\ \/ /\ Enough
        /\ allocated' = [s \in Stores |-> IF s \in Needy THEN RoundedUp(s) ELSE 0]
     \/ /\ ~ Enough /\ supply > 0
        /\ LET level == CoverLevel IN \E up \in RoundUps(level) :
             allocated' = [s \in Stores |->
               IF s \notin Needy THEN 0
               ELSE Base(s, level) + (IF s \in up THEN moq ELSE 0)]
     \/ supply = 0 /\ ~ Enough /\ UNCHANGED allocated
  /\ UNCHANGED <<store, supply, moq, excess, todo, serving, moved>>

-----------------------------------------------------------------------------
(* match_transfers, which sees what allocate has left of the quantities *)

Kept(s) == IF allocated[s] >= MinAllocation THEN allocated[s] ELSE 0

Deficit(s) == P50(s) - (Position(s) + Kept(s))

Receives(s) ==
  /\ store[s].fresh /\ Rate(s) > 0
  /\ Deficit(s) > 0
  /\ Position(s) + Kept(s) < store[s].lead * Rate(s)
  /\ TransferLead < store[s].lead

\* Mutant: a store that stands above its p90 gives, also if it was allocated something.
ExcessOfAllocated(s) ==
  IF store[s].fresh /\ ~ Receives(s) /\ Position(s) > P90(s) THEN Position(s) - P90(s) ELSE 0

Excess(s) ==
  IF store[s].fresh /\ Kept(s) = 0 /\ ~ Receives(s) /\ Position(s) > P90(s)
  THEN Position(s) - P90(s) ELSE 0

FindSites ==
  /\ phase = "drop" /\ phase' = "match"
  /\ allocated' = [s \in Stores |-> Kept(s)]
  /\ excess' = [s \in Stores |-> Excess(s)]
  /\ todo' = {s \in Stores : Receives(s)}
  /\ UNCHANGED <<store, supply, moq, serving, moved>>

\* The receiver whose cover is shortest; the donors in the order of their excess then.
Serve(r) ==
  /\ phase = "match" /\ serving = {} /\ r \in todo
  /\ \A o \in todo : (Position(r) + allocated[r]) * Rate(o) <= (Position(o) + allocated[o]) * Rate(r)
  /\ todo' = todo \ {r}
  /\ serving' = {[to |-> r, deficit |-> P50(r) - (Position(r) + allocated[r]), order |-> excess,
                  donors |-> {d \in Stores : Excess(d) > 0}]}
  /\ UNCHANGED <<store, supply, moq, phase, allocated, excess, moved>>

TakeFrom(d, units) == [excess EXCEPT ![d] = @ - units]

\* One round of the inner loop: whole packs, not below the smallest transfer.
Offer(v, d) ==
  LET units  == Packs(Min({v.deficit, excess[d]}))
      enough == units >= 1 /\ units >= MinTransfer IN
  /\ v.deficit > 0 /\ d \in v.donors
  /\ \A o \in v.donors : v.order[o] <= v.order[d]
  /\ IF enough
     THEN /\ moved' = [moved EXCEPT ![<<d, v.to>>] = units]
          /\ excess' = TakeFrom(d, units)
     ELSE UNCHANGED <<moved, excess>>
  /\ serving' = {[v EXCEPT !.donors = @ \ {d}, !.deficit = IF enough THEN @ - units ELSE @]}
  /\ UNCHANGED <<store, supply, moq, phase, allocated, todo>>

Served(v) ==
  /\ v.deficit <= 0 \/ v.donors = {}
  /\ serving' = {}
  /\ UNCHANGED <<store, supply, moq, phase, allocated, excess, todo, moved>>

StockNext ==
  \/ Allocate \/ FindSites
  \/ \E r \in Stores : Serve(r)
  \/ \E v \in serving : Served(v) \/ \E d \in Stores : Offer(v, d)

StockSpec == StockInit /\ [][StockNext]_stockVars

-----------------------------------------------------------------------------
(* Properties *)

\* The stores are never promised more than the warehouse has, none gets a pack it does
\* not need, and where the stock does not reach none is two packs ahead, in days of
\* cover, of one that lacks a whole pack: "rationed by equal days of cover
\* (water-filling) so no store runs out first" (allocation.py).
RationedEvenly ==
  phase = "drop" =>
    /\ SumFunction(allocated) <= supply
    /\ \A s \in Stores : allocated[s] <= RoundedUp(s)
    /\ \A s, t \in Needy : allocated[s] > 0 /\ allocated[t] + moq <= Need(t) =>
         (Position(s) + allocated[s] - moq) * Rate(t) < (Position(t) + allocated[t] + moq) * Rate(s)

\* Whatever pairs are matched, a donor keeps its own p90 demand and receives nothing, and
\* nobody is sent more than it lacks (match_transfers: "Donors keep their own p90 demand
\* for the window, are fresh, and receive nothing this cycle").
DonorsKeepTheirDemand ==
  \A d \in Stores :
    LET gives == SumFunction([r \in Stores |-> moved[<<d, r>>]])
        gets  == SumFunction([r \in Stores |-> moved[<<r, d>>]]) IN
    /\ gives > 0 => /\ store[d].fresh /\ Position(d) - gives >= P90(d)
                    /\ allocated[d] + gets = 0
    /\ gets > 0 => Position(d) + allocated[d] + gets <= P50(d)
=============================================================================
