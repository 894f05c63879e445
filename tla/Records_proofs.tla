---------------------------- MODULE Records_proofs ----------------------------
(* Theorems about what is kept of subscriptions, of returns and of sales, for any number
   of subscriptions, events, uploads, returns, files and repairs.              *)
EXTENDS Billing, ReturnsLedger, SalesImport, Sums_proofs, SequenceTheorems

-----------------------------------------------------------------------------
(* Billing: what provider, events and row may be *)

AtProvider == {"none", "created", "authenticated", "active", "halted", "cancelled"}
RowStatus  == {"none", "incomplete", "trialing", "active", "past_due", "cancelled"}
Kinds      == {"status", "start", "payment", "failure", "end"}
Entities   == {"none", "authenticated", "active", "halted", "cancelled"}
Paids      == {"full", "short", "uncaptured", "unsaid"}
Payment == [sub : Subs, status : {"captured", "authorized"}, full : BOOLEAN]
Event   == [sub : Subs, id : 1..MaxEvents, ts : 1..MaxEvents, kind : Kinds,
            entity : Entities, paid : Paids]
Reading == [at : {"none", "read"}, status : RowStatus, ts : Nat]

BillType ==
  /\ provider \in [Subs -> AtProvider]
  /\ payments \in SUBSET Payment /\ events \in SUBSET Event
  /\ seen \in SUBSET Nat /\ opening \in SUBSET Subs
  /\ row \in [Subs -> [status : RowStatus, ts : Nat]]
  /\ handling \in [1..MaxEvents -> Reading]
  /\ verifying \in SUBSET [payment : payments, status : RowStatus]
  /\ excused \in SUBSET Subs

\* The provider moves a subscription once its row is there, which its creator commits.
Begun(s) == provider[s] \notin {"none", "created"}
Opened ==
  /\ \A s \in Subs : /\ s \in opening => provider[s] = "created" /\ row[s].status = "none"
                     /\ provider[s] = "none" => row[s].status = "none"
                     /\ Begun(s) => row[s].status # "none"
  /\ \A e \in events : Begun(e.sub)
  /\ \A p \in payments : Begun(p.sub)

\* Events are numbered, only what was emitted is handled or recorded, and a row bears the
\* time of an event of its own.
Emitted == Cardinality(events)
Held(e) == handling[e.id].at # "none"
Numbered ==
  /\ IsFiniteSet(events)
  /\ \A e \in events : e.id <= Emitted /\ \A f \in events : e.id = f.id => e = f
  /\ \A n \in seen : n <= Emitted
  /\ \A n \in 1..MaxEvents : handling[n].at # "none" => n <= Emitted
  /\ \A s \in Subs : row[s].ts # 0 => \E e \in events : e.sub = s /\ e.ts = row[s].ts

\* What is shown as active is vouched for, and what is or was shown as on trial has begun
\* one.
OnTrial(s) == \E e \in events : e.sub = s /\ e.entity = "authenticated"
Vouched(s) ==
  \/ \E e \in events : e.sub = s /\ Claims(e)
  \/ \E p \in payments : p.sub = s /\ p.status = "captured" /\ (p.full \/ OnTrial(s))
VouchedFor ==
  /\ \A s \in Subs : row[s].status = "active" => Vouched(s)
  /\ \A s \in Subs : row[s].status = "trialing" => OnTrial(s)
  /\ \A v \in verifying : v.status = "trialing" => OnTrial(v.payment.sub)

\* One handler at a time works for a subscription, with the row as it still is. What was
\* handled is no newer than the row, and if its second is the row's and it decides, then
\* the row stands where an event of that second or later puts it.
Ordered(s) ==
  /\ \A e, f \in events : e.sub = s /\ f.sub = s /\ Held(e) /\ Held(f) => e = f
  /\ \A e \in events : e.sub = s /\ Held(e) =>
       /\ handling[e.id].status = row[s].status /\ handling[e.id].ts = row[s].ts
       /\ e.ts >= row[s].ts
  /\ \A e \in events : e.sub = s /\ Handled(e) => row[s].ts >= e.ts
  /\ \A e \in events : e.sub = s /\ Handled(e) /\ Decides(e) /\ e.ts = row[s].ts =>
       \E f \in events : /\ f.sub = s /\ Decides(f) /\ f.ts >= row[s].ts
                         /\ \A x \in RowStatus : Resolved(f, x) = row[s].status

BillInv ==
  /\ BillType /\ Opened /\ Numbered /\ VouchedFor
  /\ \A s \in Subs \ excused : Ordered(s)
-----------------------------------------------------------------------------
(* The operators *)

\* What an event makes of a status (_apply_razorpay_status): active only if it claims so,
\* on trial only if its entity is authenticated.
LEMMA ResolvedStatus ==
  ASSUME NEW e \in Event, NEW x \in RowStatus
  PROVE  /\ Resolved(e, x) \in RowStatus
         /\ Resolved(e, x) = x \/ Resolved(e, x) # "none"
         /\ Resolved(e, x) = "active" => x = "active" \/ Claims(e)
         /\ Resolved(e, x) = "trialing" => x = "trialing" \/ e.entity = "authenticated"
BY DEF Event, Kinds, Entities, RowStatus, Resolved, Mapped, Claims

\* An event that decides makes the same of every status, and any other nothing.
LEMMA DecidesAlone ==
  ASSUME NEW e \in Event, NEW x \in RowStatus, NEW y \in RowStatus
  PROVE  IF Decides(e) THEN Resolved(e, x) = Resolved(e, y) ELSE Resolved(e, x) = x
BY DEF Event, Kinds, Entities, RowStatus, Resolved, Mapped, Decides

\* What vouches for a subscription stays.
LEMMA VouchersStay ==
  ASSUME events \in SUBSET events', payments \in SUBSET payments'
  PROVE  \A s \in Subs : (OnTrial(s) => OnTrial(s)') /\ (Vouched(s) => Vouched(s)')
<1>1. ASSUME NEW s \in Subs, OnTrial(s) PROVE OnTrial(s)'
  BY <1>1 DEF OnTrial
<1>2. ASSUME NEW s \in Subs, Vouched(s) PROVE Vouched(s)'
  BY <1>1, <1>2 DEF Vouched, Claims, Covers
<1> QED BY <1>1, <1>2

\* A subscription whose row, events and handlers stand still stays in order.
LEMMA OrderedElsewhere ==
  ASSUME NEW o \in Subs, Ordered(o), row'[o] = row[o], events \in SUBSET events',
         \A e \in events' : e.sub = o =>
           e \in events /\ handling'[e.id] = handling[e.id] /\ (e.id \in seen' <=> e.id \in seen)
  PROVE  Ordered(o)'
<1>1. \A e \in events' : e.sub = o => (Held(e)' <=> Held(e)) /\ (Handled(e)' <=> Handled(e))
  BY DEF Held, Handled
<1>2. \A e, f \in events' : e.sub = o /\ f.sub = o /\ Held(e)' /\ Held(f)' => e = f
  BY <1>1 DEF Ordered
<1>3. \A e \in events' : e.sub = o /\ Held(e)' =>
        /\ handling'[e.id].status = row'[o].status /\ handling'[e.id].ts = row'[o].ts
        /\ e.ts >= row'[o].ts
  BY <1>1 DEF Ordered
<1>4. \A e \in events' : e.sub = o /\ Handled(e)' => row'[o].ts >= e.ts
  BY <1>1 DEF Ordered
<1>5. ASSUME NEW e \in events', e.sub = o, Handled(e)', Decides(e), e.ts = row'[o].ts
      PROVE  \E f \in events' : /\ f.sub = o /\ Decides(f) /\ f.ts >= row'[o].ts
                                /\ \A x \in RowStatus : Resolved(f, x) = row'[o].status
  <2>1. e \in events /\ Handled(e)
    BY <1>1, <1>5
  <2>2. PICK f \in events : /\ f.sub = o /\ Decides(f) /\ f.ts >= row[o].ts
                            /\ \A x \in RowStatus : Resolved(f, x) = row[o].status
    BY <1>5, <2>1 DEF Ordered
  <2> QED BY <2>2
<1> QED BY <1>2, <1>3, <1>4, <1>5 DEF Ordered, Decides, Covers, Resolved

\* The next event: its number is new, and no event is later.
LEMMA NextEvent ==
  ASSUME BillInv, NEW s \in Subs, NEW kind \in Kinds, NEW entity \in Entities,
         NEW paid \in Paids, Emit(s, kind, entity, paid)
  PROVE  \E e \in Event :
           /\ e.sub = s /\ e.kind = kind /\ e.entity = entity /\ e.paid = paid
           /\ e \notin events /\ events' = events \cup {e} /\ e.id = Emitted + 1
           /\ \A f \in events : f.ts <= e.ts
           /\ Emitted \in Nat /\ Emitted' = Emitted + 1 /\ IsFiniteSet(events')
           /\ e.id \notin seen /\ handling[e.id].at = "none"
<1>1. PICK id \in 1..MaxEvents, ts \in 1..MaxEvents :
        /\ id = Emitted + 1 /\ Now(ts)
        /\ events' = events \cup {[sub |-> s, id |-> id, ts |-> ts,
                                   kind |-> kind, entity |-> entity, paid |-> paid]}
  BY DEF Emit, Emitted
<1>2. Emitted \in Nat
  BY FS_CardinalityType DEF BillInv, Numbered, Emitted
<1>3. PICK e \in Event : e = [sub |-> s, id |-> id, ts |-> ts,
                              kind |-> kind, entity |-> entity, paid |-> paid]
  BY DEF Event
<1>4. /\ e.sub = s /\ e.kind = kind /\ e.entity = entity /\ e.paid = paid
      /\ e.id = Emitted + 1 /\ e.ts = ts
  BY <1>1, <1>3
<1>5. events' = events \cup {e}
  BY <1>1, <1>3
<1>6. \A f \in events : f.ts <= e.ts
  BY <1>1, <1>4 DEF Now
<1>7. e \notin events /\ e.id \notin seen
  BY <1>2, <1>4 DEF BillInv, Numbered
<1>8. handling[e.id].at = "none"
  BY <1>1, <1>2, <1>4 DEF BillInv, Numbered
<1>9. IsFiniteSet(events') /\ Emitted' = Emitted + 1
  BY <1>5, <1>7, FS_AddElement DEF BillInv, Numbered, Emitted
<1> QED BY <1>2, <1>4, <1>5, <1>6, <1>7, <1>8, <1>9

-----------------------------------------------------------------------------
(* The provider moves *)

\* A new event of the provider, and what it changes there, keep the invariant.
LEMMA EmitStep ==
  ASSUME BillInv, NEW s \in Subs, NEW kind \in Kinds, NEW entity \in Entities,
         NEW paid \in Paids, Emit(s, kind, entity, paid),
         UNCHANGED <<seen, handling, verifying, opening>>, s \notin opening,
         NEW status \in AtProvider \ {"none", "created"},
         provider' = [provider EXCEPT ![s] = status],
         payments' \in SUBSET Payment, payments \in SUBSET payments',
         \A p \in payments' \ payments : p.sub = s,
         excused' \in SUBSET Subs, excused \in SUBSET excused',
         NEW shown \in RowStatus \ {"none"}, row' = [row EXCEPT ![s].status = shown],
         \/ shown = row[s].status
         \/ shown = "cancelled" /\ kind = "end" /\ (s \in excused' \/ ~ Busy(s))
  PROVE  BillInv'
<1>0. BillType /\ Opened /\ Numbered /\ VouchedFor
  BY DEF BillInv
<1>1. PICK e \in Event :
        /\ e.sub = s /\ e.kind = kind /\ e.entity = entity /\ e.paid = paid
        /\ e \notin events /\ events' = events \cup {e} /\ e.id = Emitted + 1
        /\ \A f \in events : f.ts <= e.ts
        /\ Emitted \in Nat /\ Emitted' = Emitted + 1 /\ IsFiniteSet(events')
        /\ e.id \notin seen /\ handling[e.id].at = "none"
  BY NextEvent
<1>2. /\ row[s] \in [status : RowStatus, ts : Nat]
      /\ \A f \in events : f \in Event /\ f.id \in Nat /\ f.ts \in Nat
      /\ e.ts \in Nat
  BY <1>0 DEF BillType, Event
<1>3. /\ row' \in [Subs -> [status : RowStatus, ts : Nat]]
      /\ row'[s].status = shown /\ row'[s].ts = row[s].ts
      /\ \A o \in Subs \ {s} : row'[o] = row[o]
  BY <1>0, <1>2 DEF BillType
<1>4. /\ provider' \in [Subs -> AtProvider] /\ provider'[s] = status
      /\ \A o \in Subs \ {s} : provider'[o] = provider[o]
  BY <1>0 DEF BillType
<1>5. BillType'
  BY <1>0, <1>1, <1>3, <1>4 DEF BillType
<1>6. Opened'
  <2>1. \A o \in Subs : /\ o \in opening' => provider'[o] = "created" /\ row'[o].status = "none"
                        /\ provider'[o] = "none" => row'[o].status = "none"
                        /\ provider'[o] \notin {"none", "created"} => row'[o].status # "none"
    BY <1>0, <1>3, <1>4 DEF Opened, Begun
  <2>2. \A o \in Subs : Begun(o) => Begun(o)'
    BY <1>4 DEF Begun
  <2>3. Begun(s)'
    BY <1>4 DEF Begun
  <2>4. \A f \in events' : Begun(f.sub)'
    BY <1>0, <1>1, <1>2, <2>2, <2>3 DEF Opened, Event
  <2>5. \A p \in payments' : Begun(p.sub)'
    BY <1>0, <2>2, <2>3 DEF Opened, Payment
  <2> QED BY <2>1, <2>4, <2>5 DEF Opened, Begun
<1>7. Numbered'
  <2>1. \A f \in events' : f.id <= Emitted'
    BY <1>0, <1>1, <1>2 DEF Numbered
  <2>2. \A f, g \in events' : f.id = g.id => f = g
    BY <1>0, <1>1, <1>2 DEF Numbered
  <2>3. \A n \in seen' : n <= Emitted'
    BY <1>0, <1>1 DEF Numbered, BillType
  <2>4. \A n \in 1..MaxEvents : handling'[n].at # "none" => n <= Emitted'
    BY <1>0, <1>1 DEF Numbered
  <2>5. \A o \in Subs : row'[o].ts # 0 => \E f \in events' : f.sub = o /\ f.ts = row'[o].ts
    BY <1>0, <1>1, <1>3 DEF Numbered
  <2> QED BY <1>1, <2>1, <2>2, <2>3, <2>4, <2>5 DEF Numbered
<1>8. VouchedFor'
  <2>1. \A o \in Subs : (OnTrial(o) => OnTrial(o)') /\ (Vouched(o) => Vouched(o)')
    BY <1>1, VouchersStay
  <2>2. \A o \in Subs : /\ row'[o].status = "active" => Vouched(o)'
                        /\ row'[o].status = "trialing" => OnTrial(o)'
    BY <1>0, <1>3, <2>1 DEF VouchedFor
  <2>3. \A v \in verifying' : v.status = "trialing" => OnTrial(v.payment.sub)'
    BY <1>0, <2>1 DEF VouchedFor, BillType, Payment
  <2> QED BY <2>2, <2>3 DEF VouchedFor
<1>9. ASSUME NEW o \in Subs \ excused' PROVE Ordered(o)'
  <2>1. Ordered(o)
    BY <1>9 DEF BillInv
  <2>2. CASE o # s
    <3>1. \A f \in events' : f.sub = o =>
            f \in events /\ handling'[f.id] = handling[f.id] /\ (f.id \in seen' <=> f.id \in seen)
      BY <1>1, <2>2
    <3>2. events \in SUBSET events' /\ row'[o] = row[o]
      BY <1>1, <1>3, <2>2
    <3> QED BY <2>1, <3>1, <3>2, OrderedElsewhere
  <2>3. CASE o = s
    <3>1. /\ ~ Held(e)' /\ ~ Handled(e)'
          /\ \A f \in events : (Held(f)' <=> Held(f)) /\ (Handled(f)' <=> Handled(f))
      BY <1>1 DEF Held, Handled
    <3>2. \A f, g \in events' : f.sub = s /\ g.sub = s /\ Held(f)' /\ Held(g)' => f = g
      BY <1>1, <2>1, <2>3, <3>1 DEF Ordered
    <3>3. ASSUME NEW f \in events', f.sub = s, Held(f)'
          PROVE  /\ handling'[f.id].status = row'[s].status /\ handling'[f.id].ts = row'[s].ts
                 /\ f.ts >= row'[s].ts
      <4>1. f \in events /\ Held(f)
        BY <1>1, <3>1, <3>3
      <4>2. shown = row[s].status
        BY <1>9, <2>3, <3>3, <4>1 DEF Busy, Held
      <4> QED BY <1>3, <2>1, <2>3, <3>3, <4>1, <4>2 DEF Ordered
    <3>4. \A f \in events' : f.sub = s /\ Handled(f)' => row'[s].ts >= f.ts
      BY <1>1, <1>3, <2>1, <2>3, <3>1 DEF Ordered
    <3>5. ASSUME NEW f \in events', f.sub = s, Handled(f)', Decides(f), f.ts = row'[s].ts
          PROVE  \E g \in events' : /\ g.sub = s /\ Decides(g) /\ g.ts >= row'[s].ts
                                    /\ \A x \in RowStatus : Resolved(g, x) = row'[s].status
      <4>1. f \in events /\ Handled(f)
        BY <1>1, <3>1, <3>5
      <4>2. CASE shown = row[s].status
        <5>1. PICK g \in events : /\ g.sub = s /\ Decides(g) /\ g.ts >= row[s].ts
                                  /\ \A x \in RowStatus : Resolved(g, x) = row[s].status
          BY <1>3, <2>1, <2>3, <3>5, <4>1 DEF Ordered
        <5> QED BY <1>1, <1>3, <4>2, <5>1
      <4>3. CASE shown = "cancelled" /\ kind = "end"
        <5>1. Decides(e) /\ \A x \in RowStatus : Resolved(e, x) = "cancelled"
          BY <1>1, <4>3 DEF Decides, Resolved
        <5>2. e.ts >= row'[s].ts
          BY <1>1, <1>2, <3>5, <4>1
        <5> QED BY <1>1, <1>3, <4>3, <5>1, <5>2
      <4> QED BY <4>2, <4>3
    <3> QED BY <2>3, <3>2, <3>3, <3>4, <3>5 DEF Ordered, Decides, Covers, Resolved
  <2> QED BY <2>2, <2>3
<1> QED BY <1>5, <1>6, <1>7, <1>8, <1>9 DEF BillInv

\* The provider's own moves emit an event each.
LEMMA ProviderStep == ASSUME BillInv, NEW s \in Subs, ProviderMoves(s) PROVE BillInv'
<1>0. BillType /\ Opened
  BY DEF BillInv
<1>1. /\ UNCHANGED <<seen, row, opening, handling, verifying, excused>>
      /\ payments \in SUBSET Payment /\ excused \in SUBSET Subs /\ row[s].status \in RowStatus
  BY <1>0 DEF ProviderMoves, BillType
<1>2. row[s].status # "none" /\ s \notin opening
  BY <1>0 DEF ProviderMoves, Authorise, Charge, ChargeLess, ChargeFails, Ends, Opened, Begun
<1>3. PICK shown \in RowStatus \ {"none"} :
        row' = [row EXCEPT ![s].status = shown] /\ shown = row[s].status
  <2>1. row = [row EXCEPT ![s].status = row[s].status]
    BY <1>0 DEF BillType
  <2> QED BY <1>1, <1>2, <2>1
<1> USE DEF Kinds, Entities, Paids
<1>4. CASE Authorise(s)
  <2>1. /\ provider' = [provider EXCEPT ![s] = "authenticated"] /\ UNCHANGED payments
        /\ Emit(s, "start", "authenticated", "unsaid") \/ Emit(s, "start", "none", "unsaid")
    BY <1>4 DEF Authorise
  <2> QED BY <1>1, <1>2, <1>3, <2>1, EmitStep DEF AtProvider
<1>5. CASE Charge(s)
  <2>1. /\ provider' = [provider EXCEPT ![s] = "active"]
        /\ payments' = payments \cup {[sub |-> s, status |-> "captured", full |-> TRUE]}
        /\ Emit(s, "payment", "active", "full") \/ Emit(s, "payment", "none", "full")
    BY <1>5 DEF Charge
  <2>2. /\ payments' \in SUBSET Payment /\ payments \in SUBSET payments'
        /\ \A p \in payments' \ payments : p.sub = s
    <3>1. PICK p \in Payment : p = [sub |-> s, status |-> "captured", full |-> TRUE]
      BY DEF Payment
    <3>2. p.sub = s
      BY <3>1
    <3>3. payments' = payments \cup {p}
      BY <2>1, <3>1
    <3> QED BY <1>1, <3>2, <3>3
  <2> QED BY <1>1, <1>2, <1>3, <2>1, <2>2, EmitStep DEF AtProvider
<1>6. CASE ChargeLess(s)
  <2>1. PICK p \in {[sub |-> s, status |-> "captured", full |-> FALSE],
                    [sub |-> s, status |-> "authorized", full |-> TRUE]} :
          /\ payments' = payments \cup {p}
          /\ \E paid \in {IF p.full THEN "uncaptured" ELSE "short", "unsaid"} :
               Emit(s, "payment", "none", paid)
    BY <1>6 DEF ChargeLess
  <2>2. p \in Payment /\ p.sub = s
    <3>1. CASE p = [sub |-> s, status |-> "captured", full |-> FALSE]
      BY <3>1 DEF Payment
    <3>2. CASE p = [sub |-> s, status |-> "authorized", full |-> TRUE]
      BY <3>2 DEF Payment
    <3> QED BY <2>1, <3>1, <3>2
  <2>3. /\ payments' \in SUBSET Payment /\ payments \in SUBSET payments'
        /\ \A q \in payments' \ payments : q.sub = s
    BY <1>1, <2>1, <2>2
  <2>4. PICK paid \in Paids : Emit(s, "payment", "none", paid)
    BY <2>1
  <2>5. PICK status \in AtProvider \ {"none", "created"} :
          provider' = [provider EXCEPT ![s] = status]
    <3>1. provider = [provider EXCEPT ![s] = provider[s]]
      BY <1>0 DEF BillType
    <3>2. provider' = provider /\ provider[s] \in {"authenticated", "halted"}
      BY <1>6 DEF ChargeLess
    <3> QED BY <3>1, <3>2 DEF AtProvider
  <2> QED BY <1>1, <1>2, <1>3, <2>3, <2>4, <2>5, EmitStep
<1>7. CASE ChargeFails(s)
  <2>1. /\ provider' = [provider EXCEPT ![s] = "halted"] /\ UNCHANGED payments
        /\ Emit(s, "status", "halted", "unsaid") \/ Emit(s, "failure", "none", "unsaid")
    BY <1>7 DEF ChargeFails
  <2> QED BY <1>1, <1>2, <1>3, <2>1, EmitStep DEF AtProvider
<1>8. CASE Ends(s)
  <2>1. /\ provider' = [provider EXCEPT ![s] = "cancelled"] /\ UNCHANGED payments
        /\ Emit(s, "end", "cancelled", "unsaid") \/ Emit(s, "end", "active", "unsaid")
    BY <1>8 DEF Ends
  <2> QED BY <1>1, <1>2, <1>3, <2>1, EmitStep DEF AtProvider
<1> QED BY <1>4, <1>5, <1>6, <1>7, <1>8 DEF ProviderMoves

\* A cancellation at once: the event that comes of it agrees with the row.
LEMMA CancelStep == ASSUME BillInv, NEW s \in Subs, CancelNow(s) PROVE BillInv'
<1>0. BillType /\ Opened
  BY DEF BillInv
<1>1. /\ UNCHANGED <<payments, seen, opening, handling, verifying>>
      /\ payments \in SUBSET Payment /\ excused \in SUBSET Subs
      /\ row[s].status \in Live /\ row[s].status \in RowStatus
      /\ provider' = [provider EXCEPT ![s] = "cancelled"] /\ Emit(s, "end", "cancelled", "unsaid")
  BY <1>0 DEF CancelNow, BillType
<1>2. s \notin opening
  BY <1>0, <1>1 DEF Opened, Live
<1>3. /\ excused' \in SUBSET Subs /\ excused \in SUBSET excused' /\ (Busy(s) => s \in excused')
  BY <1>1 DEF CancelNow
<1>4. PICK shown \in RowStatus \ {"none"} :
        /\ row' = [row EXCEPT ![s].status = shown]
        /\ shown = row[s].status \/ shown = "cancelled"
  <2>1. row = [row EXCEPT ![s].status = row[s].status]
    BY <1>0 DEF BillType
  <2>2. row' = [row EXCEPT ![s].status = "cancelled"] \/ row' = row
    BY DEF CancelNow
  <2> QED BY <1>1, <2>1, <2>2 DEF Live, RowStatus
<1> QED BY <1>1, <1>2, <1>3, <1>4, EmitStep DEF AtProvider, Kinds, Entities, Paids

-----------------------------------------------------------------------------
(* start_subscription *)

\* A checkout's steps keep the invariant.
LEMMA StartStep ==
  ASSUME BillInv, NEW s \in Subs, StartCreates(s) \/ StartCommits(s) \/ StartFails(s)
  PROVE  BillInv'
<1>0. BillType /\ Opened /\ Numbered /\ VouchedFor
  BY DEF BillInv
<1>1. /\ UNCHANGED <<payments, events, seen, handling, verifying, excused>>
      /\ provider[s] \in {"none", "created"} /\ row[s].status = "none"
  BY <1>0 DEF StartCreates, StartCommits, StartFails, Opened
<1>2. /\ provider' \in [Subs -> AtProvider] /\ provider'[s] = "created"
      /\ \A o \in Subs \ {s} : provider'[o] = provider[o]
  BY <1>0 DEF StartCreates, StartCommits, StartFails, Opened, BillType, AtProvider
<1>3. /\ row' \in [Subs -> [status : RowStatus, ts : Nat]] /\ row'[s].ts = row[s].ts
      /\ row'[s].status = "none" \/ (row'[s].status = "incomplete" /\ s \notin opening')
      /\ \A o \in Subs \ {s} : row'[o] = row[o]
  BY <1>0, <1>1 DEF StartCreates, StartCommits, StartFails, BillType, RowStatus
<1>4. opening' \in SUBSET Subs /\ \A o \in Subs \ {s} : o \in opening' <=> o \in opening
  BY <1>0 DEF StartCreates, StartCommits, StartFails, BillType
<1>5. BillType'
  BY <1>0, <1>1, <1>2, <1>3, <1>4 DEF BillType
<1>6. \A e \in events : e.sub \in Subs \ {s}
  BY <1>0, <1>1 DEF Opened, Begun, BillType, Event
<1>7. \A p \in payments : p.sub \in Subs \ {s}
  BY <1>0, <1>1 DEF Opened, Begun, BillType, Payment
<1>8. Opened'
  BY <1>0, <1>1, <1>2, <1>3, <1>4, <1>6, <1>7 DEF Opened, Begun
<1>9. Numbered'
  BY <1>0, <1>1, <1>3 DEF Numbered, Emitted
<1>10. VouchedFor'
  <2>1. \A o \in Subs : (OnTrial(o) => OnTrial(o)') /\ (Vouched(o) => Vouched(o)')
    BY <1>1, VouchersStay
  <2>2. \A o \in Subs : /\ row'[o].status = "active" => Vouched(o)'
                        /\ row'[o].status = "trialing" => OnTrial(o)'
    BY <1>0, <1>3, <2>1 DEF VouchedFor
  <2>3. \A v \in verifying' : v.status = "trialing" => OnTrial(v.payment.sub)'
    BY <1>0, <1>1, <2>1 DEF VouchedFor, BillType, Payment
  <2> QED BY <2>2, <2>3 DEF VouchedFor
<1>11. ASSUME NEW o \in Subs \ excused' PROVE Ordered(o)'
  <2>1. Ordered(o)
    BY <1>1, <1>11 DEF BillInv
  <2>2. CASE o # s
    BY <1>1, <1>3, <2>1, <2>2, OrderedElsewhere
  <2>3. CASE o = s
    BY <1>1, <1>6, <2>3 DEF Ordered
  <2> QED BY <2>2, <2>3
<1> QED BY <1>5, <1>8, <1>9, <1>10, <1>11 DEF BillInv

-----------------------------------------------------------------------------
(* handle_razorpay_event *)

\* A handler's step: its event's subscription is the only one it can disturb.
LEMMA HandlerStep ==
  ASSUME BillInv, NEW e \in events,
         UNCHANGED <<provider, payments, events, opening, verifying>>,
         NEW reading \in Reading, handling' = [handling EXCEPT ![e.id] = reading],
         seen' \in {seen, seen \cup {e.id}},
         NEW shown \in RowStatus, NEW ts \in {row[e.sub].ts, e.ts},
         row' = [row EXCEPT ![e.sub] = [status |-> shown, ts |-> ts]],
         (shown = "none") <=> (row[e.sub].status = "none"),
         shown = "active" => Vouched(e.sub), shown = "trialing" => OnTrial(e.sub),
         excused' \in {excused, excused \cup {e.sub}},
         e.sub \notin excused' => Ordered(e.sub)'
  PROVE  BillInv'
<1>0. BillType /\ Opened /\ Numbered /\ VouchedFor
  BY DEF BillInv
<1>1. e \in Event /\ e.sub \in Subs /\ e.id \in 1..MaxEvents /\ e.id \in Nat /\ e.ts \in Nat
  BY <1>0 DEF BillType, Event
<1>2. /\ row' \in [Subs -> [status : RowStatus, ts : Nat]]
      /\ row'[e.sub].status = shown /\ row'[e.sub].ts = ts
      /\ \A o \in Subs \ {e.sub} : row'[o] = row[o]
  BY <1>0, <1>1 DEF BillType
<1>3. /\ handling' \in [1..MaxEvents -> Reading]
      /\ \A n \in 1..MaxEvents : n # e.id => handling'[n] = handling[n]
  BY <1>0 DEF BillType
<1>4. BillType'
  BY <1>0, <1>1, <1>2, <1>3 DEF BillType
<1>5. Opened'
  BY <1>0, <1>1, <1>2 DEF Opened, Begun
<1>6. Numbered'
  <2>1. \A n \in seen' : n <= Emitted
    BY <1>0 DEF Numbered
  <2>2. \A n \in 1..MaxEvents : handling'[n].at # "none" => n <= Emitted
    BY <1>0, <1>3 DEF Numbered
  <2>3. \A o \in Subs : row'[o].ts # 0 => \E f \in events : f.sub = o /\ f.ts = row'[o].ts
    BY <1>0, <1>1, <1>2 DEF Numbered
  <2> QED BY <1>0, <2>1, <2>2, <2>3 DEF Numbered, Emitted
<1>7. VouchedFor'
  <2>1. \A o \in Subs : (OnTrial(o) => OnTrial(o)') /\ (Vouched(o) => Vouched(o)')
    BY VouchersStay
  <2>2. \A o \in Subs : /\ row'[o].status = "active" => Vouched(o)'
                        /\ row'[o].status = "trialing" => OnTrial(o)'
    BY <1>0, <1>1, <1>2, <2>1 DEF VouchedFor
  <2>3. \A v \in verifying' : v.status = "trialing" => OnTrial(v.payment.sub)'
    BY <1>0, <2>1 DEF VouchedFor, BillType, Payment
  <2> QED BY <2>2, <2>3 DEF VouchedFor
<1>8. ASSUME NEW o \in Subs \ excused', o # e.sub PROVE Ordered(o)'
  <2>1. Ordered(o)
    BY <1>8 DEF BillInv
  <2>2. \A f \in events : f.sub = o => f # e /\ f.id # e.id /\ f.id \in 1..MaxEvents
    BY <1>0, <1>8 DEF Numbered, BillType, Event
  <2> QED BY <1>2, <1>3, <1>8, <2>1, <2>2, OrderedElsewhere
<1> QED BY <1>4, <1>5, <1>6, <1>7, <1>8 DEF BillInv

\* An event is recorded, and read unless one of a later second was applied.
LEMMA ReadStep == ASSUME BillInv, NEW e \in events, EventReads(e) PROVE BillInv'
<1>0. BillType /\ Opened /\ Numbered /\ VouchedFor
  BY DEF BillInv
<1>1. /\ e \in Event /\ e.sub \in Subs /\ e.id \in 1..MaxEvents /\ e.ts \in Nat
      /\ row[e.sub] \in [status : RowStatus, ts : Nat] /\ row[e.sub].status # "none"
      /\ row[e.sub].ts \in Nat /\ handling[e.id] \in Reading
  BY <1>0 DEF BillType, Event, Opened
<1>2. /\ handling[e.id] = Away /\ seen' = seen \cup {e.id}
      /\ UNCHANGED <<provider, payments, events, row, opening, verifying>>
  BY DEF EventReads
<1>3. row = [row EXCEPT ![e.sub] = [status |-> row[e.sub].status, ts |-> row[e.sub].ts]]
  <2>1. row[e.sub] = [status |-> row[e.sub].status, ts |-> row[e.sub].ts]
    BY <1>1
  <2> QED BY <1>0, <2>1 DEF BillType
<1>4. /\ row[e.sub].status = "active" => Vouched(e.sub)
      /\ row[e.sub].status = "trialing" => OnTrial(e.sub)
  BY <1>0, <1>1 DEF VouchedFor
<1>5. \A f \in events : f # e => f.id # e.id /\ f.id \in 1..MaxEvents
  BY <1>0 DEF Numbered, BillType, Event
<1>6. CASE Applicable(e)
  <2>1. PICK reading \in Reading :
          /\ handling' = [handling EXCEPT ![e.id] = reading]
          /\ reading.at = "read" /\ reading.status = row[e.sub].status
          /\ reading.ts = row[e.sub].ts
    <3>1. handling' = [handling EXCEPT ![e.id] =
            [at |-> "read", status |-> row[e.sub].status, ts |-> row[e.sub].ts]]
      BY <1>6 DEF EventReads
    <3>2. [at |-> "read", status |-> row[e.sub].status, ts |-> row[e.sub].ts] \in Reading
      BY <1>1 DEF Reading
    <3> QED BY <3>1, <3>2
  <2>2. /\ excused' \in {excused, excused \cup {e.sub}}
        /\ Busy(e.sub) => e.sub \in excused'
    BY <1>6 DEF EventReads
  <2>3. ASSUME e.sub \notin excused' PROVE Ordered(e.sub)'
    <3>1. Ordered(e.sub) /\ \A f \in events : f.sub = e.sub => ~ Held(f)
      BY <1>1, <2>2, <2>3 DEF BillInv, Busy, Held
    <3>2. handling'[e.id] = reading /\ \A f \in events : f # e => handling'[f.id] = handling[f.id]
      BY <1>0, <1>1, <1>5, <2>1 DEF BillType
    <3>3. \A f \in events : f.sub = e.sub /\ Held(f)' => f = e
      BY <3>1, <3>2 DEF Held
    <3>4. /\ Held(e)' /\ ~ Handled(e)' /\ handling'[e.id].status = row[e.sub].status
          /\ handling'[e.id].ts = row[e.sub].ts /\ e.ts >= row[e.sub].ts
      BY <1>6, <2>1, <3>2 DEF Held, Handled, Applicable
    <3>5. \A f \in events : f.sub = e.sub /\ Handled(f)' => Handled(f)
      BY <1>2, <1>5, <3>2, <3>4 DEF Handled
    <3> QED
      BY <1>2, <3>1, <3>3, <3>4, <3>5 DEF Ordered, Decides, Covers, Resolved
  <2> QED BY <1>1, <1>2, <1>3, <1>4, <2>1, <2>2, <2>3, HandlerStep
<1>7. CASE ~ Applicable(e)
  <2>1. UNCHANGED <<handling, excused>>
    BY <1>7 DEF EventReads
  <2>2. handling' = [handling EXCEPT ![e.id] = handling[e.id]]
    BY <1>0, <2>1 DEF BillType
  <2>3. ASSUME e.sub \notin excused' PROVE Ordered(e.sub)'
    <3>1. Ordered(e.sub)
      BY <1>1, <2>1, <2>3 DEF BillInv
    <3>2. row[e.sub].ts > e.ts
      BY <1>1, <1>7 DEF Applicable
    <3>3. \A f \in events : Held(f)' <=> Held(f)
      BY <2>1 DEF Held
    <3>4. \A f \in events : Handled(f)' => Handled(f) \/ f = e
      BY <1>2, <1>5, <2>1 DEF Handled
    <3>5. \A f \in events : f.sub = e.sub /\ Handled(f)' => row[e.sub].ts >= f.ts
      BY <1>1, <3>1, <3>2, <3>4 DEF Ordered
    <3>6. \A f \in events : f.sub = e.sub /\ Handled(f)' /\ f.ts = row[e.sub].ts => Handled(f)
      BY <1>1, <3>2, <3>4
    <3> QED
      BY <1>2, <2>1, <3>1, <3>3, <3>5, <3>6 DEF Ordered, Decides, Covers, Resolved
  <2> QED BY <1>1, <1>2, <1>3, <1>4, <2>1, <2>2, <2>3, HandlerStep
<1> QED BY <1>6, <1>7

\* The row takes the status and the second of the event, or another's live row refuses it.
LEMMA CommitStep == ASSUME BillInv, NEW e \in events, EventCommits(e) PROVE BillInv'
<1>0. BillType /\ Opened /\ Numbered /\ VouchedFor
  BY DEF BillInv
<1>1. /\ e \in Event /\ e.sub \in Subs /\ e.id \in 1..MaxEvents /\ e.ts \in Nat
      /\ row[e.sub] \in [status : RowStatus, ts : Nat] /\ row[e.sub].status # "none"
      /\ row[e.sub].ts \in Nat /\ row[e.sub].status \in RowStatus
      /\ handling[e.id] \in Reading /\ handling[e.id].status \in RowStatus
  BY <1>0 DEF BillType, Event, Opened, Reading
<1>2. /\ handling[e.id].at = "read" /\ handling' = [handling EXCEPT ![e.id] = Away]
      /\ UNCHANGED <<provider, payments, events, seen, opening, verifying>>
  BY DEF EventCommits
<1>3. Away \in Reading /\ Away.at = "none"
  BY DEF Away, Reading, RowStatus
<1>4. /\ row[e.sub].status = "active" => Vouched(e.sub)
      /\ row[e.sub].status = "trialing" => OnTrial(e.sub)
  BY <1>0, <1>1 DEF VouchedFor
<1>5. \A f \in events : f # e => f.id # e.id /\ f.id \in 1..MaxEvents
  BY <1>0 DEF Numbered, BillType, Event
<1>6. PICK read \in RowStatus : read = handling[e.id].status
  BY <1>1
<1>7. PICK new \in RowStatus :
        new = IF Resolved(e, read) = read THEN row[e.sub].status ELSE Resolved(e, read)
  BY <1>1, ResolvedStatus
<1>8. /\ new # "none" /\ (new = "active" => Vouched(e.sub))
      /\ new = "trialing" => OnTrial(e.sub)
  <2>1. (Claims(e) => Vouched(e.sub)) /\ (e.entity = "authenticated" => OnTrial(e.sub))
    BY DEF Vouched, OnTrial
  <2>2. CASE Resolved(e, read) = read
    BY <1>1, <1>4, <1>7, <2>2
  <2>3. CASE Resolved(e, read) # read
    <3>1. new = Resolved(e, read) /\ new # read
      BY <1>7, <2>3
    <3> QED BY <1>1, <2>1, <3>1, ResolvedStatus
  <2> QED BY <2>2, <2>3
<1>9. CASE SlotFree(e.sub, new)
  <2>1. PICK ts \in {row[e.sub].ts, e.ts} : ts = IF e.ts = handling[e.id].ts THEN row[e.sub].ts ELSE e.ts
    OBVIOUS
  <2>2. row' = [row EXCEPT ![e.sub] = [status |-> new, ts |-> ts]] /\ UNCHANGED excused
    BY <1>6, <1>7, <1>9, <2>1 DEF EventCommits
  <2>3. ASSUME e.sub \notin excused' PROVE Ordered(e.sub)'
    <3>1. Ordered(e.sub)
      BY <1>1, <2>2, <2>3 DEF BillInv
    <3>2. /\ Held(e) /\ read = row[e.sub].status /\ e.ts >= row[e.sub].ts
          /\ handling[e.id].ts = row[e.sub].ts
          /\ \A f \in events : f.sub = e.sub /\ f # e => ~ Held(f)
      BY <1>2, <1>6, <3>1 DEF Ordered, Held
    <3>3. ts = e.ts /\ new = Resolved(e, read)
      BY <1>7, <2>1, <3>2
    <3>4. \A f \in events : f.sub = e.sub => ~ Held(f)'
      BY <1>0, <1>1, <1>2, <1>3, <1>5, <3>2 DEF BillType, Held
    <3>5. row'[e.sub].status = new /\ row'[e.sub].ts = e.ts
      BY <1>0, <1>1, <2>2, <3>3 DEF BillType
    <3>6. \A f \in events : f # e /\ Handled(f)' => Handled(f)
      BY <1>0, <1>1, <1>2, <1>5 DEF BillType, Handled
    <3>7. ASSUME NEW f \in events, f.sub = e.sub, Handled(f)' PROVE e.ts >= f.ts
      <4>1. f.ts \in Nat
        BY <1>0 DEF BillType, Event
      <4>2. CASE f # e
        <5>1. row[e.sub].ts >= f.ts
          BY <3>1, <3>6, <3>7, <4>2 DEF Ordered
        <5> QED BY <1>1, <3>2, <4>1, <5>1
      <4> QED BY <1>1, <4>2
    <3>8. ASSUME NEW f \in events, f.sub = e.sub, Handled(f)', Decides(f), f.ts = e.ts
          PROVE  \E g \in events : /\ g.sub = e.sub /\ Decides(g) /\ g.ts >= e.ts
                                   /\ \A x \in RowStatus : Resolved(g, x) = new
      <4>1. CASE Decides(e)
        <5>1. \A x \in RowStatus : Resolved(e, x) = new
          BY <1>1, <3>3, <4>1, DecidesAlone
        <5> QED BY <1>1, <4>1, <5>1
      <4>2. CASE ~ Decides(e)
        <5>1. f # e /\ Handled(f) /\ new = row[e.sub].status
          BY <1>1, <3>2, <3>3, <3>6, <3>8, <4>2, DecidesAlone
        <5>2. f.ts = row[e.sub].ts
          <6>1. row[e.sub].ts >= f.ts
            BY <3>1, <3>8, <5>1 DEF Ordered
          <6> QED BY <1>1, <3>2, <3>8, <6>1
        <5> QED BY <3>1, <3>8, <5>1, <5>2 DEF Ordered
      <4> QED BY <4>1, <4>2
    <3> QED BY <1>2, <3>4, <3>5, <3>7, <3>8 DEF Ordered, Decides, Covers, Resolved
  <2>4. seen' \in {seen, seen \cup {e.id}} /\ excused' \in {excused, excused \cup {e.sub}}
    BY <1>2, <2>2
  <2> QED BY <1>1, <1>2, <1>3, <1>8, <2>2, <2>3, <2>4, HandlerStep
<1>10. CASE ~ SlotFree(e.sub, new)
  <2>1. UNCHANGED row /\ excused' = excused \cup {e.sub}
    BY <1>6, <1>7, <1>10 DEF EventCommits
  <2>2. row' = [row EXCEPT ![e.sub] = [status |-> row[e.sub].status, ts |-> row[e.sub].ts]]
    <3>1. row[e.sub] = [status |-> row[e.sub].status, ts |-> row[e.sub].ts]
      BY <1>1
    <3> QED BY <1>0, <2>1, <3>1 DEF BillType
  <2> QED BY <1>1, <1>2, <1>3, <1>4, <2>1, <2>2, HandlerStep
<1> QED BY <1>9, <1>10

\* An event that is lost behind the replay guard keeps the invariant.
LEMMA LostStep == ASSUME BillInv, NEW e \in events, EventLost(e) PROVE BillInv'
<1>0. BillType /\ Opened /\ VouchedFor
  BY DEF BillInv
<1>1. e.sub \in Subs /\ row[e.sub] \in [status : RowStatus, ts : Nat]
  BY <1>0 DEF BillType, Event
<1>2. /\ seen' \in {seen, seen \cup {e.id}} /\ handling' = [handling EXCEPT ![e.id] = Away]
      /\ UNCHANGED <<provider, payments, events, row, opening, verifying>>
      /\ excused' = excused \cup {e.sub}
  BY DEF EventLost
<1>3. Away \in Reading
  BY DEF Away, Reading, RowStatus
<1>4. /\ row[e.sub].status = "active" => Vouched(e.sub)
      /\ row[e.sub].status = "trialing" => OnTrial(e.sub)
  BY <1>0, <1>1 DEF VouchedFor
<1>5. row' = [row EXCEPT ![e.sub] = [status |-> row[e.sub].status, ts |-> row[e.sub].ts]]
  <2>1. row[e.sub] = [status |-> row[e.sub].status, ts |-> row[e.sub].ts]
    BY <1>1
  <2> QED BY <1>0, <1>2, <2>1 DEF BillType
<1> QED BY <1>1, <1>2, <1>3, <1>4, <1>5, HandlerStep

-----------------------------------------------------------------------------
(* verify_and_activate *)

\* A verification that reads a payment keeps the invariant.
LEMMA VerifyReadStep == ASSUME BillInv, NEW p \in payments, VerifyReads(p) PROVE BillInv'
<1>0. BillType /\ VouchedFor
  BY DEF BillInv
<1>1. /\ verifying' = {[payment |-> p, status |-> row[p.sub].status]}
      /\ UNCHANGED <<provider, payments, events, seen, row, opening, handling, excused>>
  BY DEF VerifyReads
<1>2. p.sub \in Subs /\ row[p.sub].status \in RowStatus
  BY <1>0 DEF BillType, Payment
<1>3. [payment |-> p, status |-> row[p.sub].status] \in [payment : payments, status : RowStatus]
  BY <1>2
<1>4. BillType'
  BY <1>0, <1>1, <1>3 DEF BillType
<1>5. VouchedFor'
  BY <1>0, <1>1, <1>2 DEF VouchedFor, Vouched, OnTrial, Claims, Covers
<1> QED
  BY <1>1, <1>4, <1>5
  DEF BillInv, Opened, Begun, Numbered, Emitted, Ordered, Held, Handled, Decides, Covers, Resolved

\* A full payment activates, or on trial a smaller one: the subscription is vouched for.
LEMMA VerifyCommitStep ==
  ASSUME BillInv, NEW v \in verifying, VerifyCommits(v)
  PROVE  BillInv'
<1>0. BillType /\ Opened /\ Numbered /\ VouchedFor
  BY DEF BillInv
<1>1. PICK s \in Subs : s = v.payment.sub /\ v.payment \in payments
  BY <1>0 DEF BillType, Payment
<1>2. /\ UNCHANGED <<provider, payments, events, seen, opening, handling>>
      /\ verifying' = {}
  BY DEF VerifyCommits
<1>3. /\ row[s] \in [status : RowStatus, ts : Nat] /\ row[s].status \in RowStatus
      /\ row[s].status # "none" /\ s \notin opening /\ provider[s] # "none"
  BY <1>0, <1>1 DEF BillType, Opened, Begun
<1>4. PICK new \in RowStatus : new = IF v.status = "active" THEN row[s].status ELSE "active"
  BY <1>3 DEF RowStatus
<1>5. CASE Settles(v.payment, v.status) /\ SlotFree(s, new)
  <2>1. /\ row' = [row EXCEPT ![s].status = new] /\ excused' = excused \cup {s}
    BY <1>1, <1>4, <1>5 DEF VerifyCommits
  <2>2. (new = "active" => Vouched(s)) /\ (new = "trialing" => OnTrial(s))
    <3>1. CASE v.status = "active"
      BY <1>0, <1>4, <3>1 DEF VouchedFor
    <3>2. CASE v.status # "active"
      <4>1. /\ v.payment.status = "captured" /\ (v.payment.full \/ OnTrial(s))
        BY <1>0, <1>1, <1>5 DEF Settles, VouchedFor
      <4> QED BY <1>1, <1>4, <3>2, <4>1 DEF Vouched
    <3> QED BY <3>1, <3>2
  <2>3. /\ row' \in [Subs -> [status : RowStatus, ts : Nat]]
        /\ row'[s].status = new /\ row'[s].ts = row[s].ts
        /\ \A o \in Subs \ {s} : row'[o] = row[o]
    BY <1>0, <1>3, <2>1 DEF BillType
  <2>4. BillType'
    BY <1>0, <1>2, <2>1, <2>3 DEF BillType
  <2>5. Opened'
    BY <1>0, <1>2, <1>3, <1>4, <2>3 DEF Opened, Begun
  <2>6. Numbered'
    BY <1>0, <1>2, <2>3 DEF Numbered, Emitted
  <2>7. VouchedFor'
    <3>1. \A o \in Subs : (OnTrial(o) => OnTrial(o)') /\ (Vouched(o) => Vouched(o)')
      BY <1>2, VouchersStay
    <3> QED BY <1>0, <1>2, <2>2, <2>3, <3>1 DEF VouchedFor
  <2>8. ASSUME NEW o \in Subs \ excused' PROVE Ordered(o)'
    BY <1>2, <2>1, <2>3, <2>8, OrderedElsewhere DEF BillInv
  <2> QED BY <2>4, <2>5, <2>6, <2>7, <2>8 DEF BillInv
<1>6. CASE ~ (Settles(v.payment, v.status) /\ SlotFree(s, new))
  <2>1. UNCHANGED <<row, excused>>
    BY <1>1, <1>4, <1>6 DEF VerifyCommits
  <2>2. BillType'
    BY <1>0, <1>2, <2>1 DEF BillType
  <2>3. VouchedFor'
    BY <1>0, <1>2, <2>1 DEF VouchedFor, Vouched, OnTrial, Claims, Covers
  <2> QED
    BY <1>2, <2>1, <2>2, <2>3
    DEF BillInv, Opened, Begun, Numbered, Emitted, Ordered, Held, Handled, Decides, Covers, Resolved
<1> QED BY <1>5, <1>6

-----------------------------------------------------------------------------
(* The theorems *)

\* There is no row, and nothing was emitted.
LEMMA InitBilling == BillingInit => BillInv
<1> SUFFICES ASSUME BillingInit PROVE BillInv
  OBVIOUS
<1>1. Away \in Reading /\ Away.at = "none"
  BY DEF Away, Reading, RowStatus
<1>2. BillType
  BY <1>1 DEF BillingInit, BillType, AtProvider, RowStatus
<1>3. Opened
  BY DEF BillingInit, Opened, Begun
<1>4. Numbered
  BY <1>1, FS_EmptySet DEF BillingInit, Numbered
<1>5. VouchedFor
  BY DEF BillingInit, VouchedFor
<1>6. \A s \in Subs : Ordered(s)
  BY DEF BillingInit, Ordered
<1> QED BY <1>2, <1>3, <1>4, <1>5, <1>6 DEF BillInv

\* Every step keeps billing's invariant.
LEMMA NextBilling == BillInv /\ [BillingNext]_billingVars => BillInv'
<1>1. BillInv /\ UNCHANGED billingVars => BillInv'
  BY DEF billingVars, BillInv, BillType, Opened, Begun, Numbered, Emitted, VouchedFor, Vouched,
         OnTrial, Claims, Ordered, Held, Handled, Decides, Covers, Resolved
<1> QED
  BY <1>1, StartStep, ProviderStep, CancelStep, ReadStep, CommitStep, LostStep, VerifyReadStep,
     VerifyCommitStep
  DEF BillingNext

\* A row is active only if an event claims it or a captured payment settles it
\* (handle_razorpay_event, verify_and_activate).
THEOREM ActiveWasVouchedFor == BillingSpec => []ActiveIsVouchedFor
<1>1. BillInv => ActiveIsVouchedFor
  BY DEF BillInv, VouchedFor, Vouched, OnTrial, ActiveIsVouchedFor
<1> QED BY InitBilling, NextBilling, <1>1, PTL DEF BillingSpec

\* The row stands where an event of the newest second puts it (the ordering guard of
\* handle_razorpay_event).
THEOREM RowFollowsNewestEvent == BillingSpec => []LatestEventWins
<1>1. ASSUME BillInv, NEW s \in Subs \ excused, \A e \in events : e.sub = s => Handled(e),
             NEW e \in Newest(s), Decides(e)
      PROVE  \E f \in Newest(s) : Decides(f) /\ row[s].status = Resolved(f, row[s].status)
  <2>1. /\ Ordered(s) /\ \A f \in events : f.ts \in Nat /\ f.ts >= 1
        /\ row[s].status \in RowStatus /\ row[s].ts \in Nat
    BY <1>1 DEF BillInv, BillType, Event
  <2>2. /\ e \in events /\ e.sub = s /\ Handled(e)
        /\ \A f \in events : f.sub = s => f.ts <= e.ts
    BY <1>1 DEF Newest
  <2>3. row[s].ts >= e.ts
    BY <2>1, <2>2 DEF Ordered
  <2>4. PICK g \in events : g.sub = s /\ g.ts = row[s].ts
    BY <1>1, <2>1, <2>2, <2>3 DEF BillInv, Numbered
  <2>5. e.ts = row[s].ts
    BY <2>1, <2>2, <2>3, <2>4
  <2>6. PICK f \in events : /\ f.sub = s /\ Decides(f) /\ f.ts >= row[s].ts
                            /\ \A x \in RowStatus : Resolved(f, x) = row[s].status
    BY <1>1, <2>1, <2>2, <2>5 DEF Ordered
  <2>7. f \in Newest(s)
    <3>1. \A h \in events : h.sub = s => h.ts <= f.ts
      BY <2>1, <2>2, <2>5, <2>6
    <3> QED BY <2>6, <3>1 DEF Newest
  <2> QED BY <2>1, <2>6, <2>7
<1>2. BillInv => LatestEventWins
  BY <1>1 DEF LatestEventWins
<1> QED BY InitBilling, NextBilling, <1>2, PTL DEF BillingSpec

-----------------------------------------------------------------------------
(* What the returns of a sale come to *)

Row  == Payloads \cup {NoReturn}
Ledgers == [Returns -> Row]

\* What a return counts for in the quantity and in the amount.
Qtys(rows)    == [r \in Returns |-> IF rows[r].status = "approved" THEN rows[r].qty ELSE 0]
Amounts(rows) == [r \in Returns |-> IF rows[r].status = "approved" THEN rows[r].amount ELSE 0]

Balanced(rows) ==
  /\ Quantity(rows) <= Sold /\ Amount(rows) <= Paid
  /\ Quantity(rows) = Sold => Amount(rows) = Paid

\* A return's quantity and amount are numbers, and an approved one returns something.
LEMMA RowTypes ==
  ASSUME NEW rows \in Ledgers, NEW r \in Returns
  PROVE  /\ rows[r].qty \in Nat /\ rows[r].amount \in Nat
         /\ Qtys(rows)[r] \in Nat /\ Amounts(rows)[r] \in Nat
         /\ rows[r].status = "approved" => Qtys(rows)[r] >= 1
  BY LedgerAssumption DEF Ledgers, Row, NoReturn, Qtys, Amounts

\* The sum over what is approved is one over all the returns.
LEMMA QuantitySum ==
  ASSUME NEW rows \in Ledgers
  PROVE  /\ Quantity(rows) = SumFunctionOnSet(Qtys(rows), Returns)
         /\ Quantity(rows) \in Nat
<1> DEFINE f == [r \in Approved(rows) |-> rows[r].qty]
<1>1. Quantity(rows) = SumFunctionOnSet(f, Approved(rows))
  BY DEF Quantity, SumFunction
<1>2. /\ Approved(rows) \in SUBSET Returns
      /\ \A r \in Approved(rows) : f[r] \in Int /\ Qtys(rows)[r] = f[r]
      /\ \A r \in Returns \ Approved(rows) : Qtys(rows)[r] = 0
  BY RowTypes DEF Approved, Qtys
<1> HIDE DEF f
<1>3. SumFunctionOnSet(Qtys(rows), Returns) = SumFunctionOnSet(f, Approved(rows))
  BY <1>2, LedgerAssumption, SumWhere
<1>4. SumFunctionOnSet(Qtys(rows), Returns) \in Nat
  BY RowTypes, LedgerAssumption, SumNat
<1> QED BY <1>1, <1>3, <1>4

\* See QuantitySum.
LEMMA AmountSum ==
  ASSUME NEW rows \in Ledgers
  PROVE  /\ Amount(rows) = SumFunctionOnSet(Amounts(rows), Returns)
         /\ Amount(rows) \in Nat
<1> DEFINE f == [r \in Approved(rows) |-> rows[r].amount]
<1>1. Amount(rows) = SumFunctionOnSet(f, Approved(rows))
  BY DEF Amount, SumFunction
<1>2. /\ Approved(rows) \in SUBSET Returns
      /\ \A r \in Approved(rows) : f[r] \in Int /\ Amounts(rows)[r] = f[r]
      /\ \A r \in Returns \ Approved(rows) : Amounts(rows)[r] = 0
  BY RowTypes DEF Approved, Amounts
<1> HIDE DEF f
<1>3. SumFunctionOnSet(Amounts(rows), Returns) = SumFunctionOnSet(f, Approved(rows))
  BY <1>2, LedgerAssumption, SumWhere
<1>4. SumFunctionOnSet(Amounts(rows), Returns) \in Nat
  BY RowTypes, LedgerAssumption, SumNat
<1> QED BY <1>1, <1>3, <1>4

\* A return that is written where none was approved adds what it counts for.
LEMMA RowWritten ==
  ASSUME NEW rows \in Ledgers, NEW new \in Ledgers, NEW r \in Returns, rows[r].status # "approved",
         \A o \in Returns \ {r} : new[o] = rows[o]
  PROVE  /\ Quantity(new) = Quantity(rows) + Qtys(new)[r]
         /\ Amount(new) = Amount(rows) + Amounts(new)[r]
<1>1. /\ \A o \in Returns : Qtys(rows)[o] \in Int /\ Qtys(new)[o] \in Int
      /\ \A o \in Returns : Amounts(rows)[o] \in Int /\ Amounts(new)[o] \in Int
  BY RowTypes
<1>2. /\ Qtys(rows)[r] = 0 /\ Amounts(rows)[r] = 0
      /\ \A o \in Returns \ {r} : Qtys(new)[o] = Qtys(rows)[o] /\ Amounts(new)[o] = Amounts(rows)[o]
  BY DEF Qtys, Amounts
<1>3. SumFunctionOnSet(Qtys(new), Returns)
        = SumFunctionOnSet(Qtys(rows), Returns) + (Qtys(new)[r] - Qtys(rows)[r])
  BY <1>1, <1>2, LedgerAssumption, SumChange
<1>4. SumFunctionOnSet(Amounts(new), Returns)
        = SumFunctionOnSet(Amounts(rows), Returns) + (Amounts(new)[r] - Amounts(rows)[r])
  BY <1>1, <1>2, LedgerAssumption, SumChange
<1>5. Quantity(rows) \in Nat /\ Amount(rows) \in Nat
  BY QuantitySum, AmountSum
<1> QED BY <1>1, <1>2, <1>3, <1>4, <1>5, QuantitySum, AmountSum

\* Where no approved return changes, what is approved anew adds to the quantity, and
\* nothing else adds to either.
LEMMA RowsAdded ==
  ASSUME NEW rows \in Ledgers, NEW new \in Ledgers,
         \A r \in Returns : rows[r].status = "approved" => new[r] = rows[r]
  PROVE  /\ Quantity(rows) <= Quantity(new) /\ Amount(rows) <= Amount(new)
         /\ Approved(new) # Approved(rows) => Quantity(rows) < Quantity(new)
         /\ Approved(new) = Approved(rows) =>
              Quantity(new) = Quantity(rows) /\ Amount(new) = Amount(rows)
<1>1. \A r \in Returns : /\ Qtys(rows)[r] \in Int /\ Qtys(new)[r] \in Int
                         /\ Amounts(rows)[r] \in Int /\ Amounts(new)[r] \in Int
  BY RowTypes
<1>2. \A r \in Returns : Qtys(rows)[r] <= Qtys(new)[r] /\ Amounts(rows)[r] <= Amounts(new)[r]
  <2> SUFFICES ASSUME NEW r \in Returns
               PROVE  Qtys(rows)[r] <= Qtys(new)[r] /\ Amounts(rows)[r] <= Amounts(new)[r]
    OBVIOUS
  <2>1. CASE rows[r].status = "approved"
    BY <1>1, <2>1 DEF Qtys, Amounts
  <2>2. CASE rows[r].status # "approved"
    <3>1. Qtys(rows)[r] = 0 /\ Amounts(rows)[r] = 0
      BY <2>2 DEF Qtys, Amounts
    <3> QED BY <3>1, RowTypes
  <2> QED BY <2>1, <2>2
<1>3. SumFunctionOnSet(Qtys(rows), Returns) <= SumFunctionOnSet(Qtys(new), Returns)
  BY <1>1, <1>2, LedgerAssumption, SumGrows
<1>4. SumFunctionOnSet(Amounts(rows), Returns) <= SumFunctionOnSet(Amounts(new), Returns)
  BY <1>1, <1>2, LedgerAssumption, SumGrows
<1>5. ASSUME Approved(new) # Approved(rows) PROVE Quantity(rows) < Quantity(new)
  <2>1. PICK r \in Returns : new[r].status = "approved" /\ rows[r].status # "approved"
    BY <1>5 DEF Approved
  <2> DEFINE more == [o \in Returns |-> IF o = r THEN 1 ELSE Qtys(rows)[o]]
  <2>2. /\ \A o \in Returns : more[o] \in Int
        /\ \A o \in Returns \ {r} : more[o] = Qtys(rows)[o]
        /\ more[r] = 1 /\ Qtys(rows)[r] = 0
    BY <1>1, <2>1 DEF Qtys
  <2>3. \A o \in Returns : more[o] <= Qtys(new)[o]
    BY <1>2, <2>1, RowTypes
  <2> HIDE DEF more
  <2>4. SumFunctionOnSet(more, Returns)
          = SumFunctionOnSet(Qtys(rows), Returns) + (more[r] - Qtys(rows)[r])
    BY <1>1, <2>2, LedgerAssumption, SumChange
  <2>5. SumFunctionOnSet(more, Returns) <= SumFunctionOnSet(Qtys(new), Returns)
    BY <1>1, <2>2, <2>3, LedgerAssumption, SumGrows
  <2>6. Quantity(rows) \in Nat /\ Quantity(new) \in Nat
    BY QuantitySum
  <2> QED BY <2>2, <2>4, <2>5, <2>6, QuantitySum
<1>6. ASSUME Approved(new) = Approved(rows)
      PROVE  Quantity(new) = Quantity(rows) /\ Amount(new) = Amount(rows)
  <2>1. \A r \in Returns : Qtys(new)[r] = Qtys(rows)[r] /\ Amounts(new)[r] = Amounts(rows)[r]
    BY <1>6 DEF Approved, Qtys, Amounts
  <2>2. SumFunctionOnSet(Qtys(new), Returns) = SumFunctionOnSet(Qtys(rows), Returns)
    BY <1>1, <2>1, LedgerAssumption, SumSame
  <2>3. SumFunctionOnSet(Amounts(new), Returns) = SumFunctionOnSet(Amounts(rows), Returns)
    BY <1>1, <2>1, LedgerAssumption, SumSame
  <2> QED BY <2>2, <2>3, QuantitySum, AmountSum
<1> QED BY <1>3, <1>4, <1>5, <1>6, QuantitySum, AmountSum

\* A ledger without returns comes to nothing.
LEMMA NothingReturned ==
  ASSUME NEW rows, rows = [r \in Returns |-> NoReturn]
  PROVE  rows \in Ledgers /\ Quantity(rows) = 0 /\ Amount(rows) = 0 /\ Balanced(rows)
<1>1. rows \in Ledgers
  BY DEF Ledgers, Row
<1>2. /\ \A r \in Returns : Qtys(rows)[r] = 0 /\ Amounts(rows)[r] = 0
  BY DEF Qtys, Amounts, NoReturn
<1>3. SumFunctionOnSet(Qtys(rows), Returns) = SumFunctionOnSet(Qtys(rows), {})
  BY <1>2, LedgerAssumption, SumWhere
<1>4. SumFunctionOnSet(Amounts(rows), Returns) = SumFunctionOnSet(Amounts(rows), {})
  BY <1>2, LedgerAssumption, SumWhere
<1>5. Quantity(rows) = 0 /\ Amount(rows) = 0
  BY <1>1, <1>3, <1>4, QuantitySum, AmountSum, SumEmpty
<1> QED BY <1>1, <1>5, LedgerAssumption DEF Balanced

-----------------------------------------------------------------------------
(* Uploads that post returns of one sale, and a reset *)

Written(u) == DOMAIN upload[u].wrote

Frame == [at : {"ready", "found", "registered"}, ret : Returns \cup {Nobody}, payload : Row,
          found : BOOLEAN, wrote : UNION {[D -> Payloads] : D \in SUBSET Returns}, count : Nat]

Resets == [at : {"none", "listed", "found", "identities", "events", "unsold"}, saw : BOOLEAN,
           ids : SUBSET Returns, events : SUBSET Returns]

LedgerType ==
  /\ sold \in BOOLEAN /\ ledger \in Ledgers /\ projected \in [Returns -> Nat]
  /\ owner \in [Returns -> Uploads \cup {Nobody}] /\ saleOwner \in Uploads \cup {Nobody}
  /\ upload \in [Uploads -> Frame] /\ clear \in Resets
  /\ \A u \in Uploads :
       upload[u].at # "ready" => upload[u].ret \in Returns /\ upload[u].payload \in Payloads

\* Who has written holds the sale and the identities it wrote, none of them approved
\* before, and has counted what it approved; who has found or registered an identity
\* holds it.
Holds(u) ==
  /\ Written(u) # {} => saleOwner = u /\ sold
  /\ upload[u].count # 0 => Written(u) # {}
  /\ Quantity(Seen(u)) = IF upload[u].count = 0 THEN Quantity(ledger) ELSE upload[u].count
  /\ \A r \in Written(u) : owner[r] = u /\ ledger[r].status # "approved"
  /\ upload[u].at = "found" /\ upload[u].found => owner[upload[u].ret] = u
  /\ upload[u].at = "registered" =>
       owner[upload[u].ret] = u /\ Seen(u)[upload[u].ret].status # "approved"

\* The registry has the events that are there; of the others only those that crossed a reset.
Agree ==
  /\ \A r \in Returns : ledger[r] # NoReturn \/ r \notin crossed => identity[r] = ledger[r]
  /\ ~ sold => Posted = {}

\* What a reset will delete under an identity it does not name, or leave without a row in
\* the read model, has crossed it; when the sale is deleted nothing is left to write.
ResetHolds ==
  /\ clear.at \in {"none", "listed"} => clear.ids = {} /\ clear.events = {}
  /\ clear.at = "listed" /\ ~ clear.saw => Posted \subseteq crossed
  /\ clear.at \in {"found", "identities"} => clear.saw /\ Posted \ clear.ids \subseteq crossed
  /\ clear.at \in {"events", "unsold"} => clear.saw /\ clear.events \ clear.ids \subseteq crossed
  /\ clear.at = "unsold" => saleOwner = Nobody /\ Posted \subseteq clear.events

LedgerInv ==
  /\ LedgerType /\ Agree /\ ResetHolds
  /\ Balanced(ledger) /\ \A u \in Uploads : Holds(u) /\ Balanced(Seen(u))
  /\ ReadModelFollows

\* The rows of an upload are its own where it wrote, and the committed ones elsewhere.
LEMMA SeenRows ==
  ASSUME LedgerType, NEW u \in Uploads
  PROVE  /\ Seen(u) \in Ledgers /\ Written(u) \in SUBSET Returns
         /\ \A r \in Written(u) : /\ upload[u].wrote[r] \in Payloads
                                  /\ Seen(u)[r] = upload[u].wrote[r] /\ Known(u)[r] = Seen(u)[r]
         /\ \A r \in Returns \ Written(u) : Seen(u)[r] = ledger[r] /\ Known(u)[r] = identity[r]
<1>1. upload[u].wrote \in UNION {[D -> Payloads] : D \in SUBSET Returns}
  BY DEF LedgerType, Frame
<1>2. PICK D \in SUBSET Returns : upload[u].wrote \in [D -> Payloads]
  BY <1>1
<1>3. Written(u) = D /\ \A r \in D : upload[u].wrote[r] \in Payloads
  BY <1>2 DEF Written
<1>4. /\ \A r \in D : Seen(u)[r] = upload[u].wrote[r] /\ Known(u)[r] = upload[u].wrote[r]
      /\ \A r \in Returns \ D : Seen(u)[r] = ledger[r] /\ Known(u)[r] = identity[r]
  BY <1>3 DEF Seen, Known, Through, Written
<1>5. \A r \in Returns : Seen(u)[r] \in Row
  BY <1>3, <1>4 DEF LedgerType, Ledgers, Row
<1>6. Seen(u) = [r \in Returns |-> Seen(u)[r]]
  BY DEF Seen, Through
<1>7. Seen(u) \in Ledgers
  BY <1>5, <1>6 DEF Ledgers
<1> QED BY <1>3, <1>4, <1>7

\* Whoever has written nothing sees the ledger.
LEMMA SeenLedger ==
  ASSUME LedgerType, NEW u \in Uploads, Written(u) = {}
  PROVE  Seen(u) = ledger
<1>1. \A r \in Returns : Seen(u)[r] = ledger[r]
  BY SeenRows
<1> QED BY <1>1, SeenRows DEF LedgerType, Ledgers

\* A payload is a row with a status, and something is returned.
LEMMA PayloadTypes ==
  ASSUME NEW p \in Payloads
  PROVE  p \in Row /\ p # NoReturn /\ p.qty \in Nat \ {0} /\ p.amount \in Nat
  BY LedgerAssumption DEF Row, NoReturn

\* A step of one upload that commits nothing, and takes only what is its own or nobody's.
LEMMA UploadStep ==
  ASSUME LedgerInv, NEW u \in Uploads, UNCHANGED <<tables, clear, crossed>>,
         upload' \in [Uploads -> Frame], \A v \in Uploads \ {u} : upload'[v] = upload[v],
         upload'[u].at # "ready" => upload'[u].ret \in Returns /\ upload'[u].payload \in Payloads,
         owner' \in [Returns -> Uploads \cup {Nobody}], saleOwner' \in Uploads \cup {Nobody},
         \A r \in Returns : owner'[r] = owner[r] \/ owner[r] \in {u, Nobody},
         saleOwner' = saleOwner \/ saleOwner \in {u, Nobody},
         clear.at = "unsold" => saleOwner' \in {saleOwner, Nobody},
         Holds(u)', Balanced(Seen(u)')
  PROVE  LedgerInv'
<1>0. UNCHANGED <<sold, counted, identity, ledger, projected, clear, crossed>>
  BY DEF tables
<1>1. LedgerType'
  BY <1>0 DEF LedgerInv, LedgerType
<1>2. ASSUME NEW v \in Uploads \ {u} PROVE Written(v)' = Written(v) /\ Seen(v)' = Seen(v)
  BY <1>0 DEF Written, Seen, Through
<1>3. ASSUME NEW v \in Uploads \ {u} PROVE Holds(v)'
  <2>1. v # Nobody /\ v # u /\ upload'[v] = upload[v]
    BY LedgerAssumption
  <2>2. upload[v].at # "ready" => upload[v].ret \in Returns
    BY DEF LedgerInv, LedgerType
  <2>3. Holds(v) /\ \A r \in Written(v) : r \in Returns
    BY SeenRows DEF LedgerInv
  <2>4. Quantity(Seen(v))' = Quantity(Seen(v)) /\ Quantity(ledger)' = Quantity(ledger)
    BY <1>0, <1>2
  <2> QED BY <1>0, <1>2, <2>1, <2>2, <2>3, <2>4 DEF Holds
<1>4. Balanced(ledger') /\ \A v \in Uploads : Balanced(Seen(v)')
  BY <1>0, <1>2 DEF LedgerInv
<1>5. Posted' = Posted
  BY <1>0 DEF Posted
<1>6. Agree' /\ ResetHolds'
  BY <1>0, <1>5 DEF LedgerInv, Agree, ResetHolds
<1>7. ReadModelFollows'
  BY <1>0 DEF LedgerInv, ReadModelFollows
<1> QED BY <1>1, <1>3, <1>4, <1>6, <1>7 DEF LedgerInv

\* What an upload holds and has written stays as it was when it only moves on.
LEMMA LookUpStep ==
  ASSUME LedgerInv, NEW u \in Uploads, NEW r \in Returns, NEW payload \in Payloads,
         LookUp(u, r, payload)
  PROVE  LedgerInv'
<1> DEFINE found == Known(u)[r] # NoReturn
<1>1. LedgerType /\ Holds(u) /\ Balanced(Seen(u))
  BY DEF LedgerInv
<1>2. upload[u] \in Frame
  BY <1>1 DEF LedgerType
<1>3. [upload[u] EXCEPT !.at = "found", !.ret = r, !.payload = payload, !.found = found] \in Frame
  <2>1. found \in BOOLEAN
    OBVIOUS
  <2> QED BY <1>2, <2>1 DEF Frame, Row
<1>4. /\ found => owner[r] \in {u, Nobody}
      /\ owner' = IF found THEN [owner EXCEPT ![r] = u] ELSE owner
      /\ upload' = [upload EXCEPT ![u] = [@ EXCEPT !.at = "found", !.ret = r,
                      !.payload = payload, !.found = found]]
      /\ UNCHANGED <<tables, saleOwner, clear, crossed>>
  BY DEF LookUp
<1> HIDE DEF found
<1>5. /\ upload' \in [Uploads -> Frame] /\ \A v \in Uploads \ {u} : upload'[v] = upload[v]
      /\ upload'[u].at = "found" /\ upload'[u].ret = r /\ upload'[u].payload = payload
      /\ upload'[u].found => found
      /\ upload'[u].wrote = upload[u].wrote /\ upload'[u].count = upload[u].count
  BY <1>1, <1>2, <1>3, <1>4 DEF LedgerType, Frame
<1>6. /\ owner' \in [Returns -> Uploads \cup {Nobody}]
      /\ \A o \in Returns : owner'[o] = owner[o] \/ (owner[o] \in {u, Nobody} /\ owner'[o] = u)
      /\ found => owner'[r] = u
  <2>1. CASE found
    BY <1>1, <1>4, <2>1 DEF LedgerType
  <2>2. CASE ~ found
    BY <1>1, <1>4, <2>2 DEF LedgerType
  <2> QED BY <2>1, <2>2
<1>7. Written(u)' = Written(u) /\ Seen(u)' = Seen(u) /\ ledger' = ledger /\ sold' = sold
  BY <1>4, <1>5 DEF Written, Seen, Through, tables
<1>8. Holds(u)'
  <2>1. Quantity(Seen(u))' = Quantity(Seen(u)) /\ Quantity(ledger)' = Quantity(ledger)
    BY <1>7
  <2>2. \A o \in Written(u) : o \in Returns /\ owner[o] = u /\ ledger[o].status # "approved"
    BY <1>1, SeenRows DEF Holds
  <2> QED BY <1>1, <1>4, <1>5, <1>6, <1>7, <2>1, <2>2 DEF Holds
<1> QED BY <1>1, <1>4, <1>5, <1>6, <1>7, <1>8, UploadStep DEF LedgerType

\* An upload that is done with a return.
LEMMA SkipStep == ASSUME LedgerInv, NEW u \in Uploads, SkipKnown(u) PROVE LedgerInv'
<1>1. LedgerType /\ Holds(u) /\ Balanced(Seen(u))
  BY DEF LedgerInv
<1>2. upload[u] \in Frame
  BY <1>1 DEF LedgerType
<1>3. [Ready EXCEPT !.wrote = upload[u].wrote, !.count = upload[u].count] \in Frame
  BY <1>2 DEF Frame, Ready, Row
<1>4. /\ upload' = [upload EXCEPT ![u] = [Ready EXCEPT !.wrote = upload[u].wrote, !.count = upload[u].count]]
      /\ UNCHANGED <<tables, owner, saleOwner, clear, crossed>>
  BY DEF SkipKnown
<1>5. /\ upload' \in [Uploads -> Frame] /\ \A v \in Uploads \ {u} : upload'[v] = upload[v]
      /\ upload'[u].at = "ready"
      /\ upload'[u].wrote = upload[u].wrote /\ upload'[u].count = upload[u].count
  BY <1>1, <1>3, <1>4 DEF LedgerType, Ready
<1>6. Written(u)' = Written(u) /\ Seen(u)' = Seen(u) /\ ledger' = ledger /\ sold' = sold
  BY <1>4, <1>5 DEF Written, Seen, Through, tables
<1>7. Holds(u)'
  <2>1. Quantity(Seen(u))' = Quantity(Seen(u)) /\ Quantity(ledger)' = Quantity(ledger)
    BY <1>6
  <2> QED BY <1>1, <1>4, <1>5, <1>6, <2>1 DEF Holds
<1> QED BY <1>1, <1>4, <1>5, <1>6, <1>7, UploadStep DEF LedgerType

\* Only a draft or an unknown return is registered, by who holds its identity or takes
\* it from nobody: what the registry does not know has no event.
LEMMA RegisterStep == ASSUME LedgerInv, NEW u \in Uploads, Register(u) PROVE LedgerInv'
<1> DEFINE r == upload[u].ret
<1>1. LedgerType /\ Agree /\ Holds(u) /\ Balanced(Seen(u))
  BY DEF LedgerInv
<1>2. upload[u] \in Frame /\ upload[u].at = "found" /\ r \in Returns /\ upload[u].payload \in Payloads
  BY <1>1 DEF LedgerType, Register
<1>3. [upload[u] EXCEPT !.at = "registered"] \in Frame
  BY <1>2 DEF Frame
<1>4. /\ upload' \in [Uploads -> Frame] /\ \A v \in Uploads \ {u} : upload'[v] = upload[v]
      /\ upload'[u].at = "registered" /\ upload'[u].ret = r
      /\ upload'[u].payload = upload[u].payload /\ upload'[u].wrote = upload[u].wrote
      /\ upload'[u].count = upload[u].count
  BY <1>1, <1>2, <1>3 DEF Register, LedgerType, Frame
<1>5. UNCHANGED <<tables, saleOwner, clear, crossed>> /\ owner' = [owner EXCEPT ![r] = u]
  BY DEF Register
<1>6. Written(u)' = Written(u) /\ Seen(u)' = Seen(u) /\ ledger' = ledger /\ sold' = sold
  BY <1>4, <1>5 DEF Written, Seen, Through, tables
<1>7. owner[r] \in {u, Nobody}
  BY <1>1, <1>2 DEF Register, Holds
<1>8. Seen(u)[r].status # "approved"
  <2>1. Known(u)[r] = NoReturn => Seen(u)[r] = NoReturn
    BY <1>1, <1>2, SeenRows DEF Agree
  <2> QED BY <2>1 DEF Register, Approves, NoReturn
<1> HIDE DEF r
<1>9. /\ owner' \in [Returns -> Uploads \cup {Nobody}] /\ owner'[r] = u
      /\ \A o \in Returns : owner'[o] = owner[o] \/ (owner[o] \in {u, Nobody} /\ owner'[o] = u)
  BY <1>1, <1>2, <1>5, <1>7 DEF LedgerType
<1>10. Holds(u)'
  <2>1. Quantity(Seen(u))' = Quantity(Seen(u)) /\ Quantity(ledger)' = Quantity(ledger)
    BY <1>6
  <2>2. \A o \in Written(u) : o \in Returns /\ owner[o] = u /\ ledger[o].status # "approved"
    BY <1>1, SeenRows DEF Holds
  <2> QED BY <1>1, <1>4, <1>5, <1>6, <1>8, <1>9, <2>1, <2>2 DEF Holds
<1> QED BY <1>1, <1>2, <1>4, <1>5, <1>6, <1>9, <1>10, UploadStep DEF LedgerType

\* What is written is measured by what the upload sees under the sale's lock.
LEMMA WriteStep == ASSUME LedgerInv, NEW u \in Uploads, Write(u) PROVE LedgerInv'
<1> DEFINE f == upload[u]
           r == upload[u].ret
           q == Quantity(Seen(u))
           a == Amount(Seen(u))
           more  == [o \in DOMAIN f.wrote \cup {r} |-> IF o = r THEN f.payload ELSE f.wrote[o]]
           count == IF f.payload.status = "approved" THEN q + f.payload.qty ELSE f.count
<1>1. LedgerType /\ Holds(u) /\ Balanced(Seen(u))
  BY DEF LedgerInv
<1>2. f \in Frame /\ f.at = "registered" /\ r \in Returns /\ f.payload \in Payloads
  BY <1>1 DEF LedgerType, Write
<1>3. q \in Nat /\ a \in Nat /\ f.payload.qty \in Nat \ {0} /\ f.payload.amount \in Nat
  BY <1>1, <1>2, SeenRows, QuantitySum, AmountSum, PayloadTypes
<1>4. more \in UNION {[D -> Payloads] : D \in SUBSET Returns} /\ DOMAIN more = Written(u) \cup {r}
  <2>1. Written(u) \cup {r} \in SUBSET Returns
    BY <1>1, <1>2, SeenRows
  <2>2. more \in [Written(u) \cup {r} -> Payloads]
    BY <1>1, <1>2, SeenRows DEF Written
  <2> QED BY <2>1, <2>2
<1>5. /\ UNCHANGED <<tables, owner, clear, crossed>> /\ saleOwner' = u
      /\ saleOwner \in {u, Nobody} /\ sold /\ clear.at # "unsold"
      /\ Fits(f.payload, q, a)
      /\ upload' = [upload EXCEPT ![u] = [Ready EXCEPT !.wrote = more, !.count = count]]
  BY DEF Write
<1>6. count \in Nat
  BY <1>2, <1>3 DEF Frame
<1>7. more[r] = f.payload /\ \A o \in Written(u) \ {r} : more[o] = f.wrote[o]
  BY DEF Written
<1> HIDE DEF more, count
<1>8. [Ready EXCEPT !.wrote = more, !.count = count] \in Frame
  BY <1>4, <1>6 DEF Ready, Frame, Row
<1>9. /\ upload' \in [Uploads -> Frame] /\ \A v \in Uploads \ {u} : upload'[v] = upload[v]
      /\ upload'[u].at = "ready" /\ upload'[u].wrote = more /\ upload'[u].count = count
  BY <1>1, <1>5, <1>8 DEF LedgerType, Ready
<1>10. Written(u)' = Written(u) \cup {r} /\ ledger' = ledger /\ sold' = sold /\ owner' = owner
  BY <1>4, <1>5, <1>9 DEF Written, tables
<1>11. owner[r] = u /\ Seen(u)[r].status # "approved"
  BY <1>1, <1>2 DEF Holds
<1>12. /\ Seen(u)' \in Ledgers /\ Seen(u)'[r] = f.payload
       /\ \A o \in Returns \ {r} : Seen(u)'[o] = Seen(u)[o]
  <2>1. Seen(u)' = [o \in Returns |-> IF o \in DOMAIN more THEN more[o] ELSE ledger[o]]
    BY <1>9, <1>10 DEF Seen, Through
  <2>2. \A o \in Returns \ {r} : Seen(u)'[o] = Seen(u)[o]
    BY <1>1, <1>4, <1>7, <2>1, SeenRows
  <2>3. Seen(u)'[r] = f.payload /\ f.payload \in Row
    BY <1>2, <1>4, <1>7, <2>1 DEF Row
  <2>4. Seen(u) \in Ledgers
    BY <1>1, SeenRows
  <2>5. \A o \in Returns : Seen(u)'[o] \in Row
    BY <2>2, <2>3, <2>4 DEF Ledgers
  <2>6. Seen(u)' = [o \in Returns |-> Seen(u)'[o]]
    BY <2>1
  <2> QED BY <2>2, <2>3, <2>5, <2>6 DEF Ledgers
<1>13. /\ Quantity(Seen(u)') = IF f.payload.status = "approved" THEN q + f.payload.qty ELSE q
       /\ Amount(Seen(u)') = IF f.payload.status = "approved" THEN a + f.payload.amount ELSE a
  <2>1. Quantity(Seen(u)') = q + Qtys(Seen(u)')[r] /\ Amount(Seen(u)') = a + Amounts(Seen(u)')[r]
    BY <1>1, <1>2, <1>11, <1>12, RowWritten, SeenRows
  <2>2. /\ Qtys(Seen(u)')[r] = IF f.payload.status = "approved" THEN f.payload.qty ELSE 0
        /\ Amounts(Seen(u)')[r] = IF f.payload.status = "approved" THEN f.payload.amount ELSE 0
    BY <1>2, <1>12 DEF Qtys, Amounts
  <2> HIDE DEF q, a
  <2> QED BY <1>3, <2>1, <2>2
<1>14. Balanced(Seen(u)')
  <2>1. q <= Sold /\ a <= Paid /\ (q = Sold => a = Paid) /\ Sold \in Nat /\ Paid \in Nat
    BY <1>1, LedgerAssumption DEF Balanced
  <2>2. /\ q + f.payload.qty <= Sold /\ f.payload.amount <= Paid - a
        /\ q + f.payload.qty = Sold => f.payload.amount = Paid - a
    BY <1>5 DEF Fits
  <2> HIDE DEF q, a
  <2> QED BY <1>3, <1>13, <2>1, <2>2 DEF Balanced
<1>15. Holds(u)'
  <2>1. \A o \in Written(u)' : owner'[o] = u /\ ledger'[o].status # "approved"
    <3>1. \A o \in Written(u) : owner[o] = u /\ ledger[o].status # "approved"
      BY <1>1 DEF Holds
    <3>2. r \notin Written(u) => ledger[r].status # "approved"
      BY <1>1, <1>2, <1>11, SeenRows
    <3> QED BY <1>10, <1>11, <3>1, <3>2
  <2>2. Quantity(Seen(u)') = IF count = 0 THEN Quantity(ledger) ELSE count
    <3>1. q = IF f.count = 0 THEN Quantity(ledger) ELSE f.count
      BY <1>1 DEF Holds
    <3> HIDE DEF q
    <3> QED BY <1>3, <1>13, <3>1 DEF count
  <2>3. Quantity(Seen(u))' = Quantity(Seen(u)') /\ Quantity(ledger)' = Quantity(ledger)
    BY <1>10
  <2> QED BY <1>5, <1>9, <1>10, <2>1, <2>2, <2>3 DEF Holds
<1> HIDE DEF f, r
<1> QED BY <1>1, <1>5, <1>9, <1>10, <1>14, <1>15, UploadStep DEF LedgerType

\* An upload that is ready has written nothing.
LEMMA ReadyFrame == Ready \in Frame /\ DOMAIN Ready.wrote = {} /\ Ready.at = "ready" /\ Ready.count = 0
<1> DEFINE none == [r \in {} |-> NoReturn]
<1>1. none \in [{} -> Payloads] /\ {} \in SUBSET Returns /\ DOMAIN none = {}
  OBVIOUS
<1>2. none \in UNION {[D -> Payloads] : D \in SUBSET Returns}
  BY <1>1
<1> HIDE DEF none
<1>3. Ready = [at |-> "ready", ret |-> Nobody, payload |-> NoReturn, found |-> FALSE,
               wrote |-> none, count |-> 0]
  BY DEF Ready, none
<1> QED BY <1>1, <1>2, <1>3 DEF Frame, Row

\* What EndTransaction leaves to an upload.
LEMMA Ended ==
  ASSUME LedgerType, NEW u \in Uploads, EndTransaction(u), ledger' \in Ledgers
  PROVE  /\ upload' \in [Uploads -> Frame] /\ upload'[u].at = "ready" /\ Written(u)' = {}
         /\ \A v \in Uploads \ {u} : upload'[v] = upload[v]
         /\ owner' \in [Returns -> Uploads \cup {Nobody}] /\ saleOwner' \in Uploads \cup {Nobody}
         /\ \A r \in Returns : owner'[r] = owner[r] \/ (owner[r] = u /\ owner'[r] = Nobody)
         /\ saleOwner' = saleOwner \/ (saleOwner = u /\ saleOwner' = Nobody)
         /\ Seen(u)' = ledger' /\ Holds(u)'
<1>1. Ready \in Frame /\ DOMAIN Ready.wrote = {} /\ Ready.at = "ready" /\ Ready.count = 0
  BY ReadyFrame
<1>2. upload' = [upload EXCEPT ![u] = Ready] /\ upload \in [Uploads -> Frame]
  BY DEF EndTransaction, LedgerType
<1>3. upload' \in [Uploads -> Frame] /\ upload'[u] = Ready /\ \A v \in Uploads \ {u} : upload'[v] = upload[v]
  BY <1>1, <1>2
<1>4. Written(u)' = {} /\ upload'[u].at = "ready" /\ upload'[u].count = 0
  BY <1>1, <1>3 DEF Written
<1>5. Seen(u)' = [r \in Returns |-> ledger'[r]]
  BY <1>4 DEF Seen, Through, Written
<1>6. Seen(u)' = ledger'
  BY <1>5 DEF Ledgers
<1>7. Quantity(Seen(u))' = Quantity(ledger)'
  BY <1>6
<1>8. Holds(u)'
  BY <1>4, <1>7 DEF Holds
<1> QED BY <1>3, <1>4, <1>6, <1>8 DEF EndTransaction, LedgerType

\* A rollback forgets what was written.
LEMMA RollbackStep == ASSUME LedgerInv, NEW u \in Uploads, Rollback(u) PROVE LedgerInv'
<1>1. LedgerType /\ EndTransaction(u) /\ UNCHANGED <<tables, clear, crossed>> /\ Balanced(ledger)
  BY DEF LedgerInv, Rollback
<1>2. ledger' = ledger /\ ledger' \in Ledgers
  BY <1>1 DEF tables, LedgerType
<1>3. /\ upload' \in [Uploads -> Frame] /\ upload'[u].at = "ready"
      /\ \A v \in Uploads \ {u} : upload'[v] = upload[v]
      /\ owner' \in [Returns -> Uploads \cup {Nobody}] /\ saleOwner' \in Uploads \cup {Nobody}
      /\ \A r \in Returns : owner'[r] = owner[r] \/ (owner[r] = u /\ owner'[r] = Nobody)
      /\ saleOwner' = saleOwner \/ (saleOwner = u /\ saleOwner' = Nobody)
      /\ Seen(u)' = ledger' /\ Holds(u)'
  BY <1>1, <1>2, Ended
<1> QED BY <1>1, <1>2, <1>3, UploadStep

\* What a commit does to the sale's rows.
LEMMA Committed ==
  ASSUME LedgerInv, NEW u \in Uploads, Commit(u)
  PROVE  /\ ledger' = Seen(u) /\ ledger' \in Ledgers /\ Balanced(ledger')
         /\ \A r \in Returns : ledger[r].status = "approved" => ledger'[r] = ledger[r]
         /\ \A r \in Returns \ Written(u) : ledger'[r] = ledger[r] /\ identity'[r] = identity[r]
         /\ \A r \in Written(u) : /\ ledger'[r] = upload[u].wrote[r] /\ identity'[r] = ledger'[r]
                                  /\ ledger'[r] \in Payloads /\ r \in Returns
         /\ Written(u) # {} => saleOwner = u /\ sold
         /\ Written(u) = {} => ledger' = ledger
<1>1. LedgerType /\ Holds(u) /\ ledger' = Seen(u) /\ identity' = Known(u) /\ Balanced(Seen(u))
  BY DEF LedgerInv, Commit
<1>2. Written(u) = {} => ledger' = ledger
  BY <1>1, SeenLedger
<1> QED BY <1>1, <1>2, SeenRows DEF Holds

\* What a commit adds to a reset that is under way has crossed it, or comes too late for
\* the sale to be deleted.
LEMMA CommitCrosses == ASSUME LedgerInv, NEW u \in Uploads, Commit(u) PROVE Agree' /\ ResetHolds'
<1>1. LedgerType /\ Agree /\ ResetHolds /\ UNCHANGED <<sold, clear>>
  BY DEF LedgerInv, Commit
<1>2. /\ \A r \in Returns \ Written(u) : ledger'[r] = ledger[r] /\ identity'[r] = identity[r]
      /\ \A r \in Written(u) : identity'[r] = ledger'[r] /\ r \in Returns
      /\ Written(u) # {} => saleOwner = u /\ sold
      /\ Written(u) = {} => ledger' = ledger
  BY Committed
<1>3. Posted' \subseteq Posted \cup Written(u)
  BY <1>2 DEF Posted
<1>4. crossed' = IF InTheWay THEN crossed \cup (Written(u) \ clear.ids) ELSE crossed
  BY DEF Commit, Written
<1>5. Agree'
  <2>1. \A r \in Returns : ledger'[r] # NoReturn \/ r \notin crossed' => identity'[r] = ledger'[r]
    BY <1>1, <1>2, <1>4 DEF Agree
  <2>2. ~ sold => Posted' = {}
    BY <1>1, <1>2, <1>3 DEF Agree
  <2> QED BY <1>1, <2>1, <2>2 DEF Agree
<1>6. ResetHolds'
  <2>1. CASE clear.at = "unsold"
    <3>1. saleOwner = Nobody /\ Written(u) = {}
      BY <1>1, <1>2, <2>1, LedgerAssumption DEF ResetHolds
    <3>2. saleOwner' = Nobody
      BY <3>1 DEF Commit, EndTransaction
    <3>3. Posted' = Posted
      BY <1>2, <3>1 DEF Posted
    <3> QED BY <1>1, <1>4, <2>1, <3>2, <3>3 DEF ResetHolds
  <2>2. CASE InTheWay
    BY <1>1, <1>3, <1>4, <2>2 DEF ResetHolds, InTheWay
  <2>3. CASE clear.at # "unsold" /\ ~ InTheWay
    BY <1>1, <1>4, <2>3 DEF ResetHolds, InTheWay, LedgerType, Resets
  <2> QED BY <2>1, <2>2, <2>3
<1> QED BY <1>5, <1>6

\* Another upload's rows are the same after a commit, or it has written nothing.
LEMMA CommitSpares ==
  ASSUME LedgerInv, NEW u \in Uploads, Commit(u), NEW v \in Uploads \ {u}
  PROVE  Holds(v)' /\ Balanced(Seen(v)')
<1>1. LedgerType /\ LedgerType' /\ Holds(u) /\ Holds(v) /\ EndTransaction(u) /\ sold' = sold
  <2>1. LedgerType /\ EndTransaction(u) /\ UNCHANGED <<sold, clear>>
    BY DEF LedgerInv, Commit
  <2>2. ledger' \in Ledgers
    BY Committed
  <2>3. projected' \in [Returns -> Nat]
    BY <2>1 DEF Commit, LedgerType
  <2>4. LedgerType'
    BY <2>1, <2>2, <2>3, Ended DEF LedgerType
  <2> QED BY <2>1, <2>4 DEF LedgerInv
<1>2. /\ upload'[v] = upload[v] /\ v # u /\ v # Nobody
      /\ \A r \in Returns : owner'[r] = owner[r] \/ (owner[r] = u /\ owner'[r] = Nobody)
      /\ saleOwner' = saleOwner \/ (saleOwner = u /\ saleOwner' = Nobody)
  BY <1>1, Ended, LedgerAssumption DEF LedgerType
<1>3. /\ ledger' = Seen(u) /\ Balanced(ledger')
      /\ \A r \in Returns \ Written(u) : ledger'[r] = ledger[r]
      /\ Written(u) # {} => saleOwner = u /\ sold
      /\ Written(u) = {} => ledger' = ledger
  BY Committed
<1>4. Written(v)' = Written(v)
  BY <1>2 DEF Written
<1>5. \A r \in Returns : owner[r] = v => ledger'[r] = ledger[r]
  BY <1>1, <1>2, <1>3 DEF Holds
<1>6. \A r \in Returns : ledger'[r] = ledger[r] => Seen(v)'[r] = Seen(v)[r]
  BY <1>1, <1>2, <1>4, SeenRows DEF Written, Seen, Through
<1>7. \A r \in Written(v) : r \in Returns /\ owner[r] = v /\ ledger[r].status # "approved"
  BY <1>1, SeenRows DEF Holds
<1>8. upload[v].at # "ready" => upload[v].ret \in Returns
  BY <1>1 DEF LedgerType
<1>9. /\ Balanced(Seen(v)')
      /\ Quantity(Seen(v)') = IF upload[v].count = 0 THEN Quantity(ledger') ELSE upload[v].count
  <2>1. CASE Written(u) = {}
    <3>1. Seen(v)' = Seen(v) /\ ledger' = ledger
      BY <1>2, <1>3, <2>1 DEF Seen, Through
    <3> QED BY <1>1, <3>1 DEF LedgerInv, Holds
  <2>2. CASE Written(u) # {}
    <3>1. Written(v) = {} /\ upload[v].count = 0
      BY <1>1, <1>2, <1>3, <2>2 DEF Holds
    <3>2. Seen(v)' = ledger'
      <4>1. Written(v)' = {} /\ LedgerType'
        BY <1>1, <1>4, <3>1
      <4>2. Seen(v)' = [r \in Returns |-> ledger'[r]]
        BY <4>1 DEF Seen, Through, Written
      <4> QED BY <4>1, <4>2 DEF LedgerType, Ledgers
    <3> QED BY <1>3, <3>1, <3>2
  <2> QED BY <2>1, <2>2
<1>10. Quantity(Seen(v))' = Quantity(Seen(v)') /\ Quantity(ledger)' = Quantity(ledger')
  OBVIOUS
<1> QED BY <1>1, <1>2, <1>3, <1>4, <1>5, <1>6, <1>7, <1>8, <1>9, <1>10 DEF Holds

\* A commit projects what it approves, and counts the sale if it has approved something.
LEMMA ReturnsCommit == ASSUME LedgerInv, NEW u \in Uploads, Commit(u) PROVE LedgerInv'
<1>1. LedgerType /\ Agree /\ Holds(u) /\ ReadModelFollows /\ EndTransaction(u) /\ UNCHANGED <<sold, clear>>
  BY DEF LedgerInv, Commit
<1>2. /\ ledger' = Seen(u) /\ ledger' \in Ledgers /\ Balanced(ledger')
      /\ \A r \in Returns \ Written(u) : ledger'[r] = ledger[r] /\ identity'[r] = identity[r]
      /\ \A r \in Written(u) : /\ ledger'[r] = upload[u].wrote[r] /\ identity'[r] = ledger'[r]
  BY Committed
<1>3. Seen(u)' = ledger' /\ Holds(u)'
  BY <1>1, <1>2, Ended
<1>4. projected' \in [Returns -> Nat]
  BY <1>1 DEF Commit, LedgerType
<1>5. LedgerType'
  BY <1>1, <1>2, <1>4, Ended DEF LedgerType
<1>6. \A v \in Uploads : Holds(v)' /\ Balanced(Seen(v)')
  BY <1>2, <1>3, CommitSpares
<1>7. counted' = Quantity(ledger)'
  <2>1. counted' = IF upload[u].count > 0 THEN upload[u].count ELSE counted
    BY DEF Commit
  <2>2. Quantity(ledger)' = Quantity(Seen(u)) /\ upload[u].count \in Nat
    BY <1>1, <1>2 DEF LedgerType, Frame
  <2>3. Quantity(Seen(u)) = IF upload[u].count = 0 THEN counted ELSE upload[u].count
    BY <1>1 DEF Holds, ReadModelFollows
  <2> QED BY <2>1, <2>2, <2>3
<1>8. ASSUME NEW r \in Returns
      PROVE  LET rows == IF ledger'[r].status = "approved" THEN 1 ELSE 0 IN
             /\ projected'[r] <= rows
             /\ r \notin crossed' => projected'[r] = rows /\ identity'[r] = ledger'[r]
  <2>1. projected'[r] = IF r \in ToProject(u) THEN projected[r] + 1 ELSE projected[r]
    BY DEF Commit
  <2>2. /\ projected[r] \in Nat
        /\ projected[r] <= IF ledger[r].status = "approved" THEN 1 ELSE 0
        /\ r \notin crossed => /\ projected[r] = IF ledger[r].status = "approved" THEN 1 ELSE 0
                               /\ identity[r] = ledger[r]
    BY <1>1 DEF ReadModelFollows, LedgerType
  <2>3. r \in crossed => r \in crossed'
    BY DEF Commit
  <2>4. CASE r \in Written(u)
    <3>1. ledger[r].status # "approved" /\ ledger'[r] = upload[u].wrote[r] /\ identity'[r] = ledger'[r]
      BY <1>1, <1>2, <2>4 DEF Holds
    <3>2. projected[r] = 0
      BY <2>2, <3>1
    <3>3. r \in ToProject(u) <=> ledger'[r].status = "approved"
      BY <2>4, <3>1, <3>2 DEF ToProject, Written
    <3> QED BY <2>1, <3>1, <3>2, <3>3
  <2>5. CASE r \notin Written(u)
    <3>1. ledger'[r] = ledger[r] /\ identity'[r] = identity[r] /\ projected'[r] = projected[r]
      BY <1>2, <2>1, <2>5 DEF ToProject, Written
    <3> QED BY <2>2, <2>3, <3>1
  <2> QED BY <2>4, <2>5
<1>9. ReadModelFollows'
  BY <1>7, <1>8 DEF ReadModelFollows
<1> QED BY <1>2, <1>5, <1>6, <1>9, CommitCrosses DEF LedgerInv

\* A step of a reset before its commit changes no table, only what the reset has come to.
LEMMA ResetStep ==
  ASSUME LedgerInv, UNCHANGED <<tables, owner, saleOwner, upload, crossed>>, clear' \in Resets,
         ResetHolds'
  PROVE  LedgerInv'
<1>1. UNCHANGED <<sold, counted, identity, ledger, projected, owner, saleOwner, upload, crossed>>
  BY DEF tables
<1>2. \A u \in Uploads : Written(u)' = Written(u) /\ Seen(u)' = Seen(u)
  BY <1>1 DEF Written, Seen, Through
<1>3. LedgerType'
  BY <1>1 DEF LedgerInv, LedgerType
<1>4. ASSUME NEW u \in Uploads PROVE Holds(u)' /\ Balanced(Seen(u)')
  <2>1. Quantity(Seen(u))' = Quantity(Seen(u)) /\ Quantity(ledger)' = Quantity(ledger)
    BY <1>1, <1>2
  <2>2. Holds(u) /\ Balanced(Seen(u))
    BY DEF LedgerInv
  <2> QED BY <1>1, <1>2, <2>1, <2>2 DEF Holds
<1>5. Agree' /\ ReadModelFollows' /\ Balanced(ledger')
  <2>1. Posted' = Posted
    BY <1>1 DEF Posted
  <2> QED BY <1>1, <2>1 DEF LedgerInv, Agree, ReadModelFollows
<1> QED BY <1>3, <1>4, <1>5 DEF LedgerInv

\* What the statements of a reset name is what is there when they start.
LEMMA StatementStep ==
  ASSUME LedgerInv,
         ClearLists \/ ClearFinds \/ ClearIdentities \/ ClearEvents \/ ClearSale \/ ClearFails
  PROVE  LedgerInv'
<1>1. LedgerType /\ Agree /\ ResetHolds /\ clear \in Resets /\ Posted \in SUBSET Returns
  BY DEF LedgerInv, LedgerType, Posted
<1>2. UNCHANGED <<tables, owner, saleOwner, upload, crossed>>
  BY DEF ClearLists, ClearFinds, ClearIdentities, ClearEvents, ClearSale, ClearFails
<1>3. Posted' = Posted /\ crossed' = crossed /\ saleOwner' = saleOwner
  BY <1>2 DEF Posted, tables
<1>4. CASE ClearLists
  <2>1. /\ clear' = [clear EXCEPT !.at = "listed", !.saw = sold] /\ clear.at = "none"
        /\ sold \in BOOLEAN
    BY <1>1, <1>4 DEF ClearLists, LedgerType
  <2>2. /\ clear' \in Resets /\ clear'.at = "listed" /\ clear'.saw = sold
        /\ clear'.ids = {} /\ clear'.events = {}
    BY <1>1, <2>1 DEF Resets, ResetHolds
  <2>3. ResetHolds'
    BY <1>1, <1>3, <2>2 DEF Agree, ResetHolds
  <2> QED BY <1>2, <2>2, <2>3, ResetStep
<1>5. CASE ClearFinds
  <2>1. clear' = [clear EXCEPT !.at = "found", !.ids = Posted] /\ clear.saw
    BY <1>5 DEF ClearFinds
  <2>2. clear' \in Resets /\ clear'.at = "found" /\ clear'.saw /\ clear'.ids = Posted
    BY <1>1, <2>1 DEF Resets
  <2>3. ResetHolds'
    BY <1>3, <2>2 DEF ResetHolds
  <2> QED BY <1>2, <2>2, <2>3, ResetStep
<1>6. CASE ClearIdentities
  <2>1. clear' = [clear EXCEPT !.at = "identities"] /\ clear.at = "found"
    BY <1>6 DEF ClearIdentities
  <2>2. /\ clear' \in Resets /\ clear'.at = "identities" /\ clear'.saw = clear.saw
        /\ clear'.ids = clear.ids
    BY <1>1, <2>1 DEF Resets
  <2>3. ResetHolds'
    BY <1>1, <1>3, <2>1, <2>2 DEF ResetHolds
  <2> QED BY <1>2, <2>2, <2>3, ResetStep
<1>7. CASE ClearEvents
  <2>1. clear' = [clear EXCEPT !.at = "events", !.events = Posted] /\ clear.at = "identities"
    BY <1>7 DEF ClearEvents
  <2>2. /\ clear' \in Resets /\ clear'.at = "events" /\ clear'.saw = clear.saw
        /\ clear'.ids = clear.ids /\ clear'.events = Posted
    BY <1>1, <2>1 DEF Resets
  <2>3. ResetHolds'
    BY <1>1, <1>3, <2>1, <2>2 DEF ResetHolds
  <2> QED BY <1>2, <2>2, <2>3, ResetStep
<1>8. CASE ClearSale
  <2>1. /\ clear' = [clear EXCEPT !.at = "unsold"] /\ clear.at = "events"
        /\ saleOwner = Nobody /\ Posted \subseteq clear.events
    BY <1>8 DEF ClearSale
  <2>2. /\ clear' \in Resets /\ clear'.at = "unsold" /\ clear'.saw = clear.saw
        /\ clear'.ids = clear.ids /\ clear'.events = clear.events
    BY <1>1, <2>1 DEF Resets
  <2>3. ResetHolds'
    BY <1>1, <1>3, <2>1, <2>2 DEF ResetHolds
  <2> QED BY <1>2, <2>2, <2>3, ResetStep
<1>9. CASE ClearFails
  <2>1. clear' = NoReset
    BY <1>9 DEF ClearFails
  <2>2. clear' \in Resets /\ clear'.at = "none" /\ clear'.ids = {} /\ clear'.events = {}
    BY <2>1 DEF Resets, NoReset
  <2>3. ResetHolds'
    BY <2>2 DEF ResetHolds
  <2> QED BY <1>2, <2>2, <2>3, ResetStep
<1> QED BY <1>4, <1>5, <1>6, <1>7, <1>8, <1>9

\* A sale that is there has no fewer rights than one that is not.
LEMMA PostSaleStep == ASSUME LedgerInv, PostSale PROVE LedgerInv'
<1>1. /\ sold' = TRUE
      /\ UNCHANGED <<counted, identity, ledger, projected, owner, saleOwner, upload, clear, crossed>>
  BY DEF PostSale
<1>2. \A u \in Uploads : Written(u)' = Written(u) /\ Seen(u)' = Seen(u)
  BY <1>1 DEF Written, Seen, Through
<1>3. LedgerType'
  BY <1>1 DEF LedgerInv, LedgerType
<1>4. ASSUME NEW u \in Uploads PROVE Holds(u)' /\ Balanced(Seen(u)')
  <2>1. Quantity(Seen(u))' = Quantity(Seen(u)) /\ Quantity(ledger)' = Quantity(ledger)
    BY <1>1, <1>2
  <2>2. Holds(u) /\ Balanced(Seen(u))
    BY DEF LedgerInv
  <2> QED BY <1>1, <1>2, <2>1, <2>2 DEF Holds
<1>5. Agree' /\ ResetHolds' /\ ReadModelFollows' /\ Balanced(ledger')
  <2>1. Posted' = Posted
    BY <1>1 DEF Posted
  <2> QED BY <1>1, <2>1 DEF LedgerInv, Agree, ResetHolds, ReadModelFollows
<1> QED BY <1>3, <1>4, <1>5 DEF LedgerInv

\* A reset that saw the sale leaves no event of it, and one that did not leaves them all.
LEMMA Cleared ==
  ASSUME LedgerInv, ClearCommits
  PROVE  /\ clear.saw => /\ ledger' = [r \in Returns |-> NoReturn] /\ sold' = FALSE /\ counted' = 0
                         /\ saleOwner = Nobody
                         /\ \A r \in Returns \ crossed : identity'[r] = NoReturn
         /\ ~ clear.saw => /\ UNCHANGED <<ledger, sold, counted>> /\ Posted \subseteq crossed
                           /\ \A r \in Returns : identity'[r] = identity[r]
<1>1. LedgerType /\ Agree /\ ResetHolds
  BY DEF LedgerInv
<1>2. /\ clear.at = IF clear.saw THEN "unsold" ELSE "listed"
      /\ sold' = (sold /\ ~ clear.saw)
      /\ counted' = IF clear.saw THEN 0 ELSE counted
      /\ identity' = [r \in Returns |-> IF r \in clear.ids THEN NoReturn ELSE identity[r]]
      /\ ledger' = [r \in Returns |-> IF r \in clear.events THEN NoReturn ELSE ledger[r]]
  BY DEF ClearCommits
<1>3. CASE clear.saw
  <2>1. saleOwner = Nobody /\ Posted \subseteq clear.events /\ clear.events \ clear.ids \subseteq crossed
    BY <1>1, <1>2, <1>3 DEF ResetHolds
  <2>2. \A r \in Returns : r \notin clear.events => ledger[r] = NoReturn
    BY <2>1 DEF Posted
  <2>3. ledger' = [r \in Returns |-> NoReturn]
    BY <1>2, <2>2
  <2>4. ASSUME NEW r \in Returns \ crossed PROVE identity'[r] = NoReturn
    <3>1. CASE r \in clear.ids
      BY <1>2, <3>1
    <3>2. CASE r \notin clear.ids
      <4>1. ledger[r] = NoReturn /\ identity[r] = ledger[r]
        BY <1>1, <2>1, <2>2, <3>2 DEF Agree
      <4> QED BY <1>2, <3>2, <4>1
    <3> QED BY <3>1, <3>2
  <2> QED BY <1>2, <1>3, <2>1, <2>3, <2>4
<1>4. CASE ~ clear.saw
  <2>1. clear.ids = {} /\ clear.events = {} /\ Posted \subseteq crossed
    BY <1>1, <1>2, <1>4 DEF ResetHolds
  <2>2. ledger' = [r \in Returns |-> ledger[r]] /\ \A r \in Returns : identity'[r] = identity[r]
    BY <1>2, <2>1
  <2>3. ledger' = ledger
    BY <1>1, <2>2 DEF LedgerType, Ledgers
  <2>4. sold' = sold
    BY <1>1, <1>2, <1>4 DEF LedgerType
  <2> QED BY <1>2, <1>4, <2>1, <2>2, <2>3, <2>4
<1> QED BY <1>3, <1>4

\* Nobody has written when the sale is deleted, so a reset leaves nothing to count.
LEMMA ClearCommitsStep == ASSUME LedgerInv, ClearCommits PROVE LedgerInv'
<1>1. LedgerType /\ Agree /\ ReadModelFollows /\ Balanced(ledger)
  BY DEF LedgerInv
<1>2. /\ UNCHANGED <<owner, saleOwner, upload, crossed>> /\ clear' = NoReset
      /\ projected' = [r \in Returns |-> 0]
  BY DEF ClearCommits
<1>3. /\ clear.saw => /\ ledger' = [r \in Returns |-> NoReturn] /\ sold' = FALSE /\ counted' = 0
                      /\ saleOwner = Nobody
                      /\ \A r \in Returns \ crossed : identity'[r] = NoReturn
      /\ ~ clear.saw => /\ UNCHANGED <<ledger, sold, counted>> /\ Posted \subseteq crossed
                        /\ \A r \in Returns : identity'[r] = identity[r]
  BY Cleared
<1>4. ledger' \in Ledgers /\ Balanced(ledger') /\ sold' \in BOOLEAN /\ counted' = Quantity(ledger')
  <2>1. CASE clear.saw
    BY <1>3, <2>1, NothingReturned
  <2>2. CASE ~ clear.saw
    BY <1>1, <1>3, <2>2 DEF LedgerType, ReadModelFollows
  <2> QED BY <2>1, <2>2
<1>5. /\ clear' \in Resets /\ clear'.at = "none" /\ clear'.ids = {} /\ clear'.events = {}
  BY <1>2 DEF Resets, NoReset
<1>6. LedgerType'
  BY <1>1, <1>2, <1>4, <1>5 DEF LedgerType
<1>7. ResetHolds'
  BY <1>5 DEF ResetHolds
<1>8. ASSUME NEW r \in Returns
      PROVE  /\ ledger'[r] # NoReturn \/ r \notin crossed => identity'[r] = ledger'[r]
             /\ r \notin crossed => ledger'[r].status # "approved"
  <2>1. CASE clear.saw
    BY <1>3, <2>1 DEF NoReturn
  <2>2. CASE ~ clear.saw
    <3>1. r \notin crossed => ledger[r] = NoReturn
      BY <1>3, <2>2 DEF Posted
    <3> QED BY <1>1, <1>3, <2>2, <3>1 DEF Agree, NoReturn
  <2> QED BY <2>1, <2>2
<1>9. Agree'
  <2>1. ~ sold' => Posted' = {}
    <3>1. CASE clear.saw
      BY <1>3, <3>1 DEF Posted
    <3>2. CASE ~ clear.saw
      <4>1. Posted' = Posted /\ sold' = sold
        BY <1>3, <3>2 DEF Posted
      <4> QED BY <1>1, <4>1 DEF Agree
    <3> QED BY <3>1, <3>2
  <2> QED BY <1>2, <1>8, <2>1 DEF Agree
<1>10. ReadModelFollows'
  <2>1. counted' = Quantity(ledger)'
    BY <1>4
  <2>2. ASSUME NEW r \in Returns
        PROVE  LET rows == IF ledger'[r].status = "approved" THEN 1 ELSE 0 IN
               /\ projected'[r] <= rows
               /\ r \notin crossed' => projected'[r] = rows /\ identity'[r] = ledger'[r]
    BY <1>2, <1>8
  <2> QED BY <2>1, <2>2 DEF ReadModelFollows
<1>11. ASSUME NEW u \in Uploads PROVE Holds(u)' /\ Balanced(Seen(u)')
  <2>1. Holds(u) /\ Balanced(Seen(u)) /\ Written(u)' = Written(u) /\ u # Nobody
    BY <1>2, LedgerAssumption DEF LedgerInv, Written
  <2>2. CASE clear.saw
    <3>1. Written(u) = {} /\ Written(u)' = {} /\ upload[u].count = 0
      BY <1>3, <2>1, <2>2 DEF Holds
    <3>2. Seen(u)' = [r \in Returns |-> ledger'[r]]
      BY <3>1 DEF Seen, Through, Written
    <3>3. Seen(u)' = ledger'
      BY <1>4, <3>2 DEF Ledgers
    <3>4. Quantity(Seen(u))' = Quantity(ledger)'
      BY <3>3
    <3>5. upload[u].at = "registered" => Seen(u)'[upload[u].ret].status # "approved"
      <4>1. upload[u].at = "registered" => upload[u].ret \in Returns
        BY <1>1 DEF LedgerType
      <4> QED BY <1>3, <2>2, <3>3, <4>1 DEF NoReturn
    <3> QED BY <1>2, <1>4, <2>1, <3>1, <3>3, <3>4, <3>5 DEF Holds
  <2>3. CASE ~ clear.saw
    <3>1. Seen(u)' = Seen(u) /\ ledger' = ledger /\ sold' = sold
      BY <1>2, <1>3, <2>3 DEF Seen, Through
    <3>2. Quantity(Seen(u))' = Quantity(Seen(u)) /\ Quantity(ledger)' = Quantity(ledger)
      BY <3>1
    <3> QED BY <1>2, <2>1, <3>1, <3>2 DEF Holds
  <2> QED BY <2>2, <2>3
<1> QED BY <1>4, <1>6, <1>7, <1>9, <1>10, <1>11 DEF LedgerInv

\* A sale without returns.
LEMMA InitLedger == LedgerInit => LedgerInv
<1> SUFFICES ASSUME LedgerInit PROVE LedgerInv
  OBVIOUS
<1>1. /\ sold = FALSE /\ ledger = [r \in Returns |-> NoReturn] /\ identity = [r \in Returns |-> NoReturn]
      /\ owner = [r \in Returns |-> Nobody] /\ saleOwner = Nobody
      /\ upload = [u \in Uploads |-> Ready] /\ clear = NoReset
      /\ counted = 0 /\ projected = [r \in Returns |-> 0]
  BY DEF LedgerInit
<1>2. ledger \in Ledgers /\ Quantity(ledger) = 0 /\ Balanced(ledger)
  BY <1>1, NothingReturned
<1>3. Ready \in Frame /\ DOMAIN Ready.wrote = {} /\ Ready.at = "ready" /\ Ready.count = 0
  BY ReadyFrame
<1>4. clear \in Resets /\ clear.at = "none" /\ clear.ids = {} /\ clear.events = {}
  BY <1>1 DEF Resets, NoReset
<1>5. LedgerType
  BY <1>1, <1>2, <1>3, <1>4 DEF LedgerType
<1>6. ASSUME NEW u \in Uploads PROVE Holds(u) /\ Balanced(Seen(u))
  <2>1. upload[u] = Ready /\ Written(u) = {}
    BY <1>1, <1>3 DEF Written
  <2>2. Seen(u) = ledger
    BY <1>5, <2>1, SeenLedger
  <2> QED BY <1>2, <1>3, <2>1, <2>2 DEF Holds
<1>7. Agree /\ ResetHolds
  BY <1>1, <1>4 DEF Agree, ResetHolds, Posted
<1>8. ReadModelFollows
  BY <1>1, <1>2 DEF ReadModelFollows, NoReturn
<1> QED BY <1>2, <1>5, <1>6, <1>7, <1>8 DEF LedgerInv

\* Every step of every upload and of a reset keeps the invariant.
LEMMA NextLedger == LedgerInv /\ [LedgerNext]_ledgerVars => LedgerInv'
<1> SUFFICES ASSUME LedgerInv, [LedgerNext]_ledgerVars PROVE LedgerInv'
  OBVIOUS
<1>1. CASE UNCHANGED ledgerVars
  <2>1. UNCHANGED <<tables, owner, saleOwner, upload, clear, crossed>>
    BY <1>1 DEF ledgerVars
  <2>2. Posted' = Posted
    BY <2>1 DEF Posted, tables
  <2>3. clear' \in Resets /\ ResetHolds'
    BY <2>1, <2>2 DEF LedgerInv, LedgerType, ResetHolds
  <2> QED BY <2>1, <2>3, ResetStep
<1>2. CASE LedgerNext
  BY <1>2, PostSaleStep, StatementStep, ClearCommitsStep, LookUpStep, SkipStep, RegisterStep,
     WriteStep, ReturnsCommit, RollbackStep DEF LedgerNext
<1> QED BY <1>1, <1>2

\* The sale's counter is the sum of its approved returns, the read model has none twice and
\* no other, and but for what was committed between two statements of a reset it has all
\* of them and the registry agrees with the ledger (confirm, clear_sales).
THEOREM ReadModelIsTrue == LedgerSpec => []ReadModelFollows
<1>1. LedgerInv => ReadModelFollows
  BY DEF LedgerInv
<1> QED BY InitLedger, NextLedger, <1>1, PTL DEF LedgerSpec

\* What the approved returns of a sale come to moves as the account allows: a commit that
\* approves something gives back more, within what was sold and paid, and everything that
\* was paid once everything is given back (post_return_event).
LEMMA AccountStep ==
  ASSUME LedgerInv, [LedgerNext]_ledgerVars
  PROVE  [Account!Settle \/ Account!Reopen]_<<Quantity(ledger), Amount(ledger)>>
<1>0. LedgerType
  BY DEF LedgerInv
<1>1. CASE UNCHANGED ledger
  BY <1>1
<1>2. CASE ClearCommits
  <2>1. ledger' = [r \in Returns |-> NoReturn] \/ UNCHANGED ledger
    BY <1>2, Cleared
  <2>2. ledger' = [r \in Returns |-> NoReturn] => Quantity(ledger') = 0 /\ Amount(ledger') = 0
    BY NothingReturned
  <2> QED BY <1>1, <2>1, <2>2 DEF Account!Reopen
<1>3. ASSUME NEW u \in Uploads, Commit(u)
      PROVE  [Account!Settle]_<<Quantity(ledger), Amount(ledger)>>
  <2>1. /\ ledger' \in Ledgers /\ Balanced(ledger')
        /\ \A r \in Returns : ledger[r].status = "approved" => ledger'[r] = ledger[r]
    BY <1>3, Committed
  <2>2. /\ Quantity(ledger) <= Quantity(ledger') /\ Amount(ledger) <= Amount(ledger')
        /\ Approved(ledger') # Approved(ledger) => Quantity(ledger) < Quantity(ledger')
        /\ Approved(ledger') = Approved(ledger) =>
             Quantity(ledger') = Quantity(ledger) /\ Amount(ledger') = Amount(ledger)
    BY <1>0, <2>1, RowsAdded DEF LedgerType
  <2>3. /\ Quantity(ledger) \in Nat /\ Amount(ledger) \in Nat
        /\ Quantity(ledger') \in Nat /\ Amount(ledger') \in Nat
    BY <1>0, <2>1, QuantitySum, AmountSum DEF LedgerType
  <2>4. CASE Approved(ledger') = Approved(ledger)
    BY <2>2, <2>4
  <2>5. CASE Approved(ledger') # Approved(ledger)
    <3>1. /\ Quantity(ledger') \in (Quantity(ledger) + 1)..Sold
          /\ Amount(ledger') \in Amount(ledger)..Paid
          /\ Quantity(ledger') = Sold => Amount(ledger') = Paid
      BY <2>1, <2>2, <2>3, <2>5, LedgerAssumption DEF Balanced
    <3> QED BY <3>1 DEF Account!Settle
  <2> QED BY <2>4, <2>5
<1>4. ASSUME NEW u \in Uploads,
             SkipKnown(u) \/ Register(u) \/ Write(u) \/ Rollback(u)
               \/ \E r \in Returns, payload \in Payloads : LookUp(u, r, payload)
      PROVE  UNCHANGED ledger
  BY <1>4 DEF tables, LookUp, SkipKnown, Register, Write, Rollback
<1>5. CASE PostSale \/ ClearLists \/ ClearFinds \/ ClearIdentities \/ ClearEvents \/ ClearSale
           \/ ClearFails \/ UNCHANGED ledgerVars
  <2>1. UNCHANGED ledger
    BY <1>5 DEF ledgerVars, tables, PostSale, ClearLists, ClearFinds, ClearIdentities, ClearEvents,
                ClearSale, ClearFails
  <2> QED BY <1>1, <2>1
<1> QED BY <1>1, <1>2, <1>3, <1>4, <1>5 DEF LedgerNext

\* The committed returns of a sale keep its account, whatever uploads post them together
\* and whatever reset runs beside them (post_return_event, clear_sales).
THEOREM ReturnsImplementAccount == LedgerSpec => ReturnsKeepAccount
<1>1. LedgerInit => Account!AccountInit
  BY NothingReturned DEF LedgerInit, Account!AccountInit
<1>2. LedgerInv /\ [LedgerNext]_ledgerVars
        => [Account!Settle \/ Account!Reopen]_<<Quantity(ledger), Amount(ledger)>>
  BY AccountStep
<1> QED BY InitLedger, NextLedger, <1>1, <1>2, PTL DEF LedgerSpec, ReturnsKeepAccount, Account!AccountSpec

-----------------------------------------------------------------------------
(* Sales: keys *)

Modes == {"order", "fields", "period"}
FileKeys(mode, lines) == {RecordKey(mode, lines, i) : i \in DOMAIN lines}
Keys  == UNION {UNION {FileKeys(mode, lines) : lines \in Files} : mode \in Modes}
Entry == [key : Keys, value : SaleValues]

\* What a key is made of.
Parts == Modes \cup Subjects \cup SaleValues \cup Nat

\* A file is a function on its first lines (assign_record_keys).
LEMMA FileLines ==
  ASSUME NEW lines \in Files
  PROVE  /\ \E n \in 1..MaxLines : DOMAIN lines = 1..n
         /\ DOMAIN lines \subseteq 1..MaxLines
         /\ \A i \in DOMAIN lines : lines[i] \in Line
<1>1. PICK n \in 1..MaxLines : lines \in [1..n -> Line]
  BY DEF Files
<1>2. 1..n \subseteq 1..MaxLines
  BY SalesAssumption
<1> QED
  BY <1>1, <1>2

\* base_key has the parts its kind of identity asks for, in their order.
LEMMA BaseIsTuple ==
  ASSUME NEW mode \in Modes, NEW l \in Line
  PROVE  /\ BaseKey(mode, l) \in Seq(Parts)
         /\ Len(BaseKey(mode, l)) = IF mode = "fields" THEN 3 ELSE 2
<1>1. mode \in Parts /\ l.subject \in Parts /\ l.value \in Parts
  BY DEF Line, Parts
<1>2. CASE mode = "fields"
  BY <1>1, <1>2 DEF BaseKey
<1>3. CASE mode # "fields"
  BY <1>1, <1>3 DEF BaseKey
<1> QED
  BY <1>2, <1>3

\* How often a line's identity has come in its file so far.
Before(mode, lines, i) == {j \in 1..i : BaseKey(mode, lines[j]) = BaseKey(mode, lines[i])}

\* It is a number.
LEMMA Occurrence ==
  ASSUME NEW mode \in Modes, NEW lines \in Files, NEW i \in DOMAIN lines
  PROVE  IsFiniteSet(Before(mode, lines, i)) /\ Cardinality(Before(mode, lines, i)) \in Nat
<1>1. i \in Int
  BY FileLines
<1>2. IsFiniteSet(1..i)
  BY <1>1, FS_Interval
<1>3. Before(mode, lines, i) \in SUBSET (1..i)
  BY DEF Before
<1> QED
  BY <1>2, <1>3, FS_Subset, FS_CardinalityType

\* A key is a tuple of two parts or more: no row without a sale has one.
LEMMA KeyIsTuple ==
  ASSUME NEW mode \in Modes, NEW lines \in Files, NEW i \in DOMAIN lines
  PROVE  /\ RecordKey(mode, lines, i) \in Seq(Parts)
         /\ Len(RecordKey(mode, lines, i)) >= 2
         /\ mode = "period" => RecordKey(mode, lines, i) = BaseKey(mode, lines[i])
         /\ mode # "period" =>
              RecordKey(mode, lines, i)
                = Append(BaseKey(mode, lines[i]), Cardinality(Before(mode, lines, i)))
<1>1. PICK base \in Seq(Parts) : base = BaseKey(mode, lines[i]) /\ Len(base) \in {2, 3}
  BY FileLines, BaseIsTuple
<1>2. PICK n \in Nat : n = Cardinality(Before(mode, lines, i))
  BY Occurrence
<1>3. n \in Parts
  BY DEF Parts
<1>4. Append(base, n) \in Seq(Parts) /\ Len(Append(base, n)) = Len(base) + 1
  BY <1>3, AppendProperties
<1>5. RecordKey(mode, lines, i) = IF mode = "period" THEN base ELSE Append(base, n)
  <2>1. RecordKey(mode, lines, i)
          = IF mode = "period" THEN BaseKey(mode, lines[i])
            ELSE Append(BaseKey(mode, lines[i]), Cardinality(Before(mode, lines, i)))
    BY Zenon DEF RecordKey, Before
  <2> QED BY <1>1, <1>2, <2>1, Zenon
<1>6. CASE mode = "period"
  <2>1. RecordKey(mode, lines, i) = base
    BY <1>5, <1>6
  <2>2. PICK L \in {2, 3} : L = Len(base)
    BY <1>1
  <2>3. L >= 2
    BY <2>2
  <2>4. Len(base) >= 2
    BY <2>2, <2>3, Zenon
  <2>5. RecordKey(mode, lines, i) \in Seq(Parts) /\ Len(RecordKey(mode, lines, i)) >= 2
    BY <2>1, <2>4, Zenon
  <2> QED BY <1>1, <1>6, <2>1, <2>5, Zenon
<1>7. CASE mode # "period"
  <2>1. RecordKey(mode, lines, i) = Append(base, n)
    BY <1>5, <1>7
  <2>2. Len(Append(base, n)) >= 2
    <3>1. PICK L \in {2, 3} : L = Len(base)
      BY <1>1
    <3>2. Len(Append(base, n)) = L + 1
      BY <1>4, <3>1, Zenon
    <3>3. L + 1 >= 2
      BY <3>1
    <3> QED BY <3>2, <3>3, Zenon
  <2>3. Append(base, n) = Append(BaseKey(mode, lines[i]), Cardinality(Before(mode, lines, i)))
    BY <1>1, <1>2, Zenon
  <2> QED BY <1>4, <1>7, <2>1, <2>2, <2>3, Zenon
<1> QED
  BY <1>6, <1>7

\* No key is what a row without a sale holds.
LEMMA KeyIsMeant ==
  ASSUME NEW mode \in Modes, NEW lines \in Files, NEW i \in DOMAIN lines
  PROVE  /\ RecordKey(mode, lines, i) # Unused.key
         /\ RecordKey(mode, lines, i) # Removed.key
<1>1. PICK key : key = RecordKey(mode, lines, i) /\ Len(key) >= 2
  BY KeyIsTuple
<1>2. ~ (1 >= 2) /\ Len(<<"unused">>) = 1 /\ Len(<<"removed">>) = 1
  OBVIOUS
<1>3. key # <<"unused">> /\ key # <<"removed">>
  BY <1>1, <1>2, Zenon
<1> QED
  BY <1>1, <1>2, <1>3 DEF Unused, Removed

\* Two lines of a file never get one key, but for totals of one period
\* (assign_record_keys).
LEMMA KeysDiffer ==
  ASSUME NEW mode \in Modes \ {"period"}, NEW lines \in Files,
         NEW i \in DOMAIN lines, NEW j \in DOMAIN lines, i < j
  PROVE  RecordKey(mode, lines, i) # RecordKey(mode, lines, j)
<1> SUFFICES ASSUME RecordKey(mode, lines, i) = RecordKey(mode, lines, j) PROVE FALSE
  OBVIOUS
<1> DEFINE a == BaseKey(mode, lines[i])
           b == BaseKey(mode, lines[j])
           m == Cardinality(Before(mode, lines, i))
           n == Cardinality(Before(mode, lines, j))
<1>1. /\ a \in Seq(Parts) /\ b \in Seq(Parts) /\ Len(a) = Len(b)
      /\ m \in Nat /\ n \in Nat /\ m \in Parts /\ n \in Parts
  BY FileLines, BaseIsTuple, Occurrence DEF Parts
<1>2. Append(a, m) = Append(b, n)
  BY KeyIsTuple
<1> HIDE DEF a, b, m, n
<1>3. a = b /\ m = n
  BY <1>1, <1>2, AppendInjective
<1>4. Before(mode, lines, i) \subseteq Before(mode, lines, j)
  BY <1>3, FileLines DEF Before, a, b
<1>5. j \in Before(mode, lines, j) /\ j \notin Before(mode, lines, i)
  BY FileLines DEF Before
<1> QED
  BY <1>3, <1>4, <1>5, Occurrence, FS_Subset DEF m, n

\* A file's lines that are not rejected have keys of their own.
LEMMA KeyedApart ==
  ASSUME NEW mode \in Modes, NEW lines \in Files,
         NEW given, given = Keyed(mode, lines)
  PROVE  /\ DOMAIN given \subseteq 1..MaxLines
         /\ \A i \in DOMAIN given : given[i] \in Entry
         /\ \A i, j \in DOMAIN given : given[i].key = given[j].key => i = j
<1>1. PICK n \in 1..MaxLines : DOMAIN lines = 1..n
  BY FileLines
<1>2. DOMAIN given \subseteq DOMAIN lines
  BY DEF Keyed
<1>3. ASSUME NEW i \in DOMAIN given
      PROVE  given[i] = [key |-> RecordKey(mode, lines, i), value |-> lines[i].value]
  BY <1>2, <1>3 DEF Keyed
<1>4. ASSUME NEW i \in DOMAIN given PROVE given[i] \in Entry
  <2>1. i \in DOMAIN lines /\ i \in 1..MaxLines /\ lines[i].value \in SaleValues
    BY <1>2, FileLines DEF Line
  <2>2. RecordKey(mode, lines, i) \in Keys
    <3>1. RecordKey(mode, lines, i) \in FileKeys(mode, lines)
      BY <2>1 DEF FileKeys
    <3> QED BY <3>1 DEF Keys
  <2> QED BY <1>3, <2>1, <2>2 DEF Entry
<1>5. ASSUME NEW i \in DOMAIN given, NEW j \in DOMAIN given, given[i].key = given[j].key
      PROVE  i = j
  <2>1. RecordKey(mode, lines, i) = RecordKey(mode, lines, j)
    BY <1>3, <1>5
  <2>2. i \in DOMAIN lines /\ j \in DOMAIN lines /\ i \in Int /\ j \in Int
    BY <1>1, <1>2
  <2>3. CASE mode = "period"
    BY <1>5, <2>1, <2>2, <2>3 DEF Keyed
  <2>4. CASE mode # "period"
    <3>1. ~ (i < j) /\ ~ (j < i)
      BY <2>1, <2>2, <2>4, KeysDiffer
    <3> QED BY <2>2, <3>1
  <2> QED BY <2>3, <2>4
<1> QED
  BY <1>1, <1>2, <1>4, <1>5, FileLines

\* What a row without a sale holds is no key.
LEMMA MeantKeys == Unused.key \notin Keys /\ Removed.key \notin Keys
<1> SUFFICES ASSUME NEW k \in Keys PROVE k # Unused.key /\ k # Removed.key
  OBVIOUS
<1>1. PICK mode \in Modes, lines \in Files : k \in FileKeys(mode, lines)
  BY DEF Keys
<1>2. PICK i \in DOMAIN lines : k = RecordKey(mode, lines, i)
  BY <1>1 DEF FileKeys
<1> QED
  BY <1>2, KeyIsMeant

-----------------------------------------------------------------------------
(* Sales: the inductive invariant, what imports and removals know of the rows *)

FileLine  == UNION {[D -> Entry] : D \in SUBSET (1..MaxLines)}
FileTodo  == UNION {[D -> Rows] : D \in SUBSET (1..MaxLines)}
FileFixed == UNION {[D -> SaleValues] : D \in SUBSET Rows}

SalesFile == [lines : FileLine, new : SUBSET (1..MaxLines), todo : FileTodo,
              fixed : FileFixed, crossed : BOOLEAN]
Table     == [Rows -> Entry \cup {Unused, Removed}]

ImportType ==
  /\ sales \in Table /\ import \in [Imports -> SalesFile]
  /\ removal \in [Removers -> [kind : {"none", "copies", "invalid", "all"}, rows : SUBSET Rows]]

\* Who has a file open has the lock.
OneWriter == \A u \in Imports : import[u] # NoFile => importLock = u

\* The rows of a table that hold a sale, and those that hold one with the key.
InTable(t)    == {id \in Rows : t[id] \in Entry}
Holders(t, k) == {id \in Rows : t[id].key = k}

\* The value that row id has once f is committed.
Final(t, f, id) == IF id \in DOMAIN f.fixed THEN f.fixed[id] ELSE t[id].value

\* What a file was planned by is still so, but for the rows that a repair or a reset took.
Planned(t, f) ==
  /\ f.new \subseteq DOMAIN f.lines /\ DOMAIN f.todo \subseteq DOMAIN f.lines \ f.new
  /\ \A i, j \in DOMAIN f.lines : f.lines[i].key = f.lines[j].key => i = j
  /\ \A i \in f.new : Holders(t, f.lines[i].key) = {}
  /\ \A r \in DOMAIN f.fixed : \E i \in DOMAIN f.lines : Holders(t, f.lines[i].key) = {r}
  /\ ~ f.crossed => \A i \in DOMAIN f.lines \ f.new : \E id \in Rows :
       /\ Holders(t, f.lines[i].key) = {id}
       /\ i \in DOMAIN f.todo => f.todo[i] = id
       /\ i \notin DOMAIN f.todo => Final(t, f, id) = f.lines[i].value

\* Only the copies of old share a key, and their rows are not used again.
Alone(t) ==
  /\ \A a, b \in InTable(t) : a # b /\ t[a].key = t[b].key => a \in Legacy
  /\ \A id \in Legacy : t[id] # Unused

Twins(t) == 1 \in InTable(t) /\ 2 \in InTable(t) /\ t[1] = t[2]

\* A repair of copies takes the second of two twins, whatever happens meanwhile; nothing
\* takes the first of twins without the second.
KeepsOne(t, r) ==
  /\ r.kind = "copies" => r.rows \subseteq {2} /\ (2 \in r.rows \cap InTable(t) => Twins(t))
  /\ Twins(t) /\ 1 \in r.rows => 2 \in r.rows

SalesInv ==
  /\ ImportType /\ OneWriter /\ Alone(sales)
  /\ \A u \in Imports : Planned(sales, import[u])
  /\ \A x \in Removers : KeepsOne(sales, removal[x])

\* A row of a table is stored when it holds a sale.
LEMMA TableRows ==
  ASSUME NEW t \in Table
  PROVE  /\ 1 \in Rows /\ 2 \in Rows /\ Legacy = {1, 2}
         /\ Unused \notin Entry /\ Removed \notin Entry
         /\ \A k \in Keys : Holders(t, k) \subseteq InTable(t)
         /\ InTable(t) = {id \in Rows : t[id] \notin {Unused, Removed}}
         /\ \A id \in InTable(t) : /\ t[id] = [key |-> t[id].key, value |-> t[id].value]
                                   /\ t[id].key \in Keys /\ t[id].value \in SaleValues
<1>1. \A e \in Entry : /\ e = [key |-> e.key, value |-> e.value]
                       /\ e.key \in Keys /\ e.value \in SaleValues
  BY DEF Entry
<1>2. Unused \notin Entry /\ Removed \notin Entry
  BY <1>1, MeantKeys
<1>3. \A id \in Rows : t[id] \in Entry \/ t[id] = Unused \/ t[id] = Removed
  BY DEF Table
<1>4. InTable(t) = {id \in Rows : t[id] \notin {Unused, Removed}}
  BY <1>2, <1>3 DEF InTable
<1>5. ASSUME NEW k \in Keys, NEW id \in Holders(t, k) PROVE id \in InTable(t)
  <2>1. t[id] # Unused /\ t[id] # Removed
    BY MeantKeys DEF Holders
  <2> QED BY <1>3, <2>1 DEF InTable, Holders
<1>6. 1 \in Rows /\ 2 \in Rows
  BY SalesAssumption DEF Rows
<1> QED
  BY <1>1, <1>2, <1>4, <1>5, <1>6 DEF Legacy, InTable

\* The model's names for the rows are these of its table.
LEMMA SameRows ==
  ASSUME ImportType
  PROVE  Stored = InTable(sales) /\ \A k : Copies(k) = Holders(sales, k)
  BY TableRows DEF ImportType, Stored, Copies, Holders

\* A set of rows with at most one of them.
LEMMA FewRows ==
  ASSUME NEW C \in SUBSET Rows, Cardinality(C) <= 1
  PROVE  C = {} \/ \E id \in Rows : C = {id}
<1>1. IsFiniteSet(Rows)
  BY FS_Interval, SalesAssumption DEF Rows
<1>2. IsFiniteSet(C) /\ Cardinality(C) \in Nat
  BY <1>1, FS_Subset, FS_CardinalityType
<1>3. CASE Cardinality(C) = 0
  BY <1>2, <1>3, FS_EmptySet
<1>4. CASE Cardinality(C) = 1
  BY <1>2, <1>4, FS_Singleton
<1> QED
  BY <1>2, <1>3, <1>4

\* The file of who has none is typed, and plans nothing.
LEMMA NoFilePlan ==
  /\ NoFile \in SalesFile
  /\ DOMAIN NoFile.lines = {} /\ NoFile.new = {} /\ DOMAIN NoFile.todo = {}
  /\ DOMAIN NoFile.fixed = {} /\ NoFile.crossed = FALSE
  /\ \A t : Planned(t, NoFile)
<1>1. DOMAIN <<>> = {}
  OBVIOUS
<1>2. ASSUME NEW S PROVE <<>> \in [{} -> S]
  OBVIOUS
<1>3. <<>> \in FileLine /\ <<>> \in FileTodo /\ <<>> \in FileFixed
  BY <1>2 DEF FileLine, FileTodo, FileFixed
<1>4. /\ DOMAIN NoFile.lines = {} /\ NoFile.new = {} /\ DOMAIN NoFile.todo = {}
      /\ DOMAIN NoFile.fixed = {} /\ NoFile.crossed = FALSE
  BY <1>1 DEF NoFile
<1>5. ASSUME NEW t PROVE Planned(t, NoFile)
  BY <1>4 DEF Planned
<1> QED
  BY <1>3, <1>4, <1>5 DEF NoFile, SalesFile

-----------------------------------------------------------------------------
(* Sales: rows that go *)

\* t2 is t without the rows of gone.
Taken(t, gone, t2) ==
  gone \subseteq InTable(t) /\ t2 = [id \in Rows |-> IF id \in gone THEN Removed ELSE t[id]]

\* The other rows, and who has which key of them, are as they were.
LEMMA TakenRows ==
  ASSUME NEW t \in Table, NEW gone, NEW t2, Taken(t, gone, t2)
  PROVE  /\ t2 \in Table /\ InTable(t2) = InTable(t) \ gone
         /\ \A k \in Keys : Holders(t2, k) = Holders(t, k) \ gone
         /\ \A id \in Rows \ gone : t2[id] = t[id]
<1> USE DEF Taken
<1>1. /\ \A id \in gone : id \in Rows /\ t2[id] = Removed
      /\ \A id \in Rows \ gone : t2[id] = t[id]
  BY DEF InTable
<1>2. t2 \in Table
  BY DEF Table
<1>3. InTable(t2) = InTable(t) \ gone
  BY <1>1, TableRows DEF InTable
<1>4. ASSUME NEW k \in Keys PROVE Holders(t2, k) = Holders(t, k) \ gone
  BY <1>1, MeantKeys DEF Holders
<1> QED
  BY <1>1, <1>2, <1>3, <1>4

\* Where rows go, nobody who was alone becomes a copy.
LEMMA TakenAlone ==
  ASSUME NEW t \in Table, NEW gone, NEW t2, Taken(t, gone, t2), Alone(t)
  PROVE  Alone(t2)
<1>1. /\ InTable(t2) = InTable(t) \ gone
      /\ \A id \in Rows \ gone : t2[id] = t[id]
  BY TakenRows
<1>2. \A id \in gone : t2[id] = Removed
  BY DEF Taken, InTable
<1>3. Removed # Unused
  BY DEF Removed, Unused
<1>4. ASSUME NEW a \in InTable(t2), NEW b \in InTable(t2), a # b, t2[a].key = t2[b].key
      PROVE  a \in Legacy
  <2>1. a \in InTable(t) /\ b \in InTable(t) /\ t2[a] = t[a] /\ t2[b] = t[b]
    BY <1>1 DEF InTable
  <2> QED BY <1>4, <2>1 DEF Alone
<1>5. ASSUME NEW id \in Legacy PROVE t2[id] # Unused
  <2>1. id \in Rows /\ t[id] # Unused
    BY TableRows DEF Alone
  <2> QED BY <1>1, <1>2, <1>3, <2>1
<1> QED
  BY <1>4, <1>5 DEF Alone

\* A removal that takes the first of twins with the second, if it takes it, leaves every
\* other's aim as it was (sanket_dedupe_sales, sanket_repair_invalid_sales).
LEMMA TakenKeeps ==
  ASSUME NEW t \in Table, NEW gone, NEW t2, Taken(t, gone, t2),
         Twins(t) /\ 1 \in gone => 2 \in gone,
         NEW r, KeepsOne(t, r)
  PROVE  KeepsOne(t2, r)
<1>1. /\ InTable(t2) = InTable(t) \ gone
      /\ \A id \in Rows \ gone : t2[id] = t[id]
      /\ 1 \in Rows /\ 2 \in Rows
  BY TakenRows, TableRows
<1>2. Twins(t2) <=> Twins(t) /\ 1 \notin gone /\ 2 \notin gone
  BY <1>1 DEF Twins
<1> QED
  BY <1>1, <1>2 DEF KeepsOne

\* g is f, marked as crossed where a row that it counts on may be gone.
Spared(t, gone, f, g) ==
  /\ gone \cap DOMAIN f.fixed = {}
  /\ g.lines = f.lines /\ g.new = f.new /\ g.todo = f.todo /\ g.fixed = f.fixed
  /\ ~ g.crossed => ~ f.crossed /\ \A id \in gone : \A k \in Keys : Holders(t, k) # {id}

\* A file's plan stays good where none of its rows goes.
LEMMA TakenPlan ==
  ASSUME NEW t \in Table, NEW gone, NEW t2, Taken(t, gone, t2),
         NEW f \in SalesFile, Planned(t, f), NEW g, Spared(t, gone, f, g)
  PROVE  Planned(t2, g)
<1> USE DEF Spared
<1>1. /\ \A k \in Keys : Holders(t2, k) = Holders(t, k) \ gone
      /\ \A id \in Rows \ gone : t2[id] = t[id]
  BY TakenRows
<1>2. \A i \in DOMAIN f.lines : f.lines[i].key \in Keys
  BY DEF SalesFile, FileLine, Entry
<1>3. \A i \in f.new : Holders(t2, f.lines[i].key) = {}
  BY <1>1, <1>2 DEF Planned
<1>4. ASSUME NEW r \in DOMAIN f.fixed
      PROVE  \E i \in DOMAIN f.lines : Holders(t2, f.lines[i].key) = {r}
  <2>1. PICK i \in DOMAIN f.lines : Holders(t, f.lines[i].key) = {r}
    BY DEF Planned
  <2>2. Holders(t2, f.lines[i].key) = {r}
    BY <1>1, <1>2, <2>1
  <2> QED BY <2>2
<1>5. ASSUME ~ g.crossed, NEW i \in DOMAIN f.lines \ f.new
      PROVE  \E id \in Rows : /\ Holders(t2, f.lines[i].key) = {id}
                              /\ i \in DOMAIN f.todo => f.todo[i] = id
                              /\ i \notin DOMAIN f.todo => Final(t2, f, id) = f.lines[i].value
  <2>1. PICK id \in Rows : /\ Holders(t, f.lines[i].key) = {id}
                           /\ i \in DOMAIN f.todo => f.todo[i] = id
                           /\ i \notin DOMAIN f.todo => Final(t, f, id) = f.lines[i].value
    BY <1>5 DEF Planned
  <2>2. id \notin gone
    BY <1>2, <1>5, <2>1
  <2>3. Holders(t2, f.lines[i].key) = {id} /\ t2[id] = t[id]
    BY <1>1, <1>2, <2>1, <2>2
  <2>4. Final(t2, f, id) = Final(t, f, id)
    BY <2>3 DEF Final
  <2> QED BY <2>1, <2>3, <2>4
<1>6. ASSUME NEW id PROVE Final(t2, g, id) = Final(t2, f, id)
  BY DEF Final
<1>7. ASSUME ~ g.crossed, NEW i \in DOMAIN g.lines \ g.new
      PROVE  \E id \in Rows : /\ Holders(t2, g.lines[i].key) = {id}
                              /\ i \in DOMAIN g.todo => g.todo[i] = id
                              /\ i \notin DOMAIN g.todo => Final(t2, g, id) = g.lines[i].value
  <2>1. PICK id \in Rows : /\ Holders(t2, f.lines[i].key) = {id}
                           /\ i \in DOMAIN f.todo => f.todo[i] = id
                           /\ i \notin DOMAIN f.todo => Final(t2, f, id) = f.lines[i].value
    BY <1>5, <1>7
  <2> QED BY <1>6, <2>1
<1>8. /\ g.new \subseteq DOMAIN g.lines /\ DOMAIN g.todo \subseteq DOMAIN g.lines \ g.new
      /\ \A i, j \in DOMAIN g.lines : g.lines[i].key = g.lines[j].key => i = j
  BY DEF Planned
<1>9. /\ \A i \in g.new : Holders(t2, g.lines[i].key) = {}
      /\ \A r \in DOMAIN g.fixed : \E i \in DOMAIN g.lines : Holders(t2, g.lines[i].key) = {r}
  BY <1>3, <1>4
<1> QED
  BY <1>7, <1>8, <1>9 DEF Planned

-----------------------------------------------------------------------------
(* Sales: rows that a file corrects and adds *)

\* t2 is t with what the file f, all of whose corrections are made, writes; its new lines
\* get the rows of ids (upsert_sales_rows).
WrittenBy(t, f, ids, t2) ==
  /\ DOMAIN f.todo = {}
  /\ ids \in [f.new -> {r \in Rows : t[r] = Unused}]
  /\ \A i, j \in f.new : ids[i] = ids[j] => i = j
  /\ t2 = [r \in Rows |->
       IF r \in DOMAIN f.fixed THEN [t[r] EXCEPT !.value = f.fixed[r]]
       ELSE IF \E i \in f.new : ids[i] = r THEN f.lines[CHOOSE i \in f.new : ids[i] = r]
       ELSE t[r]]

\* A row that is corrected is its key's only one.
LEMMA FixedRows ==
  ASSUME NEW t \in Table, NEW f \in SalesFile, Planned(t, f), NEW r \in DOMAIN f.fixed
  PROVE  r \in InTable(t) /\ Holders(t, t[r].key) = {r} /\ f.fixed[r] \in SaleValues
<1>1. PICK i \in DOMAIN f.lines : Holders(t, f.lines[i].key) = {r}
  BY DEF Planned
<1>2. r \in Rows /\ t[r].key = f.lines[i].key
  BY <1>1 DEF Holders
<1>3. f.lines[i].key \in Keys
  BY DEF SalesFile, FileLine, Entry
<1>4. r \in InTable(t)
  BY <1>1, <1>3, TableRows
<1>5. f.fixed[r] \in SaleValues
  BY DEF SalesFile, FileFixed
<1> QED
  BY <1>1, <1>2, <1>4, <1>5

\* Which row is written how.
LEMMA WrittenRows ==
  ASSUME NEW t \in Table, NEW f \in SalesFile, Planned(t, f), NEW ids, NEW t2, WrittenBy(t, f, ids, t2)
  PROVE  /\ \A r \in DOMAIN f.fixed :
              /\ r \in InTable(t) /\ Holders(t, t[r].key) = {r}
              /\ t2[r] = [key |-> t[r].key, value |-> f.fixed[r]]
              /\ f.fixed[r] \in SaleValues
         /\ \A i \in f.new :
              /\ ids[i] \in Rows \ InTable(t) /\ ids[i] \notin DOMAIN f.fixed
              /\ t2[ids[i]] = f.lines[i] /\ t[ids[i]] = Unused
         /\ \A r \in Rows \ DOMAIN f.fixed : (\A i \in f.new : ids[i] # r) => t2[r] = t[r]
         /\ \A i \in DOMAIN f.lines : f.lines[i] \in Entry
         /\ f.new \subseteq DOMAIN f.lines
<1>1. \A i \in DOMAIN f.lines : f.lines[i] \in Entry /\ f.lines[i].key \in Keys
  BY DEF SalesFile, FileLine, Entry
<1>2. f.new \subseteq DOMAIN f.lines
  BY DEF Planned
<1>3. ASSUME NEW r \in DOMAIN f.fixed
      PROVE  /\ r \in InTable(t) /\ Holders(t, t[r].key) = {r}
             /\ t2[r] = [key |-> t[r].key, value |-> f.fixed[r]]
             /\ f.fixed[r] \in SaleValues
  <2>1. r \in InTable(t) /\ Holders(t, t[r].key) = {r} /\ f.fixed[r] \in SaleValues
    BY FixedRows
  <2>2. t2[r] = [t[r] EXCEPT !.value = f.fixed[r]]
    BY <2>1 DEF WrittenBy, InTable
  <2>3. t[r] = [key |-> t[r].key, value |-> t[r].value]
    BY <2>1, TableRows
  <2>4. t2[r] = [key |-> t[r].key, value |-> f.fixed[r]]
    BY <2>2, <2>3
  <2> QED BY <2>1, <2>4
<1>4. ASSUME NEW i \in f.new
      PROVE  /\ ids[i] \in Rows \ InTable(t) /\ ids[i] \notin DOMAIN f.fixed
             /\ t2[ids[i]] = f.lines[i] /\ t[ids[i]] = Unused
  <2>1. ids[i] \in Rows /\ t[ids[i]] = Unused
    BY DEF WrittenBy
  <2>2. ids[i] \notin InTable(t)
    BY <2>1, TableRows DEF InTable
  <2>3. ids[i] \notin DOMAIN f.fixed
    BY <1>3, <2>2
  <2>4. (CHOOSE j \in f.new : ids[j] = ids[i]) = i
    BY DEF WrittenBy
  <2>5. t2[ids[i]] = f.lines[CHOOSE j \in f.new : ids[j] = ids[i]]
    BY <2>1, <2>3 DEF WrittenBy
  <2> QED BY <2>1, <2>2, <2>3, <2>4, <2>5
<1>5. ASSUME NEW r \in Rows \ DOMAIN f.fixed, \A i \in f.new : ids[i] # r PROVE t2[r] = t[r]
  BY <1>5 DEF WrittenBy
<1> QED
  BY <1>1, <1>2, <1>3, <1>4, <1>5

\* What is written is a table again: old rows keep their keys, and new ones take keys
\* that nobody had.
LEMMA WrittenTable ==
  ASSUME NEW t \in Table, NEW f \in SalesFile, Planned(t, f), NEW ids, NEW t2, WrittenBy(t, f, ids, t2)
  PROVE  /\ t2 \in Table
         /\ \A r \in InTable(t2) :
              \/ r \in InTable(t) /\ t2[r].key = t[r].key
              \/ \E i \in f.new : r = ids[i] /\ t2[r] = f.lines[i] /\ r \notin InTable(t)
         /\ \A r \in InTable(t) : r \in InTable(t2) /\ t2[r].key = t[r].key
         /\ \A r \in Rows : t2[r] = Unused => t[r] = Unused
<1>1. ASSUME NEW r \in Rows
      PROVE  \/ r \in InTable(t) /\ r \in DOMAIN f.fixed /\ t2[r] \in Entry /\ t2[r].key = t[r].key
             \/ \E i \in f.new : r = ids[i] /\ t2[r] = f.lines[i] /\ t2[r] \in Entry /\ r \notin InTable(t)
             \/ t2[r] = t[r]
  <2>1. CASE r \in DOMAIN f.fixed
    <3>1. /\ r \in InTable(t) /\ t2[r] = [key |-> t[r].key, value |-> f.fixed[r]]
          /\ f.fixed[r] \in SaleValues
      BY <2>1, WrittenRows
    <3>2. t[r].key \in Keys
      BY <3>1, TableRows
    <3> QED BY <2>1, <3>1, <3>2 DEF Entry
  <2>2. CASE r \notin DOMAIN f.fixed /\ \E i \in f.new : ids[i] = r
    BY <2>2, WrittenRows
  <2>3. CASE r \notin DOMAIN f.fixed /\ \A i \in f.new : ids[i] # r
    BY <2>3, WrittenRows
  <2> QED BY <2>1, <2>2, <2>3
<1>2. \A r \in Rows : t[r] \in Entry \cup {Unused, Removed}
  BY DEF Table
<1>3. t2 \in Table
  <2>1. t2 = [r \in Rows |-> t2[r]]
    BY DEF WrittenBy
  <2>2. \A r \in Rows : t2[r] \in Entry \cup {Unused, Removed}
    BY <1>1, <1>2
  <2> QED BY <2>1, <2>2 DEF Table
<1>4. ASSUME NEW r \in InTable(t2)
      PROVE  \/ r \in InTable(t) /\ t2[r].key = t[r].key
             \/ \E i \in f.new : r = ids[i] /\ t2[r] = f.lines[i] /\ r \notin InTable(t)
  BY <1>1 DEF InTable
<1>5. ASSUME NEW r \in InTable(t) PROVE r \in InTable(t2) /\ t2[r].key = t[r].key
  BY <1>1 DEF InTable
<1>6. ASSUME NEW r \in Rows, t2[r] = Unused PROVE t[r] = Unused
  BY <1>1, <1>6, TableRows
<1> QED
  BY <1>3, <1>4, <1>5, <1>6

\* A file adds nobody a copy.
LEMMA WrittenAlone ==
  ASSUME NEW t \in Table, NEW f \in SalesFile, Planned(t, f), NEW ids, NEW t2, WrittenBy(t, f, ids, t2),
         Alone(t)
  PROVE  Alone(t2)
<1>1. ASSUME NEW a \in InTable(t2), NEW b \in InTable(t2), a # b, t2[a].key = t2[b].key
      PROVE  a \in InTable(t) /\ b \in InTable(t) /\ t[a].key = t[b].key
  <2>1. ASSUME NEW c \in InTable(t2), NEW d \in InTable(t2), t2[c].key = t2[d].key, c # d,
               NEW i \in f.new, c = ids[i], t2[c] = f.lines[i]
        PROVE  FALSE
    <3>1. CASE d \in InTable(t) /\ t2[d].key = t[d].key
      <4>1. d \in Holders(t, f.lines[i].key)
        BY <2>1, <3>1 DEF Holders, InTable
      <4> QED BY <4>1 DEF Planned
    <3>2. CASE \E j \in f.new : d = ids[j] /\ t2[d] = f.lines[j]
      <4>1. PICK j \in f.new : d = ids[j] /\ t2[d] = f.lines[j]
        BY <3>2
      <4>2. i = j
        BY <2>1, <4>1 DEF Planned
      <4> QED BY <2>1, <4>1, <4>2
    <3> QED BY <3>1, <3>2, WrittenTable
  <2>2. a \in InTable(t) /\ t2[a].key = t[a].key
    BY <1>1, <2>1, WrittenTable
  <2>3. b \in InTable(t) /\ t2[b].key = t[b].key
    BY <1>1, <2>1, WrittenTable
  <2> QED BY <1>1, <2>2, <2>3
<1>2. \A id \in Legacy : t2[id] # Unused
  BY WrittenTable, TableRows DEF Alone
<1> QED
  BY <1>1, <1>2 DEF Alone

\* A file changes neither of two copies, and makes none of what was not.
LEMMA WrittenKeeps ==
  ASSUME NEW t \in Table, NEW f \in SalesFile, Planned(t, f), NEW ids, NEW t2, WrittenBy(t, f, ids, t2),
         Alone(t), NEW r, KeepsOne(t, r)
  PROVE  KeepsOne(t2, r)
<1>0. \A q \in DOMAIN f.fixed : Holders(t, t[q].key) = {q}
  BY FixedRows
<1>1. ASSUME NEW id \in Legacy PROVE id \in InTable(t2) <=> id \in InTable(t)
  <2>1. id \in Rows /\ t[id] # Unused
    BY TableRows DEF Alone
  <2>2. \A i \in f.new : id # ids[i]
    BY <2>1, WrittenRows
  <2> QED BY <2>2, WrittenTable
<1>2. 1 \in Legacy /\ 2 \in Legacy /\ 1 \in Rows /\ 2 \in Rows
  BY TableRows
<1>3. ASSUME 1 \in InTable(t), 2 \in InTable(t), t[1].key = t[2].key
      PROVE  t2[1] = t[1] /\ t2[2] = t[2]
  <2>1. ASSUME NEW id \in Legacy PROVE t2[id] = t[id]
    <3>1. 1 \in Holders(t, t[id].key) /\ 2 \in Holders(t, t[id].key)
      BY <1>2, <1>3, TableRows DEF Holders
    <3>2. id \notin DOMAIN f.fixed
      <4>1. 1 # 2
        OBVIOUS
      <4>2. Holders(t, t[id].key) # {id}
        BY <3>1, <4>1
      <4> QED BY <1>0, <4>2
    <3>3. \A i \in f.new : id # ids[i]
      BY <1>3, TableRows, WrittenRows
    <3> QED BY <3>2, <3>3, TableRows, WrittenRows
  <2> QED BY <1>2, <2>1
<1>4. Twins(t2) <=> Twins(t)
  <2>1. ASSUME Twins(t2) PROVE Twins(t)
    <3>1. 1 \in InTable(t) /\ 2 \in InTable(t) /\ t2[1].key = t2[2].key
      BY <1>1, <1>2, <2>1 DEF Twins
    <3>2. t[1].key = t[2].key
      BY <3>1, WrittenTable
    <3> QED BY <1>3, <2>1, <3>1, <3>2 DEF Twins
  <2>2. ASSUME Twins(t) PROVE Twins(t2)
    BY <1>1, <1>2, <1>3, <2>2 DEF Twins
  <2> QED BY <2>1, <2>2
<1> QED
  BY <1>1, <1>2, <1>4 DEF KeepsOne

\* Of a file that nobody crossed, each line is stored once, with its key to itself
\* ("Insert new sales, skip replays, apply corrections - never duplicate").
LEMMA WrittenLines ==
  ASSUME NEW t \in Table, NEW f \in SalesFile, Planned(t, f), NEW ids, NEW t2, WrittenBy(t, f, ids, t2),
         ~ f.crossed, NEW i \in DOMAIN f.lines
  PROVE  \E id \in Rows : t2[id] = f.lines[i] /\ Holders(t2, f.lines[i].key) = {id}
<1>1. \A r \in Holders(t2, f.lines[i].key) :
        r \in Holders(t, f.lines[i].key) \/ (i \in f.new /\ r = ids[i])
  <2> SUFFICES ASSUME NEW r \in Holders(t2, f.lines[i].key)
               PROVE  r \in Holders(t, f.lines[i].key) \/ (i \in f.new /\ r = ids[i])
    OBVIOUS
  <2>1. f.lines[i].key \in Keys
    BY WrittenRows DEF Entry
  <2>2. r \in Rows /\ r \in InTable(t2) /\ t2[r].key = f.lines[i].key
    BY <2>1, WrittenTable, TableRows DEF Holders
  <2>3. CASE r \in InTable(t) /\ t2[r].key = t[r].key
    BY <2>2, <2>3 DEF Holders
  <2>4. CASE \E j \in f.new : r = ids[j] /\ t2[r] = f.lines[j]
    <3>1. PICK j \in f.new : r = ids[j] /\ t2[r] = f.lines[j]
      BY <2>4
    <3>2. j = i
      BY <2>2, <3>1 DEF Planned
    <3> QED BY <3>1, <3>2
  <2> QED BY <2>2, <2>3, <2>4, WrittenTable
<1>2. CASE i \in f.new
  <2>1. ids[i] \in Rows /\ t2[ids[i]] = f.lines[i] /\ Holders(t, f.lines[i].key) = {}
    <3>1. ids[i] \in Rows /\ t2[ids[i]] = f.lines[i]
      BY <1>2, WrittenRows
    <3>2. Holders(t, f.lines[i].key) = {}
      BY <1>2 DEF Planned
    <3> QED BY <3>1, <3>2
  <2>2. Holders(t2, f.lines[i].key) = {ids[i]}
    BY <1>1, <2>1 DEF Holders
  <2> QED BY <2>1, <2>2
<1>3. CASE i \notin f.new
  <2>1. PICK id \in Rows : /\ Holders(t, f.lines[i].key) = {id}
                           /\ Final(t, f, id) = f.lines[i].value
    BY <1>3 DEF Planned, WrittenBy
  <2>2. id \in InTable(t) /\ t[id].key = f.lines[i].key
    <3>1. f.lines[i].key \in Keys
      BY WrittenRows DEF Entry
    <3> QED BY <2>1, <3>1, TableRows DEF Holders
  <2>3. f.lines[i] = [key |-> f.lines[i].key, value |-> f.lines[i].value]
    BY WrittenRows DEF Entry
  <2>4. t2[id] = f.lines[i]
    <3>1. CASE id \in DOMAIN f.fixed
      BY <2>1, <2>2, <2>3, <3>1, WrittenRows DEF Final
    <3>2. CASE id \notin DOMAIN f.fixed
      <4>1. t2[id] = t[id]
        BY <2>2, <3>2, WrittenRows
      <4>2. t[id] = [key |-> t[id].key, value |-> t[id].value]
        BY <2>2, TableRows
      <4> QED BY <2>1, <2>2, <2>3, <3>2, <4>1, <4>2 DEF Final
    <3> QED BY <3>1, <3>2
  <2>5. id \in Holders(t2, f.lines[i].key)
    BY <2>4 DEF Holders
  <2>6. Holders(t2, f.lines[i].key) = {id}
    BY <1>1, <1>3, <2>1, <2>5
  <2> QED BY <2>4, <2>6
<1> QED
  BY <1>2, <1>3

RowsWith(t, lines, v) ==
  {id \in Rows : t[id] \in {lines[i] : i \in DOMAIN lines} /\ t[id].value = v}
LinesWith(lines, v) == {i \in DOMAIN lines : lines[i].value = v}

\* Then there are as many rows with a value as lines with it.
LEMMA WrittenCounts ==
  ASSUME NEW t \in Table, NEW f \in SalesFile, Planned(t, f), NEW ids, NEW t2, WrittenBy(t, f, ids, t2),
         ~ f.crossed, NEW v
  PROVE  Cardinality(RowsWith(t2, f.lines, v)) = Cardinality(LinesWith(f.lines, v))
<1> DEFINE I == {i \in DOMAIN f.lines : f.lines[i].value = v}
           R == {id \in Rows : t2[id] \in {f.lines[i] : i \in DOMAIN f.lines} /\ t2[id].value = v}
           place == [i \in I |-> CHOOSE id \in Rows : t2[id] = f.lines[i]]
<1>1. ASSUME NEW i \in I PROVE place[i] \in R /\ t2[place[i]] = f.lines[i]
  <2>1. \E id \in Rows : t2[id] = f.lines[i]
    BY WrittenLines
  <2>2. place[i] \in Rows /\ t2[place[i]] = f.lines[i]
    BY <2>1
  <2> QED BY <2>2
<1>2. ASSUME NEW i \in I, NEW j \in I, place[i] = place[j] PROVE i = j
  <2>1. f.lines[i] = f.lines[j]
    BY <1>1, <1>2
  <2> QED BY <2>1 DEF Planned
<1>3. ASSUME NEW id \in R PROVE \E i \in I : place[i] = id
  <2>1. PICK i \in DOMAIN f.lines : t2[id] = f.lines[i]
    OBVIOUS
  <2>2. i \in I
    BY <2>1
  <2>3. PICK r \in Rows : t2[r] = f.lines[i] /\ Holders(t2, f.lines[i].key) = {r}
    BY WrittenLines
  <2>4. id = r
    BY <2>1, <2>3 DEF Holders
  <2>5. place[i] = r
    BY <1>1, <2>2, <2>3 DEF Holders
  <2> QED BY <2>2, <2>4, <2>5
<1>4. place \in Bijection(I, R)
  <2>1. place \in [I -> R]
    BY <1>1
  <2> HIDE DEF place, I, R
  <2>2. place \in Injection(I, R)
    BY <1>2, <2>1 DEF Injection, IsInjective
  <2>3. place \in Surjection(I, R)
    BY <1>3, <2>1 DEF Surjection
  <2> QED BY <2>2, <2>3 DEF Bijection
<1>5. IsFiniteSet(I)
  <2>1. DOMAIN f.lines \in SUBSET (1..MaxLines)
    BY DEF SalesFile, FileLine
  <2>2. IsFiniteSet(1..MaxLines)
    BY FS_Interval, SalesAssumption
  <2>3. I \in SUBSET (1..MaxLines)
    BY <2>1
  <2> QED BY <2>2, <2>3, FS_Subset
<1> HIDE DEF I, R, place
<1>6. Cardinality(R) = Cardinality(I)
  BY <1>4, <1>5, FS_Bijection DEF ExistsBijection
<1> QED
  BY <1>6 DEF I, R, RowsWith, LinesWith

-----------------------------------------------------------------------------
(* Sales: what a file plans *)

\* What `Look` makes of the lines with keys `given` on the rows of t.
Plan(t, given, mine, g) ==
  LET new     == {i \in mine : Holders(t, given[i].key) = {}}
      changed == {i \in mine : {t[id].value : id \in Holders(t, given[i].key)}
                                 \notin {{}, {given[i].value}}} IN
  /\ mine = {i \in DOMAIN given : Cardinality(Holders(t, given[i].key)) <= 1}
  /\ g = [NoFile EXCEPT !.lines = [i \in mine |-> given[i]], !.new = new,
            !.todo = [i \in changed |-> CHOOSE id \in Rows : Holders(t, given[i].key) = {id}]]

\* A file that has looked at the rows is planned by them.
LEMMA LookPlans ==
  ASSUME NEW t \in Table, NEW mode \in Modes, NEW lines \in Files,
         NEW given, given = Keyed(mode, lines), NEW mine, NEW g, Plan(t, given, mine, g)
  PROVE  g \in SalesFile /\ Planned(t, g)
<1> DEFINE new     == {i \in mine : Holders(t, given[i].key) = {}}
           changed == {i \in mine : {t[id].value : id \in Holders(t, given[i].key)}
                                      \notin {{}, {given[i].value}}}
           todo == [i \in changed |-> CHOOSE id \in Rows : Holders(t, given[i].key) = {id}]
           what == [i \in mine |-> given[i]]
<1>1. /\ DOMAIN given \subseteq 1..MaxLines
      /\ \A i \in DOMAIN given : given[i] \in Entry
      /\ \A i, j \in DOMAIN given : given[i].key = given[j].key => i = j
  BY KeyedApart
<1>2. mine = {i \in DOMAIN given : Cardinality(Holders(t, given[i].key)) <= 1}
  BY DEF Plan
<1>3. g = [NoFile EXCEPT !.lines = what, !.new = new, !.todo = todo]
  BY DEF Plan
<1>4. /\ g.lines = what /\ g.new = new /\ g.todo = todo
      /\ g.fixed = NoFile.fixed /\ g.crossed = NoFile.crossed
      /\ g = [lines |-> what, new |-> new, todo |-> todo, fixed |-> NoFile.fixed,
              crossed |-> NoFile.crossed]
  BY <1>3 DEF NoFile
<1>5. ASSUME NEW i \in mine
      PROVE  Holders(t, given[i].key) = {} \/ \E id \in Rows : Holders(t, given[i].key) = {id}
  BY <1>2, FewRows DEF Holders
<1>6. ASSUME NEW i \in mine \ new
      PROVE  \E id \in Rows : /\ Holders(t, given[i].key) = {id}
                              /\ i \in changed => todo[i] = id
                              /\ i \notin changed => t[id].value = given[i].value
  <2>1. PICK id \in Rows : Holders(t, given[i].key) = {id}
    BY <1>5
  <2>2. i \in changed => todo[i] = id
    BY <2>1
  <2>3. {t[r].value : r \in Holders(t, given[i].key)} = {t[id].value}
    BY <2>1
  <2>4. i \notin changed => t[id].value = given[i].value
    BY <2>3
  <2> QED BY <2>1, <2>2, <2>4
<1>7. todo \in [changed -> Rows]
  <2>1. ASSUME NEW i \in changed PROVE todo[i] \in Rows
    <3>1. i \in mine \ new
      OBVIOUS
    <3> QED BY <1>6, <3>1
  <2> QED BY <2>1
<1>8. mine \subseteq DOMAIN given /\ new \subseteq mine /\ changed \subseteq mine \ new
  BY <1>2
<1>9. what \in [mine -> Entry] /\ \A i \in mine : what[i] = given[i]
  BY <1>1, <1>8
<1>10. DOMAIN what = mine /\ DOMAIN todo = changed
  OBVIOUS
<1> HIDE DEF new, changed, todo, what
<1>11. g \in SalesFile
  <2>1. NoFile.fixed \in FileFixed /\ NoFile.crossed \in BOOLEAN
    BY NoFilePlan DEF SalesFile
  <2>2. what \in FileLine /\ todo \in FileTodo /\ new \in SUBSET (1..MaxLines)
    BY <1>1, <1>7, <1>8, <1>9 DEF FileLine, FileTodo
  <2> QED BY <1>4, <2>1, <2>2 DEF SalesFile
<1>12. DOMAIN g.fixed = {} /\ \A id : Final(t, g, id) = t[id].value
  BY <1>4, NoFilePlan DEF Final
<1>13. \A i \in g.new : Holders(t, g.lines[i].key) = {}
  BY <1>4, <1>8, <1>9 DEF new
<1>14. ASSUME NEW i \in DOMAIN g.lines \ g.new
       PROVE  \E id \in Rows : /\ Holders(t, g.lines[i].key) = {id}
                               /\ i \in DOMAIN g.todo => g.todo[i] = id
                               /\ i \notin DOMAIN g.todo => Final(t, g, id) = g.lines[i].value
  <2>1. i \in mine \ new /\ g.lines[i] = given[i]
    BY <1>4, <1>9, <1>10
  <2> QED BY <1>4, <1>6, <1>10, <1>12, <2>1
<1>15. \A i, j \in DOMAIN g.lines : g.lines[i].key = g.lines[j].key => i = j
  BY <1>1, <1>4, <1>8, <1>9, <1>10
<1>16. g.new \subseteq DOMAIN g.lines /\ DOMAIN g.todo \subseteq DOMAIN g.lines \ g.new
  BY <1>4, <1>8, <1>10
<1> QED
  BY <1>11, <1>12, <1>13, <1>14, <1>15, <1>16 DEF Planned

\* What `Correct` makes of line i of the file f.
Corrected(t, f, i, g) ==
  /\ i \in DOMAIN f.todo
  /\ g = [f EXCEPT !.todo = [j \in DOMAIN @ \ {i} |-> @[j]],
            !.fixed = IF Holders(t, f.lines[i].key) = {f.todo[i]}
                      THEN [r \in DOMAIN @ \cup {f.todo[i]} |->
                              IF r = f.todo[i] THEN f.lines[i].value ELSE @[r]]
                      ELSE @]

\* A correction that is made is one less to make; it is left out where a copy has come or
\* the row has gone (sanket_correct_sale).
LEMMA CorrectPlans ==
  ASSUME NEW t \in Table, NEW f \in SalesFile, Planned(t, f), NEW i, NEW g, Corrected(t, f, i, g)
  PROVE  g \in SalesFile /\ Planned(t, g)
<1>1. PICK id : id = f.todo[i]
  OBVIOUS
<1>2. /\ f.lines \in FileLine /\ f.new \in SUBSET (1..MaxLines) /\ f.todo \in FileTodo
      /\ f.fixed \in FileFixed /\ f.crossed \in BOOLEAN
      /\ DOMAIN f = {"lines", "new", "todo", "fixed", "crossed"}
  BY DEF SalesFile
<1>3. i \in DOMAIN f.todo /\ i \in DOMAIN f.lines /\ f.lines[i] \in Entry /\ id \in Rows
  BY <1>1, <1>2 DEF Corrected, Planned, FileLine, FileTodo
<1> DEFINE todo == [j \in DOMAIN f.todo \ {i} |-> f.todo[j]]
           more == [r \in DOMAIN f.fixed \cup {id} |->
                      IF r = id THEN f.lines[i].value ELSE f.fixed[r]]
           sole == Holders(t, f.lines[i].key) = {id}
<1>4. /\ g.lines = f.lines /\ g.new = f.new /\ g.todo = todo /\ g.crossed = f.crossed
      /\ g.fixed = IF sole THEN more ELSE f.fixed
      /\ g = [lines |-> f.lines, new |-> f.new, todo |-> todo, fixed |-> g.fixed,
              crossed |-> f.crossed]
  BY <1>1, <1>2 DEF Corrected, SalesFile
<1>5. todo \in FileTodo
  <2>1. PICK D \in SUBSET (1..MaxLines) : f.todo \in [D -> Rows]
    BY <1>2 DEF FileTodo
  <2>2. todo \in [D \ {i} -> Rows]
    BY <2>1
  <2> QED BY <2>2 DEF FileTodo
<1>6. more \in FileFixed
  <2>1. PICK D \in SUBSET Rows : f.fixed \in [D -> SaleValues]
    BY <1>2 DEF FileFixed
  <2>2. f.lines[i].value \in SaleValues
    BY <1>3 DEF Entry
  <2>3. more \in [D \cup {id} -> SaleValues] /\ D \cup {id} \in SUBSET Rows
    BY <1>3, <2>1, <2>2
  <2> QED BY <2>3 DEF FileFixed
<1>7. DOMAIN todo = DOMAIN f.todo \ {i} /\ \A j \in DOMAIN todo : todo[j] = f.todo[j]
  OBVIOUS
<1>8. /\ DOMAIN more = DOMAIN f.fixed \cup {id} /\ more[id] = f.lines[i].value
      /\ \A r \in DOMAIN f.fixed \ {id} : more[r] = f.fixed[r]
  OBVIOUS
<1> HIDE DEF todo, more
<1>9. g \in SalesFile
  BY <1>2, <1>4, <1>5, <1>6 DEF SalesFile
<1>10. ASSUME NEW r \in DOMAIN g.fixed
       PROVE  \E j \in DOMAIN g.lines : Holders(t, g.lines[j].key) = {r}
  <2>1. CASE r \in DOMAIN f.fixed
    BY <1>4, <2>1 DEF Planned
  <2>2. CASE r \notin DOMAIN f.fixed
    BY <1>3, <1>4, <1>8, <2>2
  <2> QED BY <2>1, <2>2
<1>11. ASSUME NEW j \in DOMAIN g.lines \ g.new, ~ g.crossed
       PROVE  \E pos \in Rows : /\ Holders(t, g.lines[j].key) = {pos}
                                /\ j \in DOMAIN g.todo => g.todo[j] = pos
                                /\ j \notin DOMAIN g.todo => Final(t, g, pos) = g.lines[j].value
  <2>1. PICK pos \in Rows : /\ Holders(t, f.lines[j].key) = {pos}
                            /\ j \in DOMAIN f.todo => f.todo[j] = pos
                            /\ j \notin DOMAIN f.todo => Final(t, f, pos) = f.lines[j].value
    BY <1>4, <1>11 DEF Planned
  <2>2. j \in DOMAIN g.todo => g.todo[j] = pos
    BY <1>4, <1>7, <2>1
  <2>3. CASE j = i
    <3>1. pos = id /\ sole
      BY <1>1, <1>3, <2>1, <2>3
    <3>2. g.fixed = more
      BY <1>4, <3>1
    <3>3. Final(t, g, pos) = f.lines[i].value
      BY <1>8, <3>1, <3>2 DEF Final
    <3> QED BY <1>4, <2>1, <2>2, <2>3, <3>3
  <2>4. CASE j # i
    <3>1. f.lines[j].key # f.lines[i].key
      BY <1>3, <1>4, <2>4 DEF Planned
    <3>2. pos = id => ~ sole
      <4>1. t[pos].key = f.lines[j].key
        BY <2>1 DEF Holders
      <4>2. sole => t[id].key = f.lines[i].key
        BY DEF Holders
      <4> QED BY <3>1, <4>1, <4>2
    <3>3. Final(t, g, pos) = Final(t, f, pos)
      <4>1. CASE sole
        <5>1. g.fixed = more /\ pos # id
          BY <1>4, <3>2, <4>1
        <5> QED BY <1>8, <5>1 DEF Final
      <4>2. CASE ~ sole
        <5>1. g.fixed = f.fixed
          BY <1>4, <4>2
        <5> QED BY <5>1 DEF Final
      <4> QED BY <4>1, <4>2
    <3>4. j \notin DOMAIN g.todo => j \notin DOMAIN f.todo
      BY <1>4, <1>7, <2>4
    <3> QED BY <1>4, <2>1, <2>2, <3>3, <3>4
  <2> QED BY <2>3, <2>4
<1>12. /\ g.new \subseteq DOMAIN g.lines /\ DOMAIN g.todo \subseteq DOMAIN g.lines \ g.new
       /\ \A j, k \in DOMAIN g.lines : g.lines[j].key = g.lines[k].key => j = k
       /\ \A j \in g.new : Holders(t, g.lines[j].key) = {}
  BY <1>4, <1>7 DEF Planned
<1> QED
  BY <1>9, <1>10, <1>11, <1>12 DEF Planned

-----------------------------------------------------------------------------
(* Sales: the steps *)

\* Before the first import there are two copies of old and nothing else.
LEMMA InitSales == ImportInit => SalesInv
<1> SUFFICES ASSUME ImportInit PROVE SalesInv
  OBVIOUS
<1>1. PICK a \in Line, b \in Line, mode \in {"order", "fields"} :
        sales = [id \in Rows |->
            CASE id = 1 -> [key |-> RecordKey(mode, <<a>>, 1), value |-> a.value]
              [] id = 2 -> [key |-> RecordKey(mode, <<b>>, 1), value |-> b.value]
              [] OTHER -> Unused]
  BY Zenon DEF ImportInit
<1>2. ASSUME NEW l \in Line
      PROVE  [key |-> RecordKey(mode, <<l>>, 1), value |-> l.value] \in Entry
  <2>1. PICK lines : lines = <<l>>
    OBVIOUS
  <2>2. lines \in [1..1 -> Line] /\ 1 \in DOMAIN lines
    BY <2>1
  <2>3. 1 \in 1..MaxLines
    BY SalesAssumption
  <2>4. lines \in Files
    BY <2>2, <2>3 DEF Files
  <2>5. RecordKey(mode, lines, 1) \in FileKeys(mode, lines)
    BY <2>2 DEF FileKeys
  <2>6. mode \in Modes
    BY DEF Modes
  <2>7. RecordKey(mode, lines, 1) \in Keys
    BY <2>4, <2>5, <2>6 DEF Keys
  <2>8. l.value \in SaleValues
    BY DEF Line
  <2> QED BY <2>1, <2>7, <2>8 DEF Entry
<1>3. PICK A \in Entry, B \in Entry :
        sales = [id \in Rows |-> IF id = 1 THEN A ELSE IF id = 2 THEN B ELSE Unused]
  <2>1. PICK A \in Entry : A = [key |-> RecordKey(mode, <<a>>, 1), value |-> a.value]
    BY <1>2
  <2>2. PICK B \in Entry : B = [key |-> RecordKey(mode, <<b>>, 1), value |-> b.value]
    BY <1>2
  <2> QED BY <1>1, <2>1, <2>2
<1>4. sales \in Table
  BY <1>3 DEF Table
<1>5. \A id \in InTable(sales) : id \in Legacy
  BY <1>3, <1>4, TableRows DEF InTable
<1>6. \A id \in Legacy : sales[id] # Unused
  BY <1>3, TableRows, <1>4
<1>7. Alone(sales)
  BY <1>5, <1>6 DEF Alone
<1>8. import \in [Imports -> SalesFile] /\ \A u \in Imports : import[u] = NoFile
  BY NoFilePlan DEF ImportInit
<1>9. /\ removal \in [Removers -> [kind : {"none", "copies", "invalid", "all"}, rows : SUBSET Rows]]
      /\ \A x \in Removers : removal[x] = NoRemoval
  BY DEF ImportInit, NoRemoval
<1>10. KeepsOne(sales, NoRemoval)
  BY DEF KeepsOne, NoRemoval
<1> QED
  BY <1>4, <1>7, <1>8, <1>9, <1>10, NoFilePlan DEF SalesInv, ImportType, OneWriter

\* Opening a file takes the lock, which nobody has then.
LEMMA LookSales == ASSUME SalesInv, NEW u \in Imports, Look(u) PROVE SalesInv'
<1> USE DEF SalesInv
<1>1. /\ sales' = sales /\ removal' = removal /\ importLock = NoImport /\ importLock' = u
      /\ sales \in Table /\ import \in [Imports -> SalesFile]
  BY DEF Look, LockImports, ImportType
<1>2. PICK g : /\ import' = [import EXCEPT ![u] = g]
               /\ \E lines \in Files, mode \in Modes : \E given, mine :
                    given = Keyed(mode, lines) /\ Plan(sales, given, mine, g)
  <2>1. PICK lines \in Files, mode \in {"order", "fields", "period"} :
         LET given   == Keyed(mode, lines)
             mine    == {i \in DOMAIN given : Cardinality(Copies(given[i].key)) <= 1}
             new     == {i \in mine : Copies(given[i].key) = {}}
             changed == {i \in mine : Values(given[i].key) \notin {{}, {given[i].value}}} IN
         import' = [import EXCEPT ![u] =
           [NoFile EXCEPT !.lines = [i \in mine |-> given[i]], !.new = new,
            !.todo = [i \in changed |-> CHOOSE id \in Rows : Copies(given[i].key) = {id}]]]
    BY DEF Look, MoveOn
  <2>2. PICK given : given = Keyed(mode, lines)
    OBVIOUS
  <2>3. PICK mine : mine = {i \in DOMAIN given : Cardinality(Holders(sales, given[i].key)) <= 1}
    OBVIOUS
  <2>4. PICK g :
          g = [NoFile EXCEPT !.lines = [i \in mine |-> given[i]],
                 !.new = {i \in mine : Holders(sales, given[i].key) = {}},
                 !.todo = [i \in {i \in mine : {sales[id].value : id \in Holders(sales, given[i].key)}
                                                 \notin {{}, {given[i].value}}} |->
                             CHOOSE id \in Rows : Holders(sales, given[i].key) = {id}]]
    OBVIOUS
  <2>5. Plan(sales, given, mine, g)
    BY <2>3, <2>4 DEF Plan
  <2>6. import' = [import EXCEPT ![u] = g]
    BY <2>1, <2>2, <2>3, <2>4 DEF Copies, Values, Holders
  <2> QED BY <2>2, <2>5, <2>6 DEF Modes
<1>3. g \in SalesFile /\ Planned(sales, g)
  <2>1. PICK lines \in Files, mode \in Modes : \E given, mine :
          given = Keyed(mode, lines) /\ Plan(sales, given, mine, g)
    BY <1>2
  <2>2. PICK given, mine : given = Keyed(mode, lines) /\ Plan(sales, given, mine, g)
    BY <2>1
  <2> QED BY <1>1, <2>2, LookPlans
<1>4. /\ import' \in [Imports -> SalesFile] /\ import'[u] = g
      /\ \A w \in Imports \ {u} : import'[w] = import[w]
  BY <1>1, <1>2, <1>3
<1>5. \A w \in Imports : import[w] = NoFile
  BY <1>1, SalesAssumption DEF OneWriter
<1>6. OneWriter'
  BY <1>1, <1>4, <1>5 DEF OneWriter
<1>7. ASSUME NEW w \in Imports PROVE Planned(sales', import'[w])
  BY <1>1, <1>3, <1>4
<1>8. ImportType'
  BY <1>1, <1>4 DEF ImportType
<1> QED
  BY <1>1, <1>6, <1>7, <1>8

\* A correction is the lock holder's.
LEMMA CorrectSales ==
  ASSUME SalesInv, NEW u \in Imports, NEW i \in 1..MaxLines, Correct(u, i) PROVE SalesInv'
<1> USE DEF SalesInv
<1>1. /\ sales' = sales /\ removal' = removal /\ importLock' = importLock
      /\ sales \in Table /\ import \in [Imports -> SalesFile]
  BY DEF Correct, ImportType
<1>2. PICK f \in SalesFile : f = import[u]
  BY <1>1
<1>3. PICK g : Corrected(sales, f, i, g) /\ import' = [import EXCEPT ![u] = g]
  <2>1. PICK g : g = [f EXCEPT !.todo = [j \in DOMAIN @ \ {i} |-> @[j]],
            !.fixed = IF Holders(sales, f.lines[i].key) = {f.todo[i]}
                      THEN [r \in DOMAIN @ \cup {f.todo[i]} |->
                              IF r = f.todo[i] THEN f.lines[i].value ELSE @[r]]
                      ELSE @]
    OBVIOUS
  <2>2. i \in DOMAIN f.todo
    BY <1>2 DEF Correct
  <2>3. import' = [import EXCEPT ![u] = g]
    BY <1>2, <2>1 DEF Correct, MoveOn, Copies, Holders
  <2> QED BY <2>1, <2>2, <2>3 DEF Corrected
<1>4. g \in SalesFile /\ Planned(sales, g)
  BY <1>1, <1>2, <1>3, CorrectPlans
<1>5. /\ import' \in [Imports -> SalesFile] /\ import'[u] = g
      /\ \A w \in Imports \ {u} : import'[w] = import[w]
  BY <1>1, <1>3, <1>4
<1>6. import[u] # NoFile
  BY <1>2, <1>3, NoFilePlan DEF Corrected
<1>7. OneWriter'
  BY <1>1, <1>5, <1>6 DEF OneWriter
<1>8. ASSUME NEW w \in Imports PROVE Planned(sales', import'[w])
  BY <1>1, <1>4, <1>5
<1>9. ImportType'
  BY <1>1, <1>5 DEF ImportType
<1> QED
  BY <1>1, <1>7, <1>8, <1>9

\* What a commit writes, by the names above.
LEMMA CommitWrites ==
  ASSUME SalesInv, NEW u \in Imports, CommitImport(u)
  PROVE  /\ import[u] \in SalesFile /\ Planned(sales, import[u])
         /\ \E ids : WrittenBy(sales, import[u], ids, sales')
<1>1. PICK f \in SalesFile : f = import[u] /\ Planned(sales, f)
  BY DEF SalesInv, ImportType
<1>2. f.todo = <<>>
  BY <1>1 DEF CommitImport
<1>3. DOMAIN f.todo = {}
  BY <1>2
<1>4. PICK ids \in [f.new -> {r \in Rows : sales[r] = Unused}] :
        /\ \A i, j \in f.new : ids[i] = ids[j] => i = j
        /\ sales' = [r \in Rows |->
             IF r \in DOMAIN f.fixed THEN [sales[r] EXCEPT !.value = f.fixed[r]]
             ELSE IF \E i \in f.new : ids[i] = r THEN f.lines[CHOOSE i \in f.new : ids[i] = r]
             ELSE sales[r]]
  BY <1>1 DEF CommitImport
<1>5. WrittenBy(sales, f, ids, sales')
  BY <1>3, <1>4 DEF WrittenBy
<1> QED
  BY <1>1, <1>5

\* A commit closes the only open file.
LEMMA CommitSales == ASSUME SalesInv, NEW u \in Imports, CommitImport(u) PROVE SalesInv'
<1> USE DEF SalesInv
<1>1. /\ removal' = removal /\ import' = [import EXCEPT ![u] = NoFile]
      /\ sales \in Table /\ import \in [Imports -> SalesFile] /\ import[u] # NoFile
  BY DEF CommitImport, MoveOn, ImportType
<1>0. PICK f \in SalesFile : f = import[u] /\ Planned(sales, f) /\ \E ids : WrittenBy(sales, f, ids, sales')
  BY CommitWrites
<1>2. PICK ids, t2 : WrittenBy(sales, f, ids, t2) /\ t2 = sales'
  BY <1>0
<1>3. t2 \in Table /\ Alone(t2) /\ \A x \in Removers : KeepsOne(t2, removal[x])
  BY <1>0, <1>1, <1>2, WrittenTable, WrittenAlone, WrittenKeeps
<1>4. \A w \in Imports : import'[w] = NoFile
  BY <1>1 DEF OneWriter
<1>5. import' \in [Imports -> SalesFile]
  BY <1>1, NoFilePlan
<1>6. ImportType' /\ OneWriter'
  BY <1>1, <1>2, <1>3, <1>4, <1>5 DEF ImportType, OneWriter
<1>7. ASSUME NEW w \in Imports PROVE Planned(sales', import'[w])
  BY <1>4, NoFilePlan
<1> QED
  BY <1>1, <1>2, <1>3, <1>6, <1>7

\* So does a failure, and nothing is written.
LEMMA FailSales == ASSUME SalesInv, NEW u \in Imports, FailImport(u) PROVE SalesInv'
<1> USE DEF SalesInv
<1>1. /\ sales' = sales /\ removal' = removal /\ import' = [import EXCEPT ![u] = NoFile]
      /\ sales \in Table /\ import \in [Imports -> SalesFile] /\ import[u] # NoFile
  BY DEF FailImport, MoveOn, ImportType
<1>2. \A w \in Imports : import'[w] = NoFile
  BY <1>1 DEF OneWriter
<1>3. import' \in [Imports -> SalesFile]
  BY <1>1, NoFilePlan
<1>4. ImportType' /\ OneWriter'
  BY <1>1, <1>2, <1>3 DEF ImportType, OneWriter
<1>5. ASSUME NEW w \in Imports PROVE Planned(sales', import'[w])
  BY <1>2, NoFilePlan
<1> QED
  BY <1>1, <1>4, <1>5

\* A repair of copies sees the second of two twins, and the others never the first
\* without the second.
LEMMA SeenKeepsOne ==
  ASSUME NEW t \in Table, Alone(t), NEW kind \in {"copies", "invalid", "all"}, NEW found,
         found = CASE kind = "copies"  -> {id \in InTable(t) :
                       /\ Cardinality({t[r].value : r \in Holders(t, t[id].key)}) = 1
                       /\ \E keep \in Holders(t, t[id].key) : keep < id}
                  [] kind = "invalid" -> {id \in InTable(t) : t[id].value \in Invalid}
                  [] kind = "all"     -> InTable(t)
  PROVE  found \subseteq InTable(t) /\ KeepsOne(t, [kind |-> kind, rows |-> found])
<1>1. ASSUME kind = "copies" PROVE found \subseteq {2} /\ (2 \in found => Twins(t))
  <2> SUFFICES ASSUME NEW id \in found PROVE id = 2 /\ Twins(t)
    OBVIOUS
  <2>1. /\ id \in InTable(t) /\ t[id].key \in Keys
        /\ Cardinality({t[r].value : r \in Holders(t, t[id].key)}) = 1
    BY <1>1, TableRows
  <2>2. PICK keep \in Holders(t, t[id].key) : keep < id
    BY <1>1
  <2>3. keep \in InTable(t) /\ t[keep].key = t[id].key /\ keep # id
    BY <2>1, <2>2, TableRows DEF Holders, Rows, InTable
  <2>4. id \in Legacy /\ keep \in Legacy
    BY <2>1, <2>3 DEF Alone
  <2>5. id = 2 /\ keep = 1
    BY <2>2, <2>4 DEF Legacy
  <2>6. PICK V : V = {t[r].value : r \in Holders(t, t[id].key)}
    OBVIOUS
  <2>7. t[1].value \in V /\ t[2].value \in V
    BY <2>1, <2>2, <2>5, <2>6 DEF Holders, InTable
  <2>8. IsFiniteSet(V)
    <3>1. IsFiniteSet(Rows)
      BY FS_Interval, SalesAssumption DEF Rows
    <3>2. Holders(t, t[id].key) = {1, 2}
      <4>1. \A r \in Holders(t, t[id].key) : r \in InTable(t) /\ t[r].key = t[id].key
        BY <2>1, TableRows DEF Holders
      <4>2. \A r \in Holders(t, t[id].key) : r \in Legacy
        BY <2>1, <2>4, <4>1 DEF Alone
      <4>3. 1 \in Holders(t, t[id].key) /\ 2 \in Holders(t, t[id].key)
        BY <2>1, <2>2, <2>5 DEF Holders, InTable
      <4> QED BY <4>2, <4>3 DEF Legacy
    <3>3. V = {t[1].value} \cup {t[2].value}
      BY <2>6, <3>2
    <3> QED BY <3>3, FS_Singleton, FS_Union
  <2>9. t[1].value = t[2].value
    <3>1. PICK v : V = {v}
      BY <2>1, <2>6, <2>8, FS_Singleton
    <3> QED BY <2>7, <3>1
  <2>10. t[1] = t[2]
    BY <2>1, <2>3, <2>5, <2>9, TableRows
  <2> QED BY <2>1, <2>3, <2>5, <2>10 DEF Twins
<1>2. found \subseteq InTable(t)
  OBVIOUS
<1>3. ASSUME Twins(t), 1 \in found PROVE 2 \in found
  <2>1. CASE kind = "copies"
    BY <1>1, <1>3, <2>1
  <2>2. CASE kind = "invalid"
    BY <1>3, <2>2 DEF Twins
  <2>3. CASE kind = "all"
    BY <1>3, <2>3 DEF Twins
  <2> QED BY <2>1, <2>2, <2>3
<1> QED
  BY <1>1, <1>2, <1>3 DEF KeepsOne

\* A removal that sees rows touches none.
LEMMA SeeSales ==
  ASSUME SalesInv, NEW x \in Removers, NEW kind \in {"copies", "invalid", "all"}, SeeRows(x, kind)
  PROVE  SalesInv'
<1> USE DEF SalesInv
<1>1. /\ UNCHANGED <<sales, importLock, import>> /\ sales \in Table
      /\ removal \in [Removers -> [kind : {"none", "copies", "invalid", "all"}, rows : SUBSET Rows]]
  BY DEF SeeRows, ImportType
<1>2. PICK found :
        /\ found = CASE kind = "copies"  -> {id \in InTable(sales) :
                       /\ Cardinality({sales[r].value : r \in Holders(sales, sales[id].key)}) = 1
                       /\ \E keep \in Holders(sales, sales[id].key) : keep < id}
                  [] kind = "invalid" -> {id \in InTable(sales) : sales[id].value \in Invalid}
                  [] kind = "all"     -> InTable(sales)
        /\ removal' = [removal EXCEPT ![x] = [kind |-> kind, rows |-> found]]
  <2>1. Stored = InTable(sales) /\ ExtraCopies = {id \in InTable(sales) :
                       /\ Cardinality({sales[r].value : r \in Holders(sales, sales[id].key)}) = 1
                       /\ \E keep \in Holders(sales, sales[id].key) : keep < id}
    BY SameRows DEF ExtraCopies, Values, Copies, Holders
  <2>2. PICK found :
          /\ found = CASE kind = "copies"  -> ExtraCopies
                     [] kind = "invalid" -> {id \in Stored : sales[id].value \in Invalid}
                     [] kind = "all"     -> Stored
          /\ removal' = [removal EXCEPT ![x] = [kind |-> kind, rows |-> found]]
    BY DEF SeeRows
  <2> QED BY <2>1, <2>2
<1>3. found \subseteq InTable(sales) /\ KeepsOne(sales, [kind |-> kind, rows |-> found])
  BY <1>1, <1>2, SeenKeepsOne
<1>4. [kind |-> kind, rows |-> found]
        \in [kind : {"none", "copies", "invalid", "all"}, rows : SUBSET Rows]
  BY <1>3 DEF InTable
<1>5. ImportType'
  BY <1>1, <1>2, <1>4 DEF ImportType
<1>6. ASSUME NEW y \in Removers PROVE KeepsOne(sales', removal'[y])
  BY <1>1, <1>2, <1>3
<1>7. OneWriter'
  BY <1>1 DEF OneWriter
<1> QED
  BY <1>1, <1>5, <1>6, <1>7

\* What a removal takes, of the rows that it saw.
LEMMA RemoveTakes ==
  ASSUME SalesInv, NEW x \in Removers, Remove(x)
  PROVE  \E gone : /\ Taken(sales, gone, sales') /\ gone \subseteq removal[x].rows
                   /\ removal[x].kind # "invalid" => gone = removal[x].rows \cap InTable(sales)
                   /\ removal[x].kind = "invalid" =>
                        gone = {id \in removal[x].rows \cap InTable(sales) : sales[id].value \in Invalid}
                   /\ Twins(sales) /\ 1 \in gone => 2 \in gone
                   /\ removal[x].kind = "copies" => \A k \in Keys, id \in gone : Holders(sales, k) # {id}
<1> USE DEF SalesInv
<1>1. PICK r : r = removal[x] /\ KeepsOne(sales, r)
  OBVIOUS
<1>2. PICK gone : gone = {id \in r.rows \cap InTable(sales) :
                            r.kind = "invalid" => sales[id].value \in Invalid}
  OBVIOUS
<1>3. sales' = [id \in Rows |-> IF id \in gone THEN Removed ELSE sales[id]]
  BY <1>1, <1>2, SameRows DEF Remove
<1>4. Taken(sales, gone, sales')
  BY <1>2, <1>3 DEF Taken
<1>5. ASSUME Twins(sales), 1 \in gone PROVE 2 \in gone
  BY <1>1, <1>2, <1>5 DEF KeepsOne, Twins
<1>6. ASSUME r.kind = "copies", NEW k \in Keys, NEW id \in gone, Holders(sales, k) = {id} PROVE FALSE
  <2>1. id = 2 /\ Twins(sales)
    BY <1>1, <1>2, <1>6 DEF KeepsOne
  <2>2. 1 \in Rows /\ sales[1].key = sales[2].key
    BY <2>1, TableRows DEF Twins, InTable
  <2>3. 1 \in Holders(sales, k)
    BY <1>6, <2>1, <2>2 DEF Holders
  <2> QED BY <1>6, <2>1, <2>3
<1> QED
  BY <1>1, <1>2, <1>4, <1>5, <1>6

\* A removal takes rows from under an open file only if it marks it as crossed, or if
\* they are copies that the file left alone.
LEMMA RemoveSales == ASSUME SalesInv, NEW x \in Removers, Remove(x) PROVE SalesInv'
<1> USE DEF SalesInv
<1>1. /\ removal' = [removal EXCEPT ![x] = NoRemoval] /\ importLock' = importLock
      /\ import' = [u \in Imports |->
           [import[u] EXCEPT !.crossed = @ \/ (removal[x].kind # "copies" /\ import[u] # NoFile)]]
      /\ \A u \in Imports : removal[x].rows \cap DOMAIN import[u].fixed = {}
      /\ sales \in Table /\ import \in [Imports -> SalesFile]
      /\ removal \in [Removers -> [kind : {"none", "copies", "invalid", "all"}, rows : SUBSET Rows]]
  BY DEF Remove, ImportType
<1>2. PICK gone, t2 :
        /\ t2 = sales' /\ Taken(sales, gone, t2) /\ gone \subseteq removal[x].rows
        /\ Twins(sales) /\ 1 \in gone => 2 \in gone
        /\ removal[x].kind = "copies" => \A k \in Keys, id \in gone : Holders(sales, k) # {id}
  BY RemoveTakes
<1>3. t2 \in Table /\ Alone(t2) /\ \A y \in Removers : KeepsOne(t2, removal[y])
  BY <1>1, <1>2, TakenRows, TakenAlone, TakenKeeps
<1>4. KeepsOne(t2, NoRemoval) /\ NoRemoval \in [kind : {"none", "copies", "invalid", "all"}, rows : SUBSET Rows]
  BY DEF KeepsOne, NoRemoval
<1>5. \A y \in Removers : KeepsOne(t2, removal'[y])
  BY <1>1, <1>3, <1>4
<1>6. ASSUME NEW u \in Imports
      PROVE  /\ import'[u] \in SalesFile /\ Planned(t2, import'[u])
             /\ import[u] = NoFile => import'[u] = NoFile
  <2>1. PICK f \in SalesFile : f = import[u] /\ Planned(sales, f)
    BY <1>1
  <2>2. PICK g : /\ g = [f EXCEPT !.crossed = @ \/ (removal[x].kind # "copies" /\ f # NoFile)]
                 /\ g = import'[u]
    BY <1>1, <2>1
  <2>3. /\ g \in SalesFile /\ g.lines = f.lines /\ g.new = f.new /\ g.todo = f.todo
        /\ g.fixed = f.fixed
    BY <2>1, <2>2 DEF SalesFile
  <2>4. g.crossed <=> f.crossed \/ (removal[x].kind # "copies" /\ f # NoFile)
    BY <2>1, <2>2 DEF SalesFile
  <2>5. CASE f = NoFile
    <3>1. g = NoFile
      BY <2>2, <2>5 DEF NoFile
    <3> QED BY <2>1, <2>2, <2>3, <3>1, NoFilePlan
  <2>6. CASE f # NoFile
    <3>1. ~ g.crossed => ~ f.crossed /\ \A id \in gone : \A k \in Keys : Holders(sales, k) # {id}
      BY <1>2, <2>4, <2>6
    <3>2. gone \cap DOMAIN f.fixed = {}
      BY <1>1, <1>2, <2>1
    <3>3. Spared(sales, gone, f, g)
      BY <2>3, <3>1, <3>2 DEF Spared
    <3>4. Planned(t2, g)
      BY <1>1, <1>2, <2>1, <3>3, TakenPlan
    <3> QED BY <2>1, <2>2, <2>3, <2>6, <3>4
  <2> QED BY <2>5, <2>6
<1>7. import' \in [Imports -> SalesFile]
  <2>1. import' = [u \in Imports |-> import'[u]]
    BY <1>1
  <2> QED BY <1>6, <2>1
<1>8. ImportType'
  BY <1>1, <1>2, <1>3, <1>4, <1>7 DEF ImportType
<1>9. OneWriter'
  BY <1>1, <1>6 DEF OneWriter
<1> QED
  BY <1>2, <1>3, <1>5, <1>6, <1>8, <1>9

\* Imports, repairs and resets keep all of it, in any order.
LEMMA NextSales == SalesInv /\ [ImportNext]_importVars => SalesInv'
<1> SUFFICES ASSUME SalesInv, [ImportNext]_importVars PROVE SalesInv'
  OBVIOUS
<1>1. CASE UNCHANGED importVars
  BY <1>1 DEF importVars, SalesInv, ImportType, OneWriter
<1> QED
  BY <1>1, LookSales, CorrectSales, CommitSales, FailSales, SeeSales, RemoveSales DEF ImportNext

\* A repair of copies keeps every value of every key.
LEMMA RepairKeeps ==
  ASSUME SalesInv, [ImportNext]_importVars, NEW x \in Removers,
         removal[x].kind = "copies", removal'[x] = NoRemoval,
         NEW k \in {sales[id].key : id \in Stored}
  PROVE  Values(k)' = Values(k)
<1> USE DEF SalesInv
<1>1. Remove(x)
  <2>1. NoRemoval.kind # "copies"
    BY DEF NoRemoval
  <2>2. removal \in [Removers -> [kind : {"none", "copies", "invalid", "all"}, rows : SUBSET Rows]]
    BY DEF ImportType
  <2>3. removal' # removal
    BY <2>1
  <2>4. PICK y \in Removers : Remove(y) \/ \E kind \in {"copies", "invalid", "all"} : SeeRows(y, kind)
    BY <2>3 DEF ImportNext, importVars, Look, CommitImport, FailImport, Correct
  <2>5. removal'[y] # removal[y] /\ \A z \in Removers \ {y} : removal'[z] = removal[z]
    <3>1. CASE Remove(y)
      BY <2>2, <3>1 DEF Remove
    <3>2. ASSUME NEW kind \in {"copies", "invalid", "all"}, SeeRows(y, kind)
          PROVE  removal'[y] # removal[y] /\ \A z \in Removers \ {y} : removal'[z] = removal[z]
      BY <2>2, <3>2 DEF SeeRows, NoRemoval
    <3> QED BY <2>4, <3>1, <3>2
  <2>6. y = x
    BY <2>1, <2>5
  <2>7. ASSUME NEW kind \in {"copies", "invalid", "all"}, SeeRows(x, kind) PROVE FALSE
    BY <2>1, <2>7 DEF SeeRows
  <2> QED BY <2>4, <2>6, <2>7
<1>2. PICK gone, t2 :
        /\ t2 = sales' /\ Taken(sales, gone, t2) /\ gone \subseteq removal[x].rows
        /\ Twins(sales) /\ 1 \in gone => 2 \in gone
        /\ removal[x].kind # "invalid" => gone = removal[x].rows \cap InTable(sales)
  BY <1>1, RemoveTakes
<1>3. sales \in Table /\ KeepsOne(sales, removal[x])
  BY DEF ImportType
<1>4. gone \subseteq {2} /\ (2 \in gone => Twins(sales))
  BY <1>2, <1>3 DEF KeepsOne
<1>5. k \in Keys
  BY <1>3, SameRows, TableRows
<1>6. Holders(t2, k) = Holders(sales, k) \ gone /\ \A id \in Rows \ gone : t2[id] = sales[id]
  BY <1>2, <1>3, <1>5, TakenRows
<1>7. {t2[id].value : id \in Holders(t2, k)} = {sales[id].value : id \in Holders(sales, k)}
  <2>1. \A id \in Holders(t2, k) : id \in Holders(sales, k) /\ t2[id].value = sales[id].value
    BY <1>6 DEF Holders
  <2>2. ASSUME NEW id \in Holders(sales, k)
        PROVE  \E pos \in Holders(t2, k) : t2[pos].value = sales[id].value
    <3>1. CASE id \notin gone
      BY <1>6, <3>1 DEF Holders
    <3>2. CASE id \in gone
      <4>0. 1 \notin {2}
        OBVIOUS
      <4>1. id = 2 /\ Twins(sales) /\ 1 \notin gone
        BY <1>4, <3>2, <4>0
      <4>2. 1 \in Holders(sales, k) /\ sales[1].value = sales[id].value
        BY <4>1 DEF Twins, Holders, InTable
      <4>3. 1 \in Holders(t2, k) /\ t2[1].value = sales[id].value
        BY <1>6, <4>1, <4>2 DEF Holders
      <4> QED BY <4>3
    <3> QED BY <3>1, <3>2
  <2> QED BY <2>1, <2>2
<1> QED
  BY <1>2, <1>7 DEF Values, Copies, Holders

\* A committed file that nobody crossed is stored line for line.
LEMMA CommitCounts ==
  ASSUME SalesInv, NEW u \in Imports, CommitImport(u), ~ import[u].crossed, NEW v \in SaleValues
  PROVE  LET lines == import[u].lines IN
         Cardinality({id \in Rows : sales'[id] \in {lines[i] : i \in DOMAIN lines} /\ sales'[id].value = v})
           = Cardinality({i \in DOMAIN lines : lines[i].value = v})
<1>1. PICK f \in SalesFile : f = import[u] /\ Planned(sales, f) /\ \E ids : WrittenBy(sales, f, ids, sales')
  BY CommitWrites
<1>2. PICK ids, t2 : WrittenBy(sales, f, ids, t2) /\ t2 = sales'
  BY <1>1
<1>3. sales \in Table
  BY DEF SalesInv, ImportType
<1>4. Cardinality(RowsWith(t2, f.lines, v)) = Cardinality(LinesWith(f.lines, v))
  <2>1. ~ f.crossed
    BY <1>1
  <2>2. Planned(sales, f) /\ WrittenBy(sales, f, ids, t2)
    BY <1>1, <1>2
  <2> QED BY <1>3, <2>1, <2>2, WrittenCounts
<1> QED
  BY <1>1, <1>2, <1>4 DEF RowsWith, LinesWith

\* Imports, repairs and resets at once store a key once, lose no value to a repair of
\* copies, and store a file line for line (upsert_sales_rows, sanket_dedupe_sales).
THEOREM SalesAreStoredOnce == ImportSpec => SoldOnce
<1>1. SalesInv => \A id \in Stored : Cardinality(Copies(sales[id].key)) > 1 => id \in Legacy
  <2> SUFFICES ASSUME SalesInv, NEW id \in Stored, id \notin Legacy
               PROVE  ~ (Cardinality(Copies(sales[id].key)) > 1)
    OBVIOUS
  <2>1. /\ Stored = InTable(sales) /\ Copies(sales[id].key) = Holders(sales, sales[id].key)
        /\ sales \in Table /\ sales[id].key \in Keys
    BY SameRows, TableRows DEF SalesInv, ImportType
  <2>2. Holders(sales, sales[id].key) = {id}
    <3>1. \A r \in Holders(sales, sales[id].key) : r \in InTable(sales) /\ sales[r].key = sales[id].key
      BY <2>1, TableRows DEF Holders
    <3>2. \A r \in Holders(sales, sales[id].key) : r = id
      BY <2>1, <3>1 DEF SalesInv, Alone
    <3>3. id \in Holders(sales, sales[id].key)
      BY DEF Stored, Holders
    <3> QED BY <3>2, <3>3
  <2>3. Cardinality(Copies(sales[id].key)) = 1
    BY <2>1, <2>2, FS_Singleton
  <2> QED BY <2>3
<1>2. SalesInv /\ [ImportNext]_importVars =>
        \A x \in Removers : removal[x].kind = "copies" /\ removal'[x] = NoRemoval =>
          \A k \in {sales[id].key : id \in Stored} : Values(k)' = Values(k)
  BY RepairKeeps
<1>3. SalesInv =>
        \A u \in Imports : CommitImport(u) /\ ~ import[u].crossed =>
          LET lines == import[u].lines IN
          \A v \in SaleValues :
            Cardinality({id \in Rows : sales'[id] \in {lines[i] : i \in DOMAIN lines} /\ sales'[id].value = v})
            = Cardinality({i \in DOMAIN lines : lines[i].value = v})
  BY CommitCounts
<1>4. SalesInv /\ [ImportNext]_importVars => SalesInv'
  BY NextSales
<1>5. ImportInit => SalesInv
  BY InitSales
<1> QED
  BY <1>1, <1>2, <1>3, <1>4, <1>5, PTL DEF ImportSpec, SoldOnce
=============================================================================
