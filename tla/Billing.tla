------------------------------- MODULE Billing -------------------------------
(* One tenant's subscriptions to a priced plan: services/billing/subscription_manager.py
   behind routers/billing.py, the provider's webhooks behind core/webhook_replay.py.
   The provider moves a subscription on its own, emits an event for every move, and
   delivers events in any order, again, or never; created_at counts seconds, so several
   events may bear the same. Transactions read committed rows and write, at commit, the
   columns they have changed.                                                   *)
EXTENDS Naturals, FiniteSets

CONSTANTS Subs,
          MaxEvents,   \* bound: events the provider emits
          MaxFaults    \* bound: handlings or commits that fail, outages of Redis

ASSUME BillingAssumption == MaxEvents \in Nat /\ MaxFaults \in Nat

VARIABLES provider,  \* subscription -> its status at the provider
          payments,  \* [sub, status, full]: payments the provider has signed
          events,    \* emitted: delivery id, created_at, kind, what it carries
          seen,      \* delivery ids recorded in Redis
          row,       \* subscription -> its row: status, last_event_ts
          opening,   \* subscriptions created at the provider, their row not committed
          handling,  \* delivery id -> what the event's handler has read
          verifying, \* the browser's payment and the status read of its subscription
          faults,
          excused    \* history: subscriptions an event was lost for, two handlers overlapped
                     \*   on, or a browser or an administrator changed

billingVars == <<provider, payments, events, seen, row, opening, handling, verifying,
                 faults, excused>>

Live     == {"trialing", "active", "past_due"}
Away     == [at |-> "none", status |-> "none", ts |-> 0]

Mapped(status) ==
  CASE status = "created" -> "incomplete"
    [] status = "authenticated" -> "trialing"
    [] status = "active" -> "active"
    [] status = "halted" -> "past_due"
    [] OTHER -> "cancelled"

BillingInit ==
  /\ provider = [s \in Subs |-> "none"]
  /\ payments = {} /\ events = {} /\ seen = {} /\ opening = {}
  /\ row = [s \in Subs |-> [status |-> "none", ts |-> 0]]
  /\ handling = [id \in 1..MaxEvents |-> Away]
  /\ verifying = {}
  /\ faults = 0
  /\ excused = {}

Fault == faults < MaxFaults /\ faults' = faults + 1

\* The partial unique index of migration 0017.
SlotFree(s, status) ==
  status \in Live => \A o \in Subs \ {s} : row[o].status \notin Live

-----------------------------------------------------------------------------
(* start_subscription: the provider is called inside the transaction *)

NoneLive == \A s \in Subs : row[s].status \notin Live

StartCreates(s) ==
  /\ provider[s] = "none" /\ NoneLive
  /\ provider' = [provider EXCEPT ![s] = "created"]
  /\ opening' = opening \cup {s}
  /\ UNCHANGED <<payments, events, seen, row, handling, verifying, faults, excused>>

\* A row that is only incomplete is outside the index: nothing refuses it.
StartCommits(s) ==
  /\ s \in opening
  /\ opening' = opening \ {s}
  /\ row' = [row EXCEPT ![s].status = "incomplete"]
  /\ UNCHANGED <<provider, payments, events, seen, handling, verifying, faults, excused>>

StartFails(s) ==
  /\ s \in opening /\ Fault
  /\ opening' = opening \ {s}
  /\ UNCHANGED <<provider, payments, events, seen, row, handling, verifying, excused>>

-----------------------------------------------------------------------------
(* The provider *)

\* A payment entity covers the plan also when it does not say how much or whether it
\* was captured.
Covers(e) == e.kind = "payment" /\ e.paid \in {"full", "unsaid"}

Resolved(e, status) ==
  IF e.kind = "end" THEN "cancelled"
  ELSE IF e.entity # "none" THEN Mapped(e.entity)
  ELSE IF e.kind = "failure" THEN "past_due"
  ELSE IF e.kind = "start" \/ Covers(e) THEN "active" ELSE status

\* A payment that does not cover the plan leaves the status as it was.
Decides(e) == e.entity # "none" \/ e.kind \in {"start", "failure", "end"} \/ Covers(e)

\* No event is dated back, and the clock skips no second that it could.
Now(ts) ==
  /\ \A f \in events : f.ts <= ts
  /\ ts = 1 \/ \E f \in events : f.ts + 1 >= ts

Emit(s, kind, entity, paid) ==
  \E id, ts \in 1..MaxEvents :
    /\ id = Cardinality(events) + 1 /\ Now(ts)
    /\ events' = events \cup {[sub |-> s, id |-> id, ts |-> ts,
                              kind |-> kind, entity |-> entity, paid |-> paid]}

\* The customer, whose page opens once the row is committed, authorises the mandate. An
\* event's subscription entity may come without a status, as may any other's.
Authorise(s) ==
  /\ provider[s] = "created" /\ row[s].status # "none"
  /\ provider' = [provider EXCEPT ![s] = "authenticated"]
  /\ \E entity \in {"authenticated", "none"} : Emit(s, "start", entity, "unsaid")
  /\ UNCHANGED payments

\* The charge succeeds, and its event may carry the subscription or the payment only.
Charge(s) ==
  /\ provider[s] \in {"authenticated", "active", "halted"}
  /\ provider' = [provider EXCEPT ![s] = "active"]
  /\ payments' = payments \cup {[sub |-> s, status |-> "captured", full |-> TRUE]}
  /\ \E entity \in {"active", "none"} : Emit(s, "payment", entity, "full")

\* A token is charged for the mandate, or a charge is authorised and not captured. Its
\* event says so, or leaves the amount and the status out.
ChargeLess(s) ==
  /\ provider[s] \in {"authenticated", "halted"}
  /\ \E p \in {[sub |-> s, status |-> "captured", full |-> FALSE],
               [sub |-> s, status |-> "authorized", full |-> TRUE]} :
       /\ payments' = payments \cup {p}
       /\ \E paid \in {IF p.full THEN "uncaptured" ELSE "short", "unsaid"} :
            Emit(s, "payment", "none", paid)
  /\ UNCHANGED provider

ChargeFails(s) ==
  /\ provider[s] \in {"active", "halted"}
  /\ provider' = [provider EXCEPT ![s] = "halted"]
  /\ Emit(s, "status", "halted", "unsaid") \/ Emit(s, "failure", "none", "unsaid")
  /\ UNCHANGED payments

\* The event may still carry the entity as it was before.
Ends(s) ==
  /\ provider[s] \in {"authenticated", "active", "halted"}
  /\ provider' = [provider EXCEPT ![s] = "cancelled"]
  /\ \E entity \in {"cancelled", "active"} : Emit(s, "end", entity, "unsaid")
  /\ UNCHANGED payments

ProviderMoves(s) ==
  /\ Authorise(s) \/ Charge(s) \/ ChargeLess(s) \/ ChargeFails(s) \/ Ends(s)
  /\ UNCHANGED <<seen, row, opening, handling, verifying, faults, excused>>

-----------------------------------------------------------------------------
(* handle_razorpay_event behind assert_fresh_and_unique *)

\* Mutant: an event older than the last applied one is applied.
ApplicableAnyOrder(e) == row[e.sub].status # "none"

\* A subscription that is known, and no event of a later second applied to it.
Applicable(e) == row[e.sub].status # "none" /\ e.ts >= row[e.sub].ts

Busy(s) == \E e \in events : e.sub = s /\ handling[e.id].at # "none"

\* The delivery id is set first; without Redis the event passes unchecked.
EventReads(e) ==
  /\ handling[e.id] = Away
  /\ \/ e.id \notin seen /\ UNCHANGED faults
     \/ Fault
  /\ seen' = seen \cup {e.id}
  /\ IF Applicable(e)
     THEN /\ handling' = [handling EXCEPT ![e.id] =
               [at |-> "read", status |-> row[e.sub].status, ts |-> row[e.sub].ts]]
          /\ excused' = IF Busy(e.sub) THEN excused \cup {e.sub} ELSE excused
     ELSE UNCHANGED <<handling, excused>>
  /\ UNCHANGED <<provider, payments, events, row, opening, verifying>>

EventCommits(e) ==
  LET read   == handling[e.id]
      status == Resolved(e, read.status)
      new    == [status |-> IF status = read.status THEN row[e.sub].status ELSE status,
                 ts     |-> IF e.ts = read.ts THEN row[e.sub].ts ELSE e.ts] IN
  /\ read.at = "read"
  /\ handling' = [handling EXCEPT ![e.id] = Away]
  /\ IF SlotFree(e.sub, new.status)
     THEN row' = [row EXCEPT ![e.sub] = new] /\ UNCHANGED excused
     ELSE excused' = excused \cup {e.sub} /\ UNCHANGED row
  /\ UNCHANGED <<provider, payments, events, seen, opening, verifying, faults>>

\* The handler fails, or finds the event stale: its id stays recorded.
EventLost(e) ==
  /\ \/ handling[e.id].at = "read" /\ UNCHANGED seen
     \/ e.id \notin seen /\ seen' = seen \cup {e.id}
  /\ Fault
  /\ handling' = [handling EXCEPT ![e.id] = Away]
  /\ excused' = excused \cup {e.sub}
  /\ UNCHANGED <<provider, payments, events, row, opening, verifying>>

-----------------------------------------------------------------------------
(* verify_and_activate and cancel *)

\* Mutant: the signature is enough.
SettlesBySignature(p, status) == TRUE

\* Captured, and the plan's price unless the subscription is on trial.
Settles(p, status) == p.status = "captured" /\ (p.full \/ status = "trialing")

\* The browser comes with a payment; the row is read, then the provider is asked.
VerifyReads(p) ==
  /\ verifying = {} /\ row[p.sub].status # "none"
  /\ verifying' = {[payment |-> p, status |-> row[p.sub].status]}
  /\ UNCHANGED <<provider, payments, events, seen, row, opening, handling, faults, excused>>

VerifyCommits(v) ==
  LET s   == v.payment.sub
      new == IF v.status = "active" THEN row[s].status ELSE "active" IN
  /\ verifying' = {}
  /\ IF Settles(v.payment, v.status) /\ SlotFree(s, new)
     THEN /\ row' = [row EXCEPT ![s].status = new]
          /\ excused' = excused \cup {s}
     ELSE UNCHANGED <<row, excused>>
  /\ UNCHANGED <<provider, payments, events, seen, opening, handling, faults>>

\* The provider cancels; the commit may fail, and the event is then all that tells.
CancelNow(s) ==
  /\ row[s].status \in Live
  /\ provider' = [provider EXCEPT ![s] = "cancelled"]
  /\ Emit(s, "end", "cancelled", "unsaid")
  /\ \/ row' = [row EXCEPT ![s].status = "cancelled"] /\ UNCHANGED faults
     \/ Fault /\ UNCHANGED row
  /\ excused' = IF Busy(s) THEN excused \cup {s} ELSE excused
  /\ UNCHANGED <<payments, seen, opening, handling, verifying>>

BillingNext ==
  \/ \E s \in Subs :
       StartCreates(s) \/ StartCommits(s) \/ StartFails(s) \/ ProviderMoves(s) \/ CancelNow(s)
  \/ \E e \in events : EventReads(e) \/ EventCommits(e) \/ EventLost(e)
  \/ \E p \in payments : VerifyReads(p)
  \/ \E v \in verifying : VerifyCommits(v)

BillingSpec == BillingInit /\ [][BillingNext]_billingVars

-----------------------------------------------------------------------------
(* Properties *)

\* What tells the code that a subscription is paid for: its entity says active, it has
\* started, or its payment is not said to fall short.
Claims(e) ==
  /\ e.kind # "end"
  /\ \/ e.entity = "active"
     \/ e.entity = "none" /\ (e.kind = "start" \/ Covers(e))

\* A workspace is shown as active only for a subscription of which some event claims it,
\* or that a captured payment settles: the plan's price, or less after the event that
\* began a trial (handle_razorpay_event, verify_and_activate).
ActiveIsVouchedFor ==
  \A s \in Subs : row[s].status = "active" =>
    \/ \E e \in events : e.sub = s /\ Claims(e)
    \/ \E p \in payments :
         /\ p.sub = s /\ p.status = "captured"
         /\ p.full \/ \E e \in events : e.sub = s /\ e.entity = "authenticated"

Newest(s) == {e \in events : e.sub = s /\ \A f \in events : f.sub = s => f.ts <= e.ts}

Handled(e) == e.id \in seen /\ handling[e.id].at = "none"

\* Once every event of a subscription was handled, in whatever order and however often
\* each came, the row stands where an event of its newest second puts it, if one of that
\* second decides, unless an event was lost, two handlers overlapped or a browser
\* activated it (the ordering guard).
LatestEventWins ==
  \A s \in Subs \ excused :
    LET deciding == {e \in Newest(s) : Decides(e)} IN
    (\A e \in events : e.sub = s => Handled(e)) /\ deciding # {}
      => \E e \in deciding : row[s].status = Resolved(e, row[s].status)

\* A tenant is charged for one subscription at a time: "a double-submit created two
\* Razorpay subscriptions and billed twice" is what start_subscription is to prevent.
BilledOnce ==
  \A s, t \in Subs : provider[s] = "active" /\ provider[t] = "active" => s = t
=============================================================================
