--------------------------- MODULE WebhookDelivery ---------------------------
(* Outgoing webhooks of one endpoint (services/webhooks.py, routers/webhooks.py).
   A delivery's row has three kinds of writer: the retry worker's tick, one
   transaction that locks the due rows and posts them one by one; the immediate
   attempt of dispatch; and an administrator's retry. The last two read a row,
   post, and write what they made of the row they had read.                    *)
EXTENDS Naturals, FiniteSets

CONSTANTS Deliveries,
          Tickers,      \* replicas that may run the worker
          MaxAttempts,
          MaxManual,    \* bound: manual retries
          MaxHiccups    \* bound: attempts that raise, lost database connections

ASSUME WebhookAssumption ==
  MaxAttempts \in Nat \ {0} /\ MaxManual \in Nat /\ MaxHiccups \in Nat

VARIABLES table,     \* webhook_deliveries
          endpoint,  \* the endpoint's row
          batch,     \* ticker -> the rows its transaction has locked, as it will write them
          todo,      \* ticker -> locked rows it has not yet attempted
          hand,      \* delivery -> what an attempt outside the worker has read of it
          posts,     \* history: requests sent for a delivery, counted to MaxAttempts
          acked,     \* history: deliveries the receiver has answered with a 2xx
          refused,   \* history: deliveries an attempt found the endpoint gone for
          manual, hiccups

hookVars == <<table, endpoint, batch, todo, hand, posts, acked, refused, manual, hiccups>>
history  == <<posts, acked, refused>>

NoRow == [status |-> "none", attempts |-> 0, due |-> FALSE]
Empty == [d \in {} |-> NoRow]
Away  == [at |-> "none", row |-> NoRow]

HookInit ==
  /\ table = [d \in Deliveries |-> NoRow]
  /\ endpoint = "active"
  /\ batch = [w \in Tickers |-> Empty]
  /\ todo = [w \in Tickers |-> {}]
  /\ hand = [d \in Deliveries |-> Away]
  /\ posts = [d \in Deliveries |-> 0]
  /\ acked = {} /\ refused = {}
  /\ manual = 0 /\ hiccups = 0

Hiccup == hiccups < MaxHiccups /\ hiccups' = hiccups + 1
Locked(d) == \E w \in Tickers : d \in DOMAIN batch[w]
Settled(row) == row.status \in {"succeeded", "dead_letter"}

-----------------------------------------------------------------------------
(* _try_deliver on a row that is not settled *)

\* Mutant: the last attempt is given up before it is made.
RetrySooner(row) ==
  IF row.attempts + 1 >= MaxAttempts THEN [row EXCEPT !.status = "dead_letter", !.due = FALSE]
  ELSE [row EXCEPT !.status = "pending", !.due = FALSE]

Retry(row) ==
  IF row.attempts >= MaxAttempts THEN [row EXCEPT !.status = "dead_letter", !.due = FALSE]
  ELSE [row EXCEPT !.status = "pending", !.due = FALSE]

Counted(row) == [row EXCEPT !.attempts = @ + 1]

\* Mutant: an answer of any status counts as delivered.
AnsweredIsDelivered(row, answer) ==
  IF answer = "none" THEN Retry(Counted(row))
  ELSE [Counted(row) EXCEPT !.status = "succeeded"]

\* What the receiver's answer, or none in time, makes of the row.
Outcome(row, answer) ==
  IF answer = "2xx" THEN [Counted(row) EXCEPT !.status = "succeeded"] ELSE Retry(Counted(row))

Posted(d, answer) ==
  /\ posts' = [posts EXCEPT ![d] = IF @ < MaxAttempts THEN @ + 1 ELSE @]
  \* A receiver that did its work may still be slow to say so.
  /\ acked' = IF answer = "2xx" THEN acked \cup {d} ELSE acked
  /\ UNCHANGED refused

Refused(d) ==
  /\ refused' = refused \cup {d}
  /\ UNCHANGED <<posts, acked>>

-----------------------------------------------------------------------------
(* retry_worker_tick: one transaction, a savepoint per delivery *)

Due == {d \in Deliveries : table[d].status = "pending" /\ table[d].due /\ ~ Locked(d)}

TickBegins(w) ==
  /\ batch[w] = Empty /\ Due # {}
  /\ batch' = [batch EXCEPT ![w] = [d \in Due |-> table[d]]]
  /\ todo' = [todo EXCEPT ![w] = Due]
  /\ UNCHANGED <<table, endpoint, hand, history, manual, hiccups>>

TickAttempts(w, d) ==
  /\ d \in todo[w]
  /\ todo' = [todo EXCEPT ![w] = @ \ {d}]
  /\ \/ /\ endpoint # "active"
        /\ batch' = [batch EXCEPT ![w][d].status = "dead_letter"]
        /\ Refused(d) /\ UNCHANGED hiccups
     \/ /\ endpoint = "active"
        /\ \E answer \in {"2xx", "other", "none"} :
             /\ batch' = [batch EXCEPT ![w][d] = Outcome(@, answer)]
             /\ Posted(d, answer)
        /\ UNCHANGED hiccups
     \* An error of another kind undoes the savepoint: the row stays due.
     \/ /\ endpoint = "active" /\ Hiccup
        /\ UNCHANGED history \/ \E answer \in {"2xx", "other"} : Posted(d, answer)
        /\ UNCHANGED batch
  /\ UNCHANGED <<table, endpoint, hand, manual>>

Unlock(w) ==
  batch' = [batch EXCEPT ![w] = Empty] /\ todo' = [todo EXCEPT ![w] = {}]

TickCommits(w) ==
  /\ batch[w] # Empty /\ todo[w] = {}
  /\ table' = [d \in Deliveries |-> IF d \in DOMAIN batch[w] THEN batch[w][d] ELSE table[d]]
  /\ Unlock(w)
  /\ UNCHANGED <<endpoint, hand, history, manual, hiccups>>

\* The replica or its connection is lost: the database undoes the whole batch.
TickUndone(w) ==
  /\ Unlock(w)
  /\ UNCHANGED <<table, endpoint, hand, history, manual>>

-----------------------------------------------------------------------------
(* dispatch and the manual retry: an attempt that holds no lock *)

\* The row is inserted, due at once, and kept in the session as it was inserted.
Dispatch(d) ==
  /\ table[d].status = "none" /\ endpoint = "active"
  /\ table' = [table EXCEPT ![d] = [status |-> "pending", attempts |-> 0, due |-> TRUE]]
  /\ hand' = [hand EXCEPT ![d] = [at |-> "post", row |-> table'[d]]]
  /\ UNCHANGED <<endpoint, batch, todo, history, manual, hiccups>>

\* Phase 1 makes any delivery pending again and waits for a tick that has it locked.
ResetRow(d) ==
  /\ hand[d] = Away /\ table[d].status \notin {"none", "gone"} /\ ~ Locked(d)
  /\ manual < MaxManual /\ manual' = manual + 1
  /\ table' = [table EXCEPT ![d].status = "pending", ![d].due = TRUE]
  /\ hand' = [hand EXCEPT ![d].at = "load"]
  /\ UNCHANGED <<endpoint, batch, todo, history, hiccups>>

\* Phase 2 reads what is committed, which a tick may be about to replace.
LoadRow(d) ==
  /\ hand[d].at = "load"
  /\ hand' = [hand EXCEPT ![d] =
       IF table[d].status # "pending" THEN Away
       ELSE [at |-> IF endpoint = "active" THEN "post" ELSE "off", row |-> table[d]]]
  /\ UNCHANGED <<table, endpoint, batch, todo, history, manual, hiccups>>

PostFromHand(d) ==
  /\ hand[d].at = "post"
  /\ \E answer \in {"2xx", "other", "none"} :
       /\ hand' = [hand EXCEPT ![d].at = "write", ![d].row = Outcome(@, answer)]
       /\ Posted(d, answer)
  /\ UNCHANGED <<table, endpoint, batch, todo, manual, hiccups>>

\* The session writes the columns it has changed: the count and the schedule, and the
\* status if it is no longer the pending one that was read. A locked row is waited for.
WriteFromHand(d) ==
  /\ hand[d].at \in {"write", "off"} /\ ~ Locked(d)
  /\ \/ /\ hand[d].at = "off" /\ table[d].status # "gone"
        /\ table' = [table EXCEPT ![d].status = "dead_letter"]
        /\ Refused(d)
     \/ /\ hand[d].at = "write" /\ table[d].status # "gone"
        /\ table' = [table EXCEPT ![d] =
             [hand[d].row EXCEPT !.status = IF @ = "pending" THEN table[d].status ELSE @]]
        /\ UNCHANGED history
     \/ table[d].status = "gone" /\ UNCHANGED <<table, history>>
  /\ hand' = [hand EXCEPT ![d] = Away]
  /\ UNCHANGED <<endpoint, batch, todo, manual, hiccups>>

\* The request's process dies, or its transaction cannot be used: nothing is written.
HandLost(d) ==
  /\ hand[d] # Away /\ Hiccup
  /\ hand' = [hand EXCEPT ![d] = Away]
  /\ UNCHANGED <<table, endpoint, batch, todo, history, manual>>

-----------------------------------------------------------------------------
(* Time, and the administrator's changes of the endpoint *)

\* next_retry_at passes: the backoff of l. 33, in order of a row's attempts.
ComesDue(d) ==
  /\ table[d].status = "pending" /\ ~ table[d].due /\ ~ Locked(d)
  /\ table' = [table EXCEPT ![d].due = TRUE]
  /\ UNCHANGED <<endpoint, batch, todo, hand, history, manual, hiccups>>

SetActive ==
  /\ endpoint # "deleted"
  /\ endpoint' = IF endpoint = "active" THEN "inactive" ELSE "active"
  /\ UNCHANGED <<table, batch, todo, hand, history, manual, hiccups>>

\* The deliveries go with their endpoint, when no tick holds one of them.
DeleteEndpoint ==
  /\ endpoint # "deleted" /\ \A d \in Deliveries : ~ Locked(d)
  /\ endpoint' = "deleted"
  /\ table' = [d \in Deliveries |-> [table[d] EXCEPT !.status = "gone"]]
  /\ UNCHANGED <<batch, todo, hand, history, manual, hiccups>>

Direct(d) == LoadRow(d) \/ PostFromHand(d) \/ WriteFromHand(d)

-----------------------------------------------------------------------------
(* Properties *)

\* A delivery is shown as succeeded only if its receiver has said so, whatever ticks
\* and attempts overwrote each other's row (_try_deliver).
SucceededWasAnswered ==
  \A d \in Deliveries : table[d].status = "succeeded" => d \in acked

\* A delivery is given up only after MaxAttempts requests or because its endpoint was
\* off, also where two writers of one row have lost each other's count ("dead_letter
\* after 6 attempts", services/webhooks.py).
DeadLetterIsEarned ==
  \A d \in Deliveries : table[d].status = "dead_letter" =>
    posts[d] = MaxAttempts \/ d \in refused

\* Every delivery ends: it succeeds, is given up, or goes with its endpoint, whatever
\* dies or is lost on the way (dispatch, retry_worker_tick).
DeliveriesEnd ==
  \A d \in Deliveries : table[d].status = "pending" ~> table[d].status # "pending"
=============================================================================
