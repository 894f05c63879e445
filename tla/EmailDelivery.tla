---------------------------- MODULE EmailDelivery ----------------------------
(* One delivery identity of services/notifications/communications.py: calls of
   deliver_email that carry the same key. Each claims the row, talks to the SMTP
   server in a thread (email.py), and asks the event loop for leave just before
   the message's data; the thread waits 15 seconds for that answer, which may come
   after it has stopped waiting. The weekly job, its retry, the report and recover
   routes all end in such a call.                                              *)
EXTENDS Naturals, FiniteSets

CONSTANTS Calls, Messages, NoCall,
          Tries  \* attempts a row allows

ASSUME EmailAssumption ==
  NoCall \notin Calls /\ Tries \in Nat \ {0} /\ Messages # {}

VARIABLES delivery,  \* the row: state, holder of its lease, whether the lease is live, attempts, message
          eligible,  \* what authorize finds: membership, role, preferences, policy
          call,      \* call -> where it is
          content,   \* call -> its message
          leave,     \* call -> begin_dispatch, run by the event loop
          accepted   \* history: call -> the server has taken its message

emailVars == <<delivery, eligible, call, content, leave, accepted>>

EmailInit ==
  /\ delivery = [state |-> "none", holder |-> NoCall, live |-> FALSE, attempts |-> 0,
                 message |-> CHOOSE m \in Messages : TRUE]
  /\ eligible \in BOOLEAN
  /\ call = [c \in Calls |-> "new"]
  /\ content \in [Calls -> Messages]
  /\ leave = [c \in Calls |-> "none"]
  /\ accepted = [c \in Calls |-> FALSE]

GoesTo(c, at) == call' = [call EXCEPT ![c] = at]

-----------------------------------------------------------------------------
(* The claim *)

\* Mutant: a delivery left at sending is tried again.
RecoverableOnceSent(row) ==
  /\ row.state \in {"failed", "sending"} \/ (row.state = "claimed" /\ ~ row.live)
  /\ row.attempts < Tries

Recoverable(row) ==
  /\ row.state = "failed" \/ (row.state = "claimed" /\ ~ row.live)
  /\ row.attempts < Tries

Claimed(c) ==
  /\ delivery' = [state |-> "claimed", holder |-> c, live |-> TRUE,
                  attempts |-> delivery.attempts + 1, message |-> content[c]]
  /\ GoesTo(c, "connect")

Claim(c) ==
  /\ call[c] = "new" /\ eligible
  /\ \/ delivery.state = "none" /\ Claimed(c)
     \/ /\ delivery.state # "none" /\ delivery.message = content[c]
        /\ Recoverable(delivery) /\ Claimed(c)
  /\ UNCHANGED <<eligible, content, leave, accepted>>

\* No member, no permission, another message under the key, or nothing to send again.
Declines(c) ==
  /\ call[c] = "new"
  /\ \/ ~ eligible
     \/ delivery.state # "none"
        /\ (delivery.message # content[c] \/ ~ Recoverable(delivery))
  /\ GoesTo(c, "done")
  /\ UNCHANGED <<delivery, eligible, content, leave, accepted>>

-----------------------------------------------------------------------------
(* The SMTP conversation *)

\* Connection, TLS or login fails before anything was asked.
ConnectFails(c) ==
  /\ call[c] = "connect" /\ GoesTo(c, "failed")
  /\ UNCHANGED <<delivery, eligible, content, leave, accepted>>

AskLeave(c) ==
  /\ call[c] = "connect" /\ GoesTo(c, "asks")
  /\ leave' = [leave EXCEPT ![c] = "asked"]
  /\ UNCHANGED <<delivery, eligible, content, accepted>>

\* begin_dispatch checks everything again and makes the row durably sending.
BeginDispatch(c) ==
  /\ leave[c] = "asked"
  /\ IF /\ eligible
        /\ delivery.state = "claimed" /\ delivery.holder = c /\ delivery.live
     THEN /\ delivery' = [delivery EXCEPT !.state = "sending", !.live = FALSE]
          /\ leave' = [leave EXCEPT ![c] = "given"]
     ELSE leave' = [leave EXCEPT ![c] = "denied"] /\ UNCHANGED delivery
  /\ UNCHANGED <<eligible, call, content, accepted>>

\* The thread hears the answer, or its 15 seconds end: a TimeoutError is an OSError,
\* raised before anything was dispatched, and reads as a failed connection.
HearAnswer(c) ==
  /\ call[c] = "asks"
  /\ \/ leave[c] = "given" /\ GoesTo(c, "data")
     \/ leave[c] = "denied" /\ GoesTo(c, "done")
     \/ GoesTo(c, "failed")
  /\ UNCHANGED <<delivery, eligible, content, leave, accepted>>

\* The server takes the message or refuses it, or the connection breaks on either side
\* of its decision; so it may while the two say goodbye.
SendData(c) ==
  /\ call[c] = "data"
  /\ \/ /\ accepted' = [accepted EXCEPT ![c] = TRUE]
        /\ GoesTo(c, "sent") \/ GoesTo(c, "ambiguous")
     \/ /\ GoesTo(c, "failed") \/ GoesTo(c, "ambiguous")
        /\ UNCHANGED accepted
  /\ UNCHANGED <<delivery, eligible, content, leave>>

\* Mutant: the result is written to the key, whoever holds it.
RecordByKey(c) ==
  /\ call[c] \in {"sent", "failed", "ambiguous"}
  /\ delivery' = [delivery EXCEPT !.state = call[c], !.live = FALSE]
  /\ GoesTo(c, "done")
  /\ UNCHANGED <<eligible, content, leave, accepted>>

\* The last transaction writes the result if the lease is still the call's own.
Record(c) ==
  /\ call[c] \in {"sent", "failed", "ambiguous"}
  /\ delivery' = IF delivery.holder = c
                 THEN [delivery EXCEPT !.state = call[c], !.live = FALSE] ELSE delivery
  /\ GoesTo(c, "done")
  /\ UNCHANGED <<eligible, content, leave, accepted>>

-----------------------------------------------------------------------------
(* What may happen in between *)

\* The process dies, before or after the server took the message.
Perish(c) ==
  /\ call[c] \notin {"new", "done"} /\ GoesTo(c, "done")
  /\ leave' = [leave EXCEPT ![c] = IF @ = "asked" THEN "denied" ELSE @]
  /\ accepted' \in {accepted, [accepted EXCEPT ![c] = @ \/ call[c] = "data"]}
  /\ UNCHANGED <<delivery, eligible, content>>

\* lease_until passes.
LeaseEnds ==
  /\ delivery.state = "claimed" /\ delivery.live
  /\ delivery' = [delivery EXCEPT !.live = FALSE]
  /\ UNCHANGED <<eligible, call, content, leave, accepted>>

EligibilityTurns ==
  /\ eligible' = ~ eligible
  /\ UNCHANGED <<delivery, call, content, leave, accepted>>

EmailNext ==
  \/ \E c \in Calls :
       \/ Claim(c) \/ Declines(c) \/ ConnectFails(c) \/ AskLeave(c) \/ BeginDispatch(c)
       \/ HearAnswer(c) \/ SendData(c) \/ Record(c) \/ Perish(c)
  \/ LeaseEnds \/ EligibilityTurns

EmailSpec == EmailInit /\ [][EmailNext]_emailVars

-----------------------------------------------------------------------------
(* Properties *)

\* The server takes at most one message per delivery identity, whatever calls overlap,
\* leases end, answers come late or processes die around DATA (deliver_email).
AcceptedOnce ==
  \A c, d \in Calls : accepted[c] /\ accepted[d] => c = d

\* What the row says of a delivery is so: sent only if the server took it, failed, and
\* so open to another attempt, only if it did not (the last UPDATE of deliver_email).
RecordIsTrue ==
  /\ delivery.state = "sent" => \E c \in Calls : accepted[c]
  /\ delivery.state = "failed" => \A c \in Calls : ~ accepted[c] /\ call[c] # "data"
=============================================================================
