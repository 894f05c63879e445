---------------------------- MODULE ReturnsLedger ----------------------------
(* One sale and its returns (services/integrations/v2): event_registry.py posts them,
   upload.py's confirm makes one transaction of a file and projects what was posted to
   the read model, clear_sales deletes it all, statement by statement. Every statement
   reads what is committed when it starts; locks are held to the end of the transaction.
   Amount stands for the value and for the tax of a return, which are held to the same
   rules.                                                                      *)
EXTENDS Naturals, FiniteSets, Functions

CONSTANTS Returns,   \* identities: source system, return, line
          Uploads,   \* files being confirmed
          Nobody,
          Payloads,  \* what a line may say of a return
          Sold, Paid

ASSUME LedgerAssumption ==
  /\ IsFiniteSet(Returns) /\ Nobody \notin Uploads /\ Sold \in Nat \ {0} /\ Paid \in Nat
  /\ Payloads \subseteq [status : {"draft", "approved", "rejected"}, qty : Nat \ {0}, amount : Nat]

VARIABLES sold,      \* the sale's event is there
          counted,   \* cumulative_returned_qty
          identity,  \* return -> the fields that the hash in the registry was made of
          ledger,    \* return -> its event
          projected, \* return -> its rows in the read model
          owner,     \* return -> the upload that holds its identity
          saleOwner, \* the upload that holds the sale's row
          upload,    \* upload -> the return it works on, what it has written and counted
          clear,     \* the reset: where it stands, whether it saw the sale, and the returns
                     \*   whose identities and whose events its statements name
          crossed    \* history: returns committed between two statements of a reset

tables     == <<sold, counted, identity, ledger, projected>>
ledgerVars == <<tables, owner, saleOwner, upload, clear, crossed>>

NoReturn == [status |-> "none", qty |-> 0, amount |-> 0]
Ready    == [at |-> "ready", ret |-> Nobody, payload |-> NoReturn, found |-> FALSE,
             wrote |-> [r \in {} |-> NoReturn], count |-> 0]
NoReset  == [at |-> "none", saw |-> FALSE, ids |-> {}, events |-> {}]

\* Its transaction has written or locked something.
Working(u) == upload[u] # Ready \/ \E r \in Returns : owner[r] = u

LedgerInit ==
  /\ sold = FALSE /\ counted = 0
  /\ identity = [r \in Returns |-> NoReturn]
  /\ ledger = [r \in Returns |-> NoReturn]
  /\ projected = [r \in Returns |-> 0]
  /\ owner = [r \in Returns |-> Nobody]
  /\ saleOwner = Nobody
  /\ upload = [u \in Uploads |-> Ready]
  /\ clear = NoReset /\ crossed = {}

\* The rows as transaction u sees them.
Through(u, rows) ==
  [r \in Returns |-> IF r \in DOMAIN upload[u].wrote THEN upload[u].wrote[r] ELSE rows[r]]
Seen(u)  == Through(u, ledger)
Known(u) == Through(u, identity)

Posted         == {r \in Returns : ledger[r] # NoReturn}
Approved(rows) == {r \in Returns : rows[r].status = "approved"}
Quantity(rows) == SumFunction([r \in Approved(rows) |-> rows[r].qty])
Amount(rows)   == SumFunction([r \in Approved(rows) |-> rows[r].amount])

-----------------------------------------------------------------------------
(* The sale, and clear_sales; one reset at a time *)

\* A file with the sale; posted a second time it is a duplicate.
PostSale ==
  /\ clear.at # "unsold"
  /\ sold' = TRUE
  /\ UNCHANGED <<counted, identity, ledger, projected, owner, saleOwner, upload, clear, crossed>>

ClearLists ==
  /\ clear.at = "none"
  /\ clear' = [clear EXCEPT !.at = "listed", !.saw = sold]
  /\ UNCHANGED <<tables, owner, saleOwner, upload, crossed>>

\* The identities of the returns that are there when the statement starts are deleted ...
ClearFinds ==
  /\ clear.at = "listed" /\ clear.saw
  /\ clear' = [clear EXCEPT !.at = "found", !.ids = Posted]
  /\ UNCHANGED <<tables, owner, saleOwner, upload, crossed>>

\* ... once no upload holds one of them.
ClearIdentities ==
  /\ clear.at = "found" /\ \A r \in clear.ids : owner[r] = Nobody
  /\ clear' = [clear EXCEPT !.at = "identities"]
  /\ UNCHANGED <<tables, owner, saleOwner, upload, crossed>>

\* The events are all that are there by now, but for one that is being approved.
ClearEvents ==
  /\ clear.at = "identities"
  /\ \A r \in Posted, u \in Uploads : r \notin DOMAIN upload[u].wrote
  /\ clear' = [clear EXCEPT !.at = "events", !.events = Posted]
  /\ UNCHANGED <<tables, owner, saleOwner, upload, crossed>>

\* Another event of the sale restricts its deletion (migration 0036).
ClearSale ==
  /\ clear.at = "events" /\ saleOwner = Nobody /\ Posted \subseteq clear.events
  /\ clear' = [clear EXCEPT !.at = "unsold"]
  /\ UNCHANGED <<tables, owner, saleOwner, upload, crossed>>

\* The read model is emptied in any case, the other tables of what was listed.
ClearCommits ==
  /\ clear.at = IF clear.saw THEN "unsold" ELSE "listed"
  /\ sold' = (sold /\ ~ clear.saw)
  /\ counted' = IF clear.saw THEN 0 ELSE counted
  /\ identity' = [r \in Returns |-> IF r \in clear.ids THEN NoReturn ELSE identity[r]]
  /\ ledger' = [r \in Returns |-> IF r \in clear.events THEN NoReturn ELSE ledger[r]]
  /\ projected' = [r \in Returns |-> 0]
  /\ clear' = NoReset
  /\ UNCHANGED <<owner, saleOwner, upload, crossed>>

\* A restricted deletion, a deadlock or a lost connection undoes the reset.
ClearFails ==
  /\ clear # NoReset /\ clear' = NoReset
  /\ UNCHANGED <<tables, owner, saleOwner, upload, crossed>>

\* Identities that the reset has deleted and not committed.
Deleting == IF clear.at = "found" THEN {} ELSE clear.ids

\* An upload that commits now posts returns whose identities the reset does not name, but
\* whose events or read model it will.
InTheWay == clear.at \in {"found", "identities"} \/ (clear.at = "listed" /\ ~ clear.saw)

-----------------------------------------------------------------------------
(* post_return_event *)

EndTransaction(u) ==
  /\ owner' = [r \in Returns |-> IF owner[r] = u THEN Nobody ELSE owner[r]]
  /\ saleOwner' = IF saleOwner = u THEN Nobody ELSE saleOwner
  /\ upload' = [upload EXCEPT ![u] = Ready]

\* A line that is a validation error, a deadlock or a lost connection undoes the file.
Rollback(u) ==
  /\ Working(u)
  /\ EndTransaction(u)
  /\ UNCHANGED <<tables, clear, crossed>>

\* The identity is looked up, and locked if it is there.
LookUp(u, r, payload) ==
  LET found == Known(u)[r] # NoReturn IN
  /\ upload[u].at = "ready" /\ r \notin Deleting
  /\ found => owner[r] \in {u, Nobody}
  /\ owner' = IF found THEN [owner EXCEPT ![r] = u] ELSE owner
  /\ upload' = [upload EXCEPT ![u] = [@ EXCEPT !.at = "found", !.ret = r,
                  !.payload = payload, !.found = found]]
  /\ UNCHANGED <<tables, saleOwner, clear, crossed>>

\* The same payload is skipped, also if another upload has registered it since the look,
\* and also if the event of the identity is gone.
SkipKnown(u) ==
  LET f == upload[u] IN
  /\ f.at = "found" /\ f.ret \notin Deleting /\ Known(u)[f.ret] = f.payload
  /\ upload' = [upload EXCEPT ![u] = [Ready EXCEPT !.wrote = f.wrote, !.count = f.count]]
  /\ UNCHANGED <<tables, owner, saleOwner, clear, crossed>>

Approves(event, known, new) ==
  event.status = "draft" /\ new.status = "approved" /\ [new EXCEPT !.status = "draft"] = known

\* A new identity, which waits for one who is registering or deleting it, or a draft's
\* approval. Any other payload under a known identity is a conflict and leaves only Rollback.
Register(u) ==
  LET f == upload[u] IN
  /\ f.at = "found" /\ f.ret \notin Deleting
  /\ \/ f.found /\ Approves(Seen(u)[f.ret], Known(u)[f.ret], f.payload)
     \/ ~ f.found /\ Known(u)[f.ret] = NoReturn /\ owner[f.ret] = Nobody
  /\ owner' = [owner EXCEPT ![f.ret] = u]
  /\ upload' = [upload EXCEPT ![u].at = "registered"]
  /\ UNCHANGED <<tables, saleOwner, clear, crossed>>

\* Paid * q / Sold, rounded half up.
Share(q) == (2 * Paid * q + Sold) \div (2 * Sold)

\* Mutant: the last return gets its rounded share like the others.
FitsByShare(payload, qty, amount) ==
  /\ qty + payload.qty <= Sold
  /\ payload.amount = Share(payload.qty)

Fits(payload, qty, amount) ==
  /\ qty + payload.qty <= Sold
  /\ payload.amount <= Paid - amount
  /\ payload.amount = IF qty + payload.qty = Sold THEN Paid - amount ELSE Share(payload.qty)

\* The sale's row is locked, the approved returns are summed after that, the return is
\* written and, if it is approved, counted; the sale must be there.
Write(u) ==
  LET f == upload[u] IN
  /\ f.at = "registered" /\ saleOwner \in {u, Nobody} /\ sold
  /\ clear.at # "unsold" /\ f.ret \notin clear.events
  /\ Fits(f.payload, Quantity(Seen(u)), Amount(Seen(u)))
  /\ saleOwner' = u
  /\ upload' = [upload EXCEPT ![u] = [Ready EXCEPT
                  !.wrote = [r \in DOMAIN f.wrote \cup {f.ret} |->
                               IF r = f.ret THEN f.payload ELSE f.wrote[r]],
                  !.count = IF f.payload.status = "approved"
                            THEN Quantity(Seen(u)) + f.payload.qty ELSE f.count]]
  /\ UNCHANGED <<tables, owner, clear, crossed>>

-----------------------------------------------------------------------------
(* The end of confirm *)

\* Mutant: only a return that is new to the ledger is projected.
NewlyApproved(u) ==
  {r \in DOMAIN upload[u].wrote : upload[u].wrote[r].status = "approved"
                                  /\ ledger[r] = NoReturn}

\* The returns whose result is approved and that the read model does not have.
ToProject(u) ==
  {r \in DOMAIN upload[u].wrote : upload[u].wrote[r].status = "approved"
                                  /\ projected[r] = 0}

Commit(u) ==
  /\ upload[u].at = "ready" /\ Working(u)
  /\ identity' = Known(u) /\ ledger' = Seen(u)
  /\ counted' = IF upload[u].count > 0 THEN upload[u].count ELSE counted
  /\ projected' = [r \in Returns |->
                     IF r \in ToProject(u) THEN projected[r] + 1 ELSE projected[r]]
  /\ crossed' = IF InTheWay THEN crossed \cup (DOMAIN upload[u].wrote \ clear.ids) ELSE crossed
  /\ EndTransaction(u)
  /\ UNCHANGED <<sold, clear>>

LedgerNext ==
  \/ PostSale \/ ClearLists \/ ClearFinds \/ ClearIdentities \/ ClearEvents \/ ClearSale
  \/ ClearCommits \/ ClearFails
  \/ \E u \in Uploads :
       \/ \E r \in Returns, payload \in Payloads : LookUp(u, r, payload)
       \/ SkipKnown(u) \/ Register(u) \/ Write(u) \/ Commit(u) \/ Rollback(u)

LedgerSpec == LedgerInit /\ [][LedgerNext]_ledgerVars

-----------------------------------------------------------------------------
(* Properties *)

Account == INSTANCE SaleAccount WITH
             returned <- Quantity(ledger), refunded <- Amount(ledger)

\* The committed returns of a sale keep its account: uploads that post returns of one
\* sale together never give back more than was sold or paid, and the one that completes
\* the quantity completes the amount to the last unit (post_return_event).
ReturnsKeepAccount == Account!AccountSpec

\* The sale's counter is the sum of its approved returns, and the read model has none
\* twice, no draft and no rejected one, through drafts, approvals, replays and resets. It
\* has all of them, and the registry knows the events that are there and no other, but
\* for returns that were committed between two statements of a reset (confirm, clear_sales).
ReadModelFollows ==
  /\ counted = Quantity(ledger)
  /\ \A r \in Returns :
       LET rows == IF ledger[r].status = "approved" THEN 1 ELSE 0 IN
       /\ projected[r] <= rows
       /\ r \notin crossed => projected[r] = rows /\ identity[r] = ledger[r]

\* No identity outlives its return's event: a reset is to "Permanently clear the active
\* industry's sales and related import identities" (clear_sales).
IdentitiesGoWithSales ==
  \A r \in Returns : identity[r] # NoReturn => ledger[r] # NoReturn
=============================================================================
