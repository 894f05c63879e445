------------------------------ MODULE MCRecords ------------------------------
(* What is recorded of money: a tenant's subscriptions, a sale's returns and imported
   sales. They share no state, so a behaviour is one of one of them, and the others stand
   still.                                                                      *)
EXTENDS Billing, MCReturnsLedger, SalesImport

VARIABLE record

\* Bound: a third event is emitted only while there is no second subscription.
First   == CHOOSE s \in Subs : TRUE
Focused == Cardinality(events) > 2 => \A s \in Subs \ {First} : provider[s] = "none"

MCSale ==
  [key |-> <<"order", CHOOSE k \in Subjects : TRUE, 1>>, value |-> CHOOSE v \in SaleValues : TRUE]

Init ==
  /\ record \in {"billing", "returns", "sales"}
  /\ BillingInit /\ LedgerInit /\ ImportInit
  /\ record = "sales" \/ \A id \in Legacy : sales[id] = MCSale

Next ==
  /\ record' = record
  /\ \/ record = "billing" /\ BillingNext /\ Focused' /\ UNCHANGED <<ledgerVars, importVars>>
     \/ record = "returns" /\ LedgerNext /\ UNCHANGED <<billingVars, importVars>>
     \/ record = "sales" /\ ImportNext /\ UNCHANGED <<billingVars, ledgerVars>>
=============================================================================
