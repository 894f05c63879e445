----------------------------- MODULE SaleAccount -----------------------------
(* What the returns of one sale come to: quantities and amounts are given back step
   by step, never more than was sold and paid, and whoever has given back everything
   has received everything. A reset of the sales starts the account anew.      *)
EXTENDS Naturals

CONSTANTS Sold,   \* quantity_sold
          Paid    \* net_sale_ex_tax, or tax_amount, in the currency's smallest unit

VARIABLES returned, refunded

AccountInit == returned = 0 /\ refunded = 0

Settle ==
  /\ returned' \in (returned + 1)..Sold
  /\ refunded' \in refunded..Paid
  /\ returned' = Sold => refunded' = Paid

Reopen == returned' = 0 /\ refunded' = 0

AccountSpec == AccountInit /\ [][Settle \/ Reopen]_<<returned, refunded>>
=============================================================================
