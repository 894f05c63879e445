--------------------------- MODULE MCReturnsLedger ---------------------------
(* Two files with lines of two returns of a sale of two units: each alone, the one that
   completes the sale, both at once; one of them rejected.                     *)
EXTENDS ReturnsLedger, TLC

Entry(status, qty, amount) == [status |-> status, qty |-> qty, amount |-> amount]

MCPayloads ==
  {Entry("rejected", 1, 1), Entry("draft", 1, 1),
   Entry("approved", 1, 0), Entry("approved", 1, 1), Entry("approved", 2, 1)}

Symmetry == Permutations(Returns) \cup Permutations(Uploads)
=============================================================================
