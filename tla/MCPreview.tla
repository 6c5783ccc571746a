----------------------------- MODULE MCPreview -----------------------------
(* The loan of MCPayments, some payments of which are previewed.            *)
EXTENDS MCPayments, Preview

OneFee == [l \in Loans |-> <<f1>>]
=============================================================================
