----------------------------- MODULE MCLoanForm -----------------------------
(* The page of one user beside requests of both tenants, a pool of two. *)
EXTENDS LoanForm

=============================================================================
