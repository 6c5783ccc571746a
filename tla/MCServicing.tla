---------------------------- MODULE MCServicing ----------------------------
(* A loan of one tenant that originates on the last day of the model, a    *)
(* nightly execution, and sessions that pay, reverse, activate and modify. *)
EXTENDS Servicing, TLC

CONSTANTS l1, t1

OneTenant == [l \in Loans |-> t1]
LaterOn   == [l \in Loans |-> MaxDay]
AllFixed  == [l \in Loans |-> "FIXED"]
Rates     == [l \in Loans |-> 2]
NoIndex   == [l \in Loans |-> [d \in Days |-> NoRate]]
\* three units of interest a day
Funding   == [l \in Loans |-> [d \in Days |-> 540]]

\* sessions of a kind are interchangeable
Interchangeable == Permutations(Cashiers) \cup Permutations(Reversers)
=============================================================================
