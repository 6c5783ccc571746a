-------------------------- MODULE MCLoanLifecycle --------------------------
(* Instances of LoanLifecycle: a loan as createLoan leaves it, and the      *)
(* changes of its terms a user may ask for.                                 *)
EXTENDS LoanLifecycle

CONSTANTS d1, d2

NewLoan  == [status |-> "PENDING", outstanding |-> 0, rate |-> 1, maturity |-> 1]

NoDraws == [d \in Draws |-> None]
\* somebody has entered a disbursement in the database
OneDraw == [d \in Draws |-> IF d = d1 THEN [amount |-> 1, status |-> "DISBURSED"] ELSE None]

Longer   == [rate |-> None, maturity |-> 2]
Dearer   == [rate |-> 2, maturity |-> None]
SameSpan == [rate |-> None, maturity |-> 1]
Nothing  == [rate |-> None, maturity |-> None]

AnyChange == {Longer, Dearer, SameSpan, Nothing}
=============================================================================
