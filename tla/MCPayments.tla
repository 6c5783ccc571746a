----------------------------- MODULE MCPayments -----------------------------
(* Instances of Payments: one loan of 10 cents with 4 of accrued interest, *)
(* one installment of 6, one fee of 4.                                     *)
EXTENDS Payments

CONSTANTS l1, i1, f1

OneLoan == [l \in Loans |-> [status |-> "ACTIVE", outstanding |-> 10, accrued |-> 4]]
AllOfLoan1 == [i \in Items |-> l1]
Due  == [i \in Items |-> 6]
Owed == [f \in Fees |-> 4]

A(b, x, i, f) == [bucket |-> b, amount |-> x, item |-> i, fee |-> f]
Req(x, al) == [loan |-> l1, amount |-> x, allocations |-> al]

Standard  == Req(6, <<A("INTEREST", 3, i1, None), A("PRINCIPAL", 3, i1, None)>>)
PayOff    == Req(10, <<A("PRINCIPAL", 10, None, None)>>)
PartFee   == Req(2, <<A("FEE", 2, i1, f1)>>)
Prepay    == Req(14, <<A("FEE", 2, None, f1), A("PREPAYMENT", 12, None, None)>>)

Usual  == {Standard, PartFee}
Whole  == {Standard, Prepay}
Full   == {PayOff}
Twice  == {Standard}
=============================================================================
