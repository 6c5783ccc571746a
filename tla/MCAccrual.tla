----------------------------- MODULE MCAccrual -----------------------------
(* Small instances of Accrual: constant functions and the two-loan, two-   *)
(* tenant portfolio the runs use.                                          *)
EXTENDS Accrual, TLC

CONSTANTS l1, l2, t1, t2

TwoTenants  == l1 :> t1 @@ l2 :> t2
OneTenant   == [l \in Loans |-> t1]
OneFloating == [l \in Loans |-> IF l = l1 THEN "FIXED" ELSE "FLOATING"]
\* the first loan originates on the last day of the model, the second long ago
Originations == [l \in Loans |-> IF l = l1 THEN MaxDay ELSE -1]
Rates       == [l \in Loans |-> IF l = l1 THEN 1 ELSE 2]
\* the index is published from day 2 on
IndexFromDay2 == [l \in Loans |-> [d \in Days |-> IF d >= 2 THEN 5 ELSE NoRate]]
\* a loan with an approved, unfunded disbursement: nothing accrues on day 1
LateFunding == [l \in Loans |-> [d \in Days |-> IF l = l1 /\ d = 1 THEN 0 ELSE 360]]

(* Floating rates, SOFR / PRIME from index_rate_history: a floating loan    *)
(* whose index is published accrues when the nightly job lists it.          *)
FloatingLoanAccrues ==
  \A r \in Nightly, l \in Loans :
    pc[r] = "done" /\ faults = 0 /\ l \in listed[r] /\ InterestType[l] = "FLOATING"
      /\ IndexAsOf[l][date[r]] # NoRate /\ Disbursed[l][date[r]] > 0
    => RowsOf(l, date[r]) # {}
=============================================================================
