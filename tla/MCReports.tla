----------------------------- MODULE MCReports -----------------------------
(* One tenant; exports of other clients beside the one of the page.         *)
EXTENDS ReportPage

CONSTANT t1

OneTenant == [l \in Loans |-> t1]
NewOrLate == {[status |-> "PENDING", dpd |-> 0], [status |-> "DELINQUENT", dpd |-> 45]}
=============================================================================
