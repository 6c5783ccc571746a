---------------------------- MODULE PaymentBook ----------------------------
(***************************************************************************)
(* What the payments of a loan promise their readers (the history screen,  *)
(* the reports, the export): a book in which payments are entered one by   *)
(* one, numbered without gaps per loan, never removed or renumbered, and   *)
(* struck out at most once.                                                *)
(***************************************************************************)
EXTENDS Naturals, FiniteSets

CONSTANTS Payments, Loans, None
VARIABLE book   \* payment -> None, or its loan, number and status

EntriesOf(l) == {p \in Payments : book[p] # None /\ book[p].loan = l}

Init == book = [p \in Payments |-> None]

Enter(p) ==
  /\ book[p] = None
  /\ \E l \in Loans :
       book' = [book EXCEPT ![p] = [loan |-> l, number |-> Cardinality(EntriesOf(l)) + 1,
                                    status |-> "APPLIED"]]

StrikeOut(p) ==
  /\ book[p] # None /\ book[p].status = "APPLIED"
  /\ book' = [book EXCEPT ![p].status = "REVERSED"]

Next == \E p \in Payments : Enter(p) \/ StrikeOut(p)

Spec == Init /\ [][Next]_book
=============================================================================
