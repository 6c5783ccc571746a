----------------------------- MODULE MCSchedule -----------------------------
(* Loans whose dates meet the ends of short months, leap days and year     *)
(* ends, with level payments below, near and above what the interest asks. *)
EXTENDS Schedule

Originations == {Date(2023, 11, 30), Date(2024, 1, 31), Date(2024, 2, 29)}
Terms == {1, 4, 14}

In(f, o, first, mat, bal, rate, level) ==
  [frequency |-> f, origination |-> o, first |-> first, maturity |-> mat,
   balance |-> bal, rate |-> rate, level |-> level]

\* maturity is the origination plus the term; the first payment is left to the service
ByTerm == {In(f, o, NoDate, AddMonths(o, t), bal, rate, level) :
             f \in Frequencies \ {"DAILY"}, o \in Originations, t \in Terms,
             bal \in {0, 1001}, rate \in {0, 1200}, level \in {0, 250, 2000}}
\* a first payment after the maturity, on it, and on the origination; a zero term
Odd == {In(f, Date(2024, 1, 31), first, mat, 900, rate, 300) :
          f \in {"DAILY", "MONTHLY"}, rate \in {0, 1200},
          first \in {Date(2024, 1, 31), Date(2024, 2, 10), Date(2024, 3, 1)},
          mat \in {Date(2024, 1, 31), Date(2024, 2, 10)}}
AllInputs == ByTerm \cup Odd
=============================================================================
