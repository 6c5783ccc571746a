--------------------------- MODULE LoanLifecycle ---------------------------
(***************************************************************************)
(* A loan from its creation to its modification: the disbursements drawn   *)
(* on it (disbursements.service.ts), activateLoan and modifyLoan           *)
(* (loan.service.ts), the schedule they regenerate (generateSchedule,      *)
(* schedule.service.ts), and the payments and reversals beside them        *)
(* (payment.service.ts).                                                   *)
(*                                                                         *)
(* activateLoan and modifyLoan change the loan inside a transaction, but   *)
(* generateSchedule deletes and inserts the schedule through its own       *)
(* repository: other connections, committed at once, which a rollback of   *)
(* the transaction does not undo.  The disbursement requests use no        *)
(* transaction at all.                                                     *)
(*                                                                         *)
(* Payments has every statement of applyPayment and reversePayment; here   *)
(* are those that take a lock or change the balance, for one allocation to *)
(* the principal.  A payment locks the installment before the loan, a      *)
(* reversal the loan before the installment.                               *)
(*                                                                         *)
(* One loan: the requests of different loans share no row.  Terms are a    *)
(* rate and a maturity, the maturity being the number of periods left.     *)
(***************************************************************************)
EXTENDS Integers, FiniteSets, Functions

CONSTANTS
  Draws,       \* DisbursementsService.create requests; also the identity of their row
  Approvals,   \* DisbursementsService.approve requests
  Activations, \* activateLoan requests
  Modifications, \* modifyLoan requests
  Payers,      \* applyPayment requests; also the identity of their row
  Reversals,   \* reversePayment requests
  Amounts,     \* what may be drawn, in cents
  Receipts,    \* what may be paid, in cents
  Commitment,  \* commitmentAmount of the loan
  Loan0,       \* the loan row to begin with
  Draws0,      \* Draws -> row, None where there is none yet
  Changes,     \* [rate, maturity], None for a field not given
  FundingDesk, \* BOOLEAN: someone sets disbursements DISBURSED in the database
  MaxFaults,   \* bound: failing statements and kills
  None

Transactions == Activations \cup Modifications
Writers      == Transactions \cup Reversals   \* who holds the row of the loan between two steps
Requests     == Draws \cup Approvals \cup Payers \cup Writers
OpenStatuses == {"ACTIVE", "CURRENT", "DELINQUENT"}
LoanColumns  == {"status", "outstanding", "rate", "maturity"}
Tolerance    == 1   \* 0.01

\* the rows of the tables
Terms    == {Loan0} \cup Changes
Rates    == {t.rate : t \in Terms} \ {None}
Spans    == {t.maturity : t \in Terms} \ {None}
LoanRows == [status : {"PENDING", "APPROVED", "PAID_OFF"} \cup OpenStatuses, outstanding : Nat,
             rate : Rates, maturity : Spans]
DrawRows == [amount : Amounts, status : {"PENDING", "APPROVED", "DISBURSED", "CANCELLED"}]
ItemRows == [gen : Transactions \cup {None}, period : Nat \ {0}, rate : Rates, maturity : Spans]
PaymentRows == [amount : Receipts, item : ItemRows \cup {None}, status : {"APPLIED", "REVERSED"}]

Funded0 == {d \in Draws : Draws0[d] # None /\ Draws0[d].status = "DISBURSED"}

\* A new loan owes nothing; one that was active before, as those of the seed data, no
\* more than was disbursed.
ASSUME LifecycleConstants ==
  /\ Draws \cap Approvals = {} /\ Draws \cap Transactions = {} /\ Approvals \cap Transactions = {}
  /\ Activations \cap Modifications = {}
  /\ Payers \cap (Draws \cup Approvals \cup Writers) = {}
  /\ Reversals \cap (Draws \cup Approvals \cup Transactions) = {}
  /\ IsFiniteSet(Draws) /\ IsFiniteSet(Payers)
  /\ Amounts \subseteq Nat \ {0} /\ Receipts \subseteq Nat \ {0}
  /\ Commitment \in Nat \ {0}
  /\ FundingDesk \in BOOLEAN
  /\ MaxFaults \in Nat
  /\ Spans \subseteq Nat \ {0}
  /\ Loan0 \in LoanRows
  /\ Draws0 \in [Draws -> DrawRows \cup {None}]
  /\ Loan0.outstanding <= SumFunctionOnSet([d \in Funded0 |-> Draws0[d].amount], Funded0)
  /\ None \notin Draws \cup LoanRows \cup DrawRows \cup PaymentRows

VARIABLES
  \* the database
  loan,     \* the committed row of the loan
  draws,    \* disbursements: Draws -> None or [amount, status]
  schedule, \* schedule_items
  payments, \* payments with their allocation: Payers -> None or [amount, item, status]
  records,  \* loan_modifications: the requests that have one
  \* one request
  own,      \* writer -> the loan row it has updated and not committed, or None
  pc,
  ent,      \* the entity as read and changed: a loan, or a disbursement to come
  change,   \* the dto of a modification or of a payment; the row an approval or a reversal is of
  cols,     \* columns save() found different
  \* bounds and history
  faults,
  funded,     \* disbursements that were ever DISBURSED
  activated,  \* activations that committed
  flaws       \* what went wrong with the balance

data  == <<loan, draws, schedule, payments, records>>
local == <<own, ent, change, cols>>
hist  == <<faults, funded, activated, flaws>>
vars  == <<data, pc, local, hist>>

----------------------------------------------------------------------------
Goto(s, label) == pc' = [pc EXCEPT ![s] = label]
\* what a request that ends has read is gone with it
Forget(s) ==
  /\ ent' = [ent EXCEPT ![s] = None]
  /\ cols' = [t \in Transactions |-> IF t = s THEN {} ELSE cols[t]]

\* the row a transaction sees, and whether it may update it
Seen(s) == IF own[s] # None THEN own[s] ELSE loan
RowFree(s) == \A t \in Writers \ {s} : own[t] = None

AmountOf(D) == SumFunctionOnSet([d \in D |-> draws[d].amount], D)
Drawn  == {d \in Draws : draws[d] # None}
Paid   == {d \in Drawn : draws[d].status = "DISBURSED"}

PaymentsIn(status) == {p \in Payers : payments[p] # None /\ payments[p].status = status}
Received  == PaymentsIn("APPLIED") \cup PaymentsIn("REVERSED")
\* what the payments in force took off the balance
Applied   == SumFunctionOnSet([p \in PaymentsIn("APPLIED") |-> payments[p].amount],
                              PaymentsIn("APPLIED"))
\* installments a payment_allocations row refers to, and those an uncommitted one does
Cited     == {payments[p].item : p \in Received} \ {None}
Allocated == {p \in Payers : pc[p] = "settle"}
Held      == {change[p].item : p \in Allocated} \ {None}
\* and those a payment has updated: a PREPAYMENT changes no column of its installment
LockedBy(s, i) == s \in Allocated /\ change[s].item = i /\ change[s].bucket = "PRINCIPAL"

\* the periods buildSchedulePeriods makes of an entity, as generation g
ItemsOf(g, e) ==
  {[gen |-> g, period |-> n, rate |-> e.rate, maturity |-> e.maturity] : n \in 1 .. e.maturity}

Init ==
  /\ loan = Loan0
  /\ draws = Draws0
  /\ schedule = IF Loan0.status = "PENDING" THEN {} ELSE ItemsOf(None, Loan0)
  /\ payments = [p \in Payers |-> None]
  /\ records = {}
  /\ own = [s \in Writers |-> None]
  /\ pc = [s \in Requests |-> "idle"]
  /\ ent = [s \in Requests |-> None]
  /\ change = [s \in Requests |-> None]
  /\ cols = [s \in Transactions |-> {}]
  /\ faults = 0
  /\ funded = Funded0
  /\ activated = {} /\ flaws = {}

----------------------------------------------------------------------------
(* DisbursementsService: every statement commits by itself *)

LoadForDraw(s) ==
  /\ s \in Draws /\ pc[s] = "idle" /\ draws[s] = None
  /\ \E a \in Amounts : ent' = [ent EXCEPT ![s] = a]
  /\ Goto(s, IF loan.status \in {"APPROVED", "ACTIVE"} THEN "sum" ELSE "rejected")
  /\ UNCHANGED <<data, own, change, cols, hist>>

\* whatever the status of the disbursements already there
SumDraws(s) ==
  /\ pc[s] = "sum"
  /\ Goto(s, IF AmountOf(Drawn) + ent[s] > Commitment THEN "rejected" ELSE "insert")
  /\ UNCHANGED <<data, local, hist>>

InsertDraw(s) ==
  /\ pc[s] = "insert"
  /\ draws' = [draws EXCEPT ![s] = [amount |-> ent[s], status |-> "PENDING"]]
  /\ Goto(s, "done")
  /\ UNCHANGED <<loan, schedule, payments, records, local, hist>>

LoadForApproval(s) ==
  /\ s \in Approvals /\ pc[s] = "idle"
  /\ \E d \in Drawn :
       IF draws[d].status = "PENDING"
         THEN Goto(s, "approve") /\ change' = [change EXCEPT ![s] = d]
         ELSE Goto(s, "rejected") /\ UNCHANGED change
  /\ UNCHANGED <<data, own, ent, cols, hist>>

SaveApproval(s) ==
  /\ pc[s] = "approve"
  /\ draws' = [draws EXCEPT ![change[s]].status = "APPROVED"]
  /\ Goto(s, "done")
  /\ UNCHANGED <<loan, schedule, payments, records, local, hist>>

\* No service writes DISBURSED.  Where the disbursements of the seed data come from:
\* somebody enters or settles them in the database.
Fund(d) ==
  /\ FundingDesk
  /\ \/ draws[d] = None /\ pc[d] = "idle"
          /\ \E a \in Amounts : draws' = [draws EXCEPT ![d] = [amount |-> a, status |-> "DISBURSED"]]
     \/ draws[d] # None /\ draws[d].status = "APPROVED"
          /\ draws' = [draws EXCEPT ![d].status = "DISBURSED"]
  /\ funded' = funded \cup {d}
  /\ UNCHANGED <<loan, schedule, payments, records, pc, local, faults, activated, flaws>>

----------------------------------------------------------------------------
(* activateLoan and modifyLoan: read, guard and change the entity *)

\* slip: the balance starts as the amount of the loan
LoadForActivationFull(s) ==
  /\ s \in Activations /\ pc[s] = "idle"
  /\ IF loan.status = "PENDING" /\ Paid # {}
       THEN /\ ent' = [ent EXCEPT ![s] =
                         [loan EXCEPT !.outstanding = Commitment, !.status = "ACTIVE"]]
            /\ Goto(s, "compare")
       ELSE Goto(s, "rejected") /\ UNCHANGED ent
  /\ UNCHANGED <<data, own, change, cols, hist>>

LoadForActivation(s) ==
  /\ s \in Activations /\ pc[s] = "idle"
  /\ IF loan.status = "PENDING" /\ Paid # {}
       THEN /\ ent' = [ent EXCEPT ![s] =
                         [loan EXCEPT !.outstanding = AmountOf(Paid), !.status = "ACTIVE"]]
            /\ Goto(s, "compare")
       ELSE Goto(s, "rejected") /\ UNCHANGED ent
  /\ UNCHANGED <<data, own, change, cols, hist>>

LoadForModification(s) ==
  /\ s \in Modifications /\ pc[s] = "idle"
  /\ \E c \in Changes :
       IF loan.status \in OpenStatuses /\ (c.rate # None \/ c.maturity # None)
         THEN /\ change' = [change EXCEPT ![s] = c]
              /\ ent' = [ent EXCEPT ![s] =
                    [loan EXCEPT !.rate = IF c.rate # None THEN c.rate ELSE @,
                                 !.maturity = IF c.maturity # None THEN c.maturity ELSE @]]
              /\ Goto(s, "compare")
         ELSE Goto(s, "rejected") /\ UNCHANGED <<ent, change>>
  /\ UNCHANGED <<data, own, cols, hist>>

\* save(): SELECT the row again and UPDATE the columns the entity differs in; a
\* number the service assigned always differs from the text of a numeric column
Assigned(s) ==
  IF s \in Activations THEN {"outstanding"} ELSE IF change[s].rate # None THEN {"rate"} ELSE {}

CompareLoan(s) ==
  /\ pc[s] = "compare"
  /\ cols' = [cols EXCEPT ![s] = Assigned(s) \cup {c \in LoanColumns : Seen(s)[c] # ent[s][c]}]
  /\ Goto(s, "save")
  /\ UNCHANGED <<data, own, ent, change, hist>>

\* the loan_modifications row, which comes next, counts at the commit only
SaveLoan(s) ==
  /\ pc[s] = "save"
  /\ IF cols[s] = {} THEN UNCHANGED own
     ELSE /\ RowFree(s)
          /\ own' = [own EXCEPT ![s] =
               [c \in LoanColumns |-> IF c \in cols[s] THEN ent[s][c] ELSE loan[c]]]
  /\ Goto(s, "delete")
  /\ UNCHANGED <<data, ent, change, cols, hist>>

----------------------------------------------------------------------------
(* generateSchedule, outside the transaction of its caller *)

Ended == {"done", "rejected", "aborted"}

Rollback(s) ==
  /\ own' = IF s \in Writers THEN [own EXCEPT ![s] = None] ELSE own
  /\ change' = [change EXCEPT ![s] = None]
  /\ Goto(s, "aborted") /\ Forget(s)

\* slip: ON DELETE SET NULL
DeleteScheduleCited(s) ==
  /\ pc[s] = "delete" /\ Held \cap schedule = {}
  /\ schedule' = {}
  /\ Goto(s, "items")
  /\ UNCHANGED <<loan, draws, payments, records, local, hist>>


\* payment_allocations refers to schedule_items without ON DELETE: an allocation that
\* is not committed makes the deletion wait, one that is refuses it.  Nobody breaks the
\* circle when that allocation waits for the row s holds: PostgreSQL sees no wait of the
\* transaction of s, which is idle while the service awaits the deletion.
DeleteSchedule(s) ==
  /\ pc[s] = "delete" /\ Held \cap schedule = {}
  /\ IF Cited \cap schedule # {}
       THEN Rollback(s) /\ UNCHANGED schedule
       ELSE schedule' = {} /\ Goto(s, "items") /\ UNCHANGED local
  /\ UNCHANGED <<loan, draws, payments, records, hist>>

\* slip: no unique key on the loan and the period
InsertScheduleNoKey(s) ==
  /\ pc[s] = "items"
  /\ schedule' = schedule \cup ItemsOf(s, ent[s])
  /\ Goto(s, "commit")
  /\ UNCHANGED <<loan, draws, payments, records, local, hist>>

\* slip: the periods of the loan as it is committed, not as it is being changed
InsertScheduleOld(s) ==
  /\ pc[s] = "items"
  /\ schedule' = schedule \cup ItemsOf(s, loan)
  /\ Goto(s, "commit")
  /\ UNCHANGED <<loan, draws, payments, records, local, hist>>

\* save(items) is one transaction; uq_schedule_period
InsertSchedule(s) ==
  LET items == ItemsOf(s, ent[s]) IN
  /\ pc[s] = "items"
  /\ IF \E i \in schedule, j \in items : i.period = j.period
       THEN Rollback(s) /\ UNCHANGED schedule
       ELSE schedule' = schedule \cup items /\ Goto(s, "commit") /\ UNCHANGED local
  /\ UNCHANGED <<loan, draws, payments, records, hist>>

\* history: a balance read before a payment in force is written over the present one
Overwrites(row) ==
  IF Applied > 0 /\ row.outstanding > loan.outstanding THEN {"overwritten"} ELSE {}

\* slip: the modification record is written after the commit, and may be missed
CommitUnrecorded(s) ==
  /\ pc[s] = "commit"
  /\ loan' = Seen(s)
  /\ own' = [own EXCEPT ![s] = None]
  /\ activated' = activated \cup ({s} \cap Activations)
  /\ flaws' = flaws \cup Overwrites(Seen(s))
  /\ Goto(s, "done") /\ Forget(s)
  /\ UNCHANGED <<draws, schedule, payments, records, change, faults, funded>>

Commit(s) ==
  /\ pc[s] = "commit"
  /\ loan' = Seen(s)
  /\ own' = [own EXCEPT ![s] = None]
  /\ records' = records \cup ({s} \cap Modifications)
  /\ activated' = activated \cup ({s} \cap Activations)
  /\ flaws' = flaws \cup Overwrites(Seen(s))
  /\ Goto(s, "done") /\ Forget(s)
  /\ UNCHANGED <<draws, schedule, payments, change, faults, funded>>

----------------------------------------------------------------------------
(* applyPayment and reversePayment *)

\* the status guard and validateAllocations, which looks at a PRINCIPAL only
LoadForPayment(s) ==
  /\ s \in Payers /\ pc[s] = "idle"
  /\ \E a \in Receipts, b \in {"PRINCIPAL", "PREPAYMENT"}, i \in schedule \cup {None} :
       IF loan.status \in OpenStatuses /\ (b = "PRINCIPAL" => a <= loan.outstanding + Tolerance)
         THEN /\ change' = [change EXCEPT ![s] = [amount |-> a, bucket |-> b, item |-> i]]
              /\ ent' = [ent EXCEPT ![s] = loan]
              /\ Goto(s, "allocate")
         ELSE Goto(s, "rejected") /\ UNCHANGED <<ent, change>>
  /\ UNCHANGED <<data, own, cols, hist>>

\* INSERT of the allocation, whose installment must exist, and the UPDATE of that one,
\* for which it waits
Allocate(s) ==
  LET i == change[s].item IN
  /\ pc[s] = "allocate"
  /\ change[s].bucket = "PRINCIPAL" /\ i # None => \A t \in Payers : ~ LockedBy(t, i)
  /\ IF i \in schedule \cup {None}
       THEN Goto(s, "settle") /\ UNCHANGED local
       ELSE Rollback(s)
  /\ UNCHANGED <<data, hist>>

\* slip: the balance may go below zero
SettleUnclamped(s) ==
  LET balance == ent[s].outstanding - change[s].amount IN
  /\ pc[s] = "settle" /\ RowFree(s)
  /\ loan' = [loan EXCEPT !.outstanding = balance, !.status = "CURRENT"]
  /\ payments' = [payments EXCEPT ![s] = [amount |-> change[s].amount, item |-> change[s].item,
                                          status |-> "APPLIED"]]
  /\ Goto(s, "done") /\ Forget(s)
  /\ UNCHANGED <<draws, schedule, records, own, change, hist>>

\* UPDATE of the loan, refreshDelinquencyStatus, which makes it CURRENT unless an
\* installment is overdue, and COMMIT
Settle(s) ==
  LET a == change[s].amount
      balance == IF a <= ent[s].outstanding THEN ent[s].outstanding - a ELSE 0
  IN
  /\ pc[s] = "settle" /\ RowFree(s)
  /\ \E st \in {"CURRENT", IF balance <= 0 THEN "PAID_OFF" ELSE ent[s].status} :
       loan' = [loan EXCEPT !.outstanding = balance, !.status = st]
  /\ payments' = [payments EXCEPT ![s] = [amount |-> a, item |-> change[s].item,
                                          status |-> "APPLIED"]]
  /\ flaws' = flaws \cup Overwrites(ent[s])
                    \cup (IF a > ent[s].outstanding THEN {"overpaid"} ELSE {})
  /\ Goto(s, "done") /\ Forget(s)
  /\ change' = [change EXCEPT ![s] = None]
  /\ UNCHANGED <<draws, schedule, records, own, faults, funded, activated>>

LoadForReversal(s) ==
  /\ s \in Reversals /\ pc[s] = "idle"
  /\ \E p \in Received :
       IF p \in PaymentsIn("APPLIED")
         THEN Goto(s, "increment") /\ change' = [change EXCEPT ![s] = p]
         ELSE Goto(s, "rejected") /\ UNCHANGED change
  /\ UNCHANGED <<data, own, ent, cols, hist>>

\* the whole amount, also of a payment that was more than the balance
Increment(s) ==
  /\ pc[s] = "increment" /\ RowFree(s)
  /\ own' = [own EXCEPT ![s] = [loan EXCEPT !.outstanding = @ + payments[change[s]].amount]]
  /\ Goto(s, "unpay")
  /\ UNCHANGED <<data, ent, change, cols, hist>>

\* UPDATE of the installment, of the payment, whatever its status by now, and COMMIT.
\* A payment that has locked the installment waits for the loan, which this reversal
\* holds: PostgreSQL aborts one of the two.
CommitReversal(s) ==
  LET p == change[s]
      rivals == {t \in Payers : payments[p].item # None /\ LockedBy(t, payments[p].item)}
  IN
  /\ pc[s] = "unpay"
  /\ IF rivals # {}
       THEN /\ \E t \in rivals \cup {s} : Rollback(t)
            /\ UNCHANGED <<loan, payments, flaws>>
       ELSE /\ loan' = own[s]
            /\ own' = [own EXCEPT ![s] = None]
            /\ payments' = [payments EXCEPT ![p].status = "REVERSED"]
            /\ flaws' = flaws \cup (IF p \in PaymentsIn("REVERSED") THEN {"twice"} ELSE {})
            /\ change' = [change EXCEPT ![s] = None]
            /\ Goto(s, "done") /\ Forget(s)
  /\ UNCHANGED <<draws, schedule, records, faults, funded, activated>>

----------------------------------------------------------------------------
(* A statement of a request fails, the audit record of a modification       *)
(* cannot be written, or the process is killed.                             *)
Fail(s) ==
  /\ pc[s] \notin Ended \cup {"idle"} /\ faults < MaxFaults
  /\ faults' = faults + 1
  /\ Rollback(s)
  /\ UNCHANGED <<data, funded, activated, flaws>>

Step(s) ==
  \/ LoadForDraw(s) \/ SumDraws(s) \/ InsertDraw(s)
  \/ LoadForApproval(s) \/ SaveApproval(s)
  \/ s \in Transactions /\
       \/ LoadForActivation(s) \/ LoadForModification(s)
       \/ CompareLoan(s) \/ SaveLoan(s)
       \/ DeleteSchedule(s) \/ InsertSchedule(s) \/ Commit(s)
  \/ s \in Payers /\ (LoadForPayment(s) \/ Allocate(s) \/ Settle(s))
  \/ s \in Reversals /\ (LoadForReversal(s) \/ Increment(s) \/ CommitReversal(s))

Next ==
  \/ \E s \in Requests : Step(s) \/ Fail(s)
  \/ \E d \in Draws : Fund(d)

Spec == Init /\ [][Next]_vars

\* the requests received go on as long as one of them can
Progress == \E s \in Requests : pc[s] # "idle" /\ Step(s)
FairSpec == Spec /\ WF_vars(Progress)

\* and everything the services let users do to bring a loan to life is tried
EagerSpec == Spec /\ \A s \in Requests : WF_vars(Step(s))

----------------------------------------------------------------------------
(* Properties *)

Labels   == Ended \cup {"idle", "sum", "insert", "approve", "compare", "save", "delete",
                        "items", "commit", "allocate", "settle", "increment", "unpay"}

TypeOK ==
  /\ loan \in LoanRows
  /\ \A d \in Drawn : draws[d] \in DrawRows
  /\ \A i \in schedule : i \in ItemRows
  /\ payments \in [Payers -> PaymentRows \cup {None}]
  /\ records \subseteq Modifications /\ activated \subseteq Activations /\ funded \subseteq Drawn
  /\ \A s \in Writers : own[s] = None \/ own[s] \in LoanRows
  /\ pc \in [Requests -> Labels]
  /\ cols \in [Transactions -> SUBSET LoanColumns]
  /\ faults \in 0 .. MaxFaults /\ flaws \subseteq {"overwritten", "overpaid", "twice"}

(* Whatever requests regenerate the schedule at once, and wherever they     *)
(* fail, the schedule a reader finds is none at all or all the periods of   *)
(* one call of generateSchedule: two calls never mix.                       *)
SchedulesAreWhole ==
  schedule # {} =>
    \E i \in schedule :
      schedule = {[i EXCEPT !.period = n] : n \in 1 .. i.maturity}

(* An installment money was allocated to is never replaced: no request      *)
(* takes away the schedule item a payment allocation refers to.             *)
PaidItemsStay == Cited \subseteq schedule

(* Whatever payments, activations and modifications overlap, the borrower   *)
(* never owes more than was disbursed: a balance written back is one that   *)
(* was covered when it was read.  Reversals give money back without looking *)
(* at the balance; with them the borrower owes what was disbursed less the  *)
(* payments in force, or less than that, but for three cases: a payment was *)
(* overwritten, it was more than the balance, or it was reversed twice.     *)
OutstandingIsFunded ==
  /\ PaymentsIn("REVERSED") = {} => loan.outstanding <= AmountOf(funded)
  /\ flaws = {} => loan.outstanding + Applied <= AmountOf(funded)

(* The loan never has terms nobody recorded: after any failure its rate and *)
(* its maturity are the original ones or those of a committed modification. *)
TermsAreRecorded ==
  /\ loan.rate = Loan0.rate \/ \E m \in records : change[m].rate = loan.rate
  /\ loan.maturity = Loan0.maturity \/ \E m \in records : change[m].maturity = loan.maturity

\* A transaction has updated the loan and awaits, on another connection, the deletion of
\* an installment to which a payment has allocated money, and the payment waits for the row
\* of the loan.  Neither a detector nor a timeout ends this.
Hang ==
  \E t \in Transactions, p \in Allocated :
    pc[t] = "delete" /\ own[t] # None /\ change[p].item \in schedule

(* All requests end unless the service hangs, and there is one way to       *)
(* hang: the circle of a payment and a regeneration of the schedule.  No    *)
(* other order in which requests lock the loan and its installments leaves  *)
(* them waiting for each other.                                             *)
Quiet == \A s \in Requests : pc[s] \in Ended \cup {"idle"}

(* "Activate loan after first disbursement": a loan that users try to       *)
(* disburse and to activate leaves PENDING.                                 *)
LoanComesAlive == loan.status = "PENDING" ~> loan.status # "PENDING"

(* The schedule is replaced outside the transaction of its caller.  It ends *)
(* up with the terms of the loan all the same, beside payments and draws,   *)
(* while none of them fails halfway and no two activations and no two       *)
(* modifications succeed.                                                   *)
AtRest == \A s \in Transactions : pc[s] \in Ended \cup {"idle"}
ScheduleFollowsTheLoan ==
  /\ AtRest /\ loan.status \in OpenStatuses
  /\ Cardinality(activated) <= 1 /\ Cardinality(records) <= 1
  /\ \A s \in Transactions : pc[s] # "aborted"
  => /\ schedule # {}
     /\ \A i \in schedule : i.rate = loan.rate /\ i.maturity = loan.maturity
=============================================================================
