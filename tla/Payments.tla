------------------------------ MODULE Payments ------------------------------
(***************************************************************************)
(* applyPayment, reversePayment (payment.service.ts), the assessment and   *)
(* the waiving of a fee (fees.service.ts), as concurrent database sessions.*)
(*                                                                         *)
(* A session is one request.  Its statements run in a READ COMMITTED       *)
(* transaction of PostgreSQL: a read sees its own writes and what is       *)
(* committed at that moment, an UPDATE waits for the transaction that      *)
(* wrote the row before, an INSERT waits for the one that inserted the     *)
(* same key.  findOne takes no lock, so everything the service computes in *)
(* JavaScript comes from values another session may since have replaced.   *)
(*                                                                         *)
(* db holds the committed rows, own[s] the rows session s has written and  *)
(* not committed; a row in own[s] is locked by s.  Money is in cents.      *)
(***************************************************************************)
EXTENDS Integers, Sequences, FiniteSets, FiniteSetsExt, Functions, Relation

CONSTANTS
  Applies,      \* sessions of applyPayment; also the identity of their payment
  Reverses,     \* sessions of reversePayment
  Waives,       \* sessions of FeesService.waive
  Loans, Items, Fees,
  ItemLoan,     \* Items -> Loans
  ScheduledTotal, \* Items -> Nat, what the item asks for
  FeeAmount,    \* Fees -> Nat
  Assessed,     \* fees there are to begin with; the others may be assessed
  Loan0,        \* Loans -> record, the loan rows to begin with
  Requests,     \* payment requests: [loan, amount, allocations]
  MaxFaults,    \* bound: statements that fail in a behaviour
  None          \* no scheduleItemId, no feeId, no row

Sessions == Applies \cup Reverses \cup Waives
Rows     == Loans \cup Items \cup Fees \cup Applies
Buckets  == {"PRINCIPAL", "INTEREST", "FEE", "PREPAYMENT"}
OpenStatuses == {"ACTIVE", "CURRENT", "DELINQUENT"}
Tolerance == 1   \* 0.01

Allocation == [bucket : Buckets, amount : Nat \ {0}, item : Items \cup {None}, fee : Fees \cup {None}]
LoanRow == [status : OpenStatuses \cup {"PAID_OFF"}, outstanding : Nat, accrued : Nat]
Item == [principal : Int, interest : Int, fees : Int,
         status : {"PENDING", "PARTIAL", "PAID", "OVERDUE", "WAIVED"}]
FeeRow == [paid : Int, status : {"OUTSTANDING", "PARTIAL", "PAID", "WAIVED"}]
PaymentRow == [loan : Loans, number : Nat \ {0}, status : {"APPLIED", "REVERSED"},
               allocations : Seq(Allocation) \ {<< >>}]
Entry == [loan : Loans, number : Nat \ {0}, status : {"APPLIED", "REVERSED"}]   \* of the book

ASSUME PaymentsConstants ==
  /\ Applies \cap Reverses = {} /\ (Applies \cup Reverses) \cap Waives = {}
  /\ Loans \cap Items = {} /\ (Loans \cup Items) \cap Fees = {}
  /\ (Loans \cup Items \cup Fees) \cap Applies = {}
  /\ None \notin Rows \cup LoanRow \cup Item \cup FeeRow \cup PaymentRow \cup Entry
  /\ IsFiniteSet(Applies) /\ MaxFaults \in Nat
  /\ ItemLoan \in [Items -> Loans]
  /\ ScheduledTotal \in [Items -> Nat]
  /\ FeeAmount \in [Fees -> Nat] /\ Assessed \subseteq Fees
  /\ Loan0 \in [Loans -> LoanRow]
  /\ \A q \in Requests :
       /\ q.loan \in Loans /\ q.amount \in Nat \ {0}
       /\ q.allocations \in Seq(Allocation)

VARIABLES
  db,       \* Rows -> committed row, None for one not inserted
  own,      \* session -> the rows it has written
  pc,       \* session -> statement it is about to send
  req,      \* session -> its request; for a reversal, what it read of the payment
  snap,     \* session -> the loan as findOne returned it
  num,      \* session -> payment_number it computed
  k,        \* session -> allocation it is working on
  target,   \* session -> row being saved
  ent,      \* session -> that row as the service computed it
  cols,     \* session -> columns save() found different from the database
  faults,
  reversals \* history: payment -> committed reversals of it

locals == <<req, snap, num, k, target, ent, cols>>
vars   == <<db, own, pc, locals, faults, reversals>>

----------------------------------------------------------------------------
(* The database *)

See(s, row)  == IF row \in DOMAIN own[s] THEN own[s][row] ELSE db[row]
Free(s, row) == \A t \in Sessions \ {s} : row \notin DOMAIN own[t]
\* the rows of g, where f has none
Over(f, g) == [row \in DOMAIN f \cup DOMAIN g |-> IF row \in DOMAIN f THEN f[row] ELSE g[row]]
Put(s, row, val) == own' = [own EXCEPT ![s] = Over([r \in {row} |-> val], @)]

Goto(s, label) == pc' = [pc EXCEPT ![s] = label]
Discard(s)     == own' = [own EXCEPT ![s] = << >>]

PaymentsOf(l)    == {p \in Applies : db[p] # None /\ db[p].loan = l}
NumbersOf(l)     == {db[p].number : p \in PaymentsOf(l)}
NextNumber(l)    == IF NumbersOf(l) = {} THEN 1 ELSE Max(NumbersOf(l)) + 1
\* sessions holding an uncommitted payment with the key s is about to insert
KeyHolders(s) ==
  {t \in Applies \ {s} : t \in DOMAIN own[t]
     /\ own[t][t].loan = req[s].loan /\ own[t][t].number = num[s]}

Allocations(s) == req[s].allocations
Alloc(s)       == Allocations(s)[k[s]]
SumOf(allocs, buckets) ==
  SumFunctionOnSet([n \in DOMAIN allocs |-> allocs[n].amount],
                   {n \in DOMAIN allocs : allocs[n].bucket \in buckets})

\* the defaults of the table
NewFee == [paid |-> 0, status |-> "OUTSTANDING"]

Init ==
  /\ db = [row \in Rows |->
             CASE row \in Loans -> Loan0[row]
               [] row \in Items -> [principal |-> 0, interest |-> 0, fees |-> 0, status |-> "PENDING"]
               [] row \in Assessed -> NewFee
               [] OTHER -> None]
  /\ own = [s \in Sessions |-> << >>]
  /\ pc = [s \in Sessions |-> "idle"]
  /\ req = [s \in Sessions |-> None]
  /\ snap = [s \in Sessions |-> None]
  /\ num = [s \in Sessions |-> 0]
  /\ k = [s \in Sessions |-> 1]
  /\ target = [s \in Sessions |-> None]
  /\ ent = [s \in Sessions |-> None]
  /\ cols = [s \in Sessions |-> {}]
  /\ faults = 0
  /\ reversals = [p \in Applies |-> 0]

----------------------------------------------------------------------------
(* What the service computes *)

ItemTotal(it) == it.principal + it.interest + it.fees

\* slip: any payment makes the item PAID
PayItemPaid(i, it, a) ==
  LET paid == CASE a.bucket = "PRINCIPAL" -> [it EXCEPT !.principal = @ + a.amount]
                [] a.bucket = "INTEREST"  -> [it EXCEPT !.interest = @ + a.amount]
                [] a.bucket = "FEE"       -> [it EXCEPT !.fees = @ + a.amount]
                [] OTHER -> it
  IN [paid EXCEPT !.status = IF ItemTotal(paid) > 0 THEN "PAID" ELSE it.status]

\* applyToScheduleItem; a PREPAYMENT changes no column but may change the status
PayItem(i, it, a) ==
  LET paid == CASE a.bucket = "PRINCIPAL" -> [it EXCEPT !.principal = @ + a.amount]
                [] a.bucket = "INTEREST"  -> [it EXCEPT !.interest = @ + a.amount]
                [] a.bucket = "FEE"       -> [it EXCEPT !.fees = @ + a.amount]
                [] OTHER -> it
      total == ItemTotal(paid)
  IN [paid EXCEPT !.status = IF total >= ScheduledTotal[i] - Tolerance THEN "PAID"
                             ELSE IF total > 0 THEN "PARTIAL" ELSE it.status]

\* reverseScheduleItem
UnpayItem(it, a) ==
  LET Less(x) == Max({0, x - a.amount})
      left == CASE a.bucket = "PRINCIPAL" -> [it EXCEPT !.principal = Less(@)]
                [] a.bucket = "INTEREST"  -> [it EXCEPT !.interest = Less(@)]
                [] a.bucket = "FEE"       -> [it EXCEPT !.fees = Less(@)]
                [] OTHER -> it
  IN [left EXCEPT !.status = IF ItemTotal(left) <= 0 THEN "OVERDUE" ELSE "PARTIAL"]

\* slip: the amount paid is not compared with the amount of the fee
PayFeePaid(f, fee, a) == [paid |-> Min({FeeAmount[f], fee.paid + a.amount}), status |-> "PAID"]

\* applyToFee
PayFee(f, fee, a) ==
  LET paid == Min({FeeAmount[f], fee.paid + a.amount})
  IN [paid |-> paid, status |-> IF paid >= FeeAmount[f] - Tolerance THEN "PAID" ELSE "PARTIAL"]

Valid(q, loan) ==
  LET total == SumOf(q.allocations, Buckets) IN
  /\ q.allocations # << >>
  /\ total - q.amount <= Tolerance /\ q.amount - total <= Tolerance
  /\ SumOf(q.allocations, {"PRINCIPAL"}) <= loan.outstanding + Tolerance

----------------------------------------------------------------------------
(* applyPayment *)

\* findOne(Loan), the status guard and validateAllocations
Load(s, q) ==
  /\ s \in Applies /\ pc[s] = "idle"
  /\ LET loan == db[q.loan] IN
     /\ req' = [req EXCEPT ![s] = q]
     /\ snap' = [snap EXCEPT ![s] = loan]
     /\ Goto(s, IF loan.status \in OpenStatuses /\ Valid(q, loan) THEN "number" ELSE "rejected")
  /\ UNCHANGED <<db, own, num, k, target, ent, cols, faults, reversals>>

LoadLoan(s) == \E q \in Requests : Load(s, q)

ReadNumber(s) ==
  /\ pc[s] = "number"
  /\ num' = [num EXCEPT ![s] = NextNumber(req[s].loan)]
  /\ Goto(s, "insert")
  /\ UNCHANGED <<db, own, req, snap, k, target, ent, cols, faults, reversals>>

\* slip: no unique key on the loan and the number
InsertPaymentNoKey(s) ==
  /\ pc[s] = "insert"
  /\ Put(s, s, [loan |-> req[s].loan, number |-> num[s], status |-> "APPLIED",
                allocations |-> Allocations(s)])
  /\ Goto(s, "alloc")
  /\ UNCHANGED <<db, locals, faults, reversals>>

\* slip: a number that is taken is tried again
InsertPaymentAgain(s) ==
  /\ pc[s] = "insert" /\ KeyHolders(s) = {}
  /\ num[s] \notin NumbersOf(req[s].loan)
  /\ Put(s, s, [loan |-> req[s].loan, number |-> num[s], status |-> "APPLIED",
                allocations |-> Allocations(s)])
  /\ Goto(s, "alloc")
  /\ UNCHANGED <<db, locals, faults, reversals>>

\* uq_payment_number: wait for an uncommitted equal key, fail on a committed one
InsertPayment(s) ==
  /\ pc[s] = "insert" /\ KeyHolders(s) = {}
  /\ IF num[s] \in NumbersOf(req[s].loan)
       THEN Discard(s) /\ Goto(s, "aborted")
       ELSE /\ Put(s, s, [loan |-> req[s].loan, number |-> num[s], status |-> "APPLIED",
                          allocations |-> Allocations(s)])
            /\ Goto(s, "alloc")
  /\ UNCHANGED <<db, locals, faults, reversals>>

\* where a session goes after the item of an allocation, and after its fee
AfterItem(s) ==
  IF s \in Applies /\ Alloc(s).fee # None /\ Alloc(s).bucket = "FEE" THEN "readFee" ELSE "next"

\* the row of the allocation itself is in own[s][s] already: nobody reads it before
\* the commit
InsertAllocation(s) ==
  /\ s \in Applies /\ pc[s] = "alloc"
  /\ Goto(s, IF Alloc(s).item # None THEN "readItem" ELSE AfterItem(s))
  /\ UNCHANGED <<db, own, locals, faults, reversals>>

NextAllocation(s) ==
  /\ pc[s] = "next"
  /\ IF k[s] < Len(Allocations(s))
       THEN k' = [k EXCEPT ![s] = @ + 1] /\ Goto(s, "alloc")
       ELSE UNCHANGED k /\ Goto(s, IF s \in Applies THEN "loan" ELSE "payment")
  /\ UNCHANGED <<db, own, req, snap, num, target, ent, cols, faults, reversals>>

\* slips: no Math.max(0, ...); fees counted into the reduction of the balance
UpdateLoanUnclamped(s) ==
  LET l == req[s].loan
      balance == snap[s].outstanding - SumOf(Allocations(s), {"PRINCIPAL", "PREPAYMENT"})
      interest == snap[s].accrued - SumOf(Allocations(s), {"INTEREST"})
  IN
  /\ pc[s] = "loan" /\ Free(s, l)
  /\ Put(s, l, [See(s, l) EXCEPT
                  !.outstanding = balance,
                  !.accrued = interest,
                  !.status = IF balance <= 0 THEN "PAID_OFF" ELSE snap[s].status])
  /\ Goto(s, "refresh")
  /\ UNCHANGED <<db, locals, faults, reversals>>
UpdateLoanWithFees(s) ==
  LET l == req[s].loan
      balance == Max({0, snap[s].outstanding - SumOf(Allocations(s), Buckets)})
  IN
  /\ pc[s] = "loan" /\ Free(s, l)
  /\ Put(s, l, [See(s, l) EXCEPT !.outstanding = balance])
  /\ Goto(s, "refresh")
  /\ UNCHANGED <<db, locals, faults, reversals>>

\* absolute values computed from the loan as it was read at the beginning
UpdateLoan(s) ==
  LET l == req[s].loan
      balance == Max({0, snap[s].outstanding - SumOf(Allocations(s), {"PRINCIPAL", "PREPAYMENT"})})
      interest == Max({0, snap[s].accrued - SumOf(Allocations(s), {"INTEREST"})})
  IN
  /\ pc[s] = "loan" /\ Free(s, l)
  /\ Put(s, l, [See(s, l) EXCEPT
                  !.outstanding = balance,
                  !.accrued = interest,
                  !.status = IF balance <= 0 THEN "PAID_OFF" ELSE snap[s].status])
  /\ Goto(s, "refresh")
  /\ UNCHANGED <<db, locals, faults, reversals>>

\* refreshDelinquencyStatus; days_past_due is only ever written 0
RefreshDelinquency(s) ==
  LET l == req[s].loan
      overdue == {i \in Items : ItemLoan[i] = l /\ See(s, i).status = "OVERDUE"}
  IN
  /\ pc[s] = "refresh"
  /\ IF overdue = {}
       THEN Put(s, l, [See(s, l) EXCEPT !.status = "CURRENT"])
       ELSE UNCHANGED own
  /\ Goto(s, "commit")
  /\ UNCHANGED <<db, locals, faults, reversals>>

----------------------------------------------------------------------------
(* reversePayment *)

LoadPayment(s) ==
  /\ s \in Reverses /\ pc[s] = "idle"
  /\ \E p \in Applies :
       /\ db[p] # None
       /\ req' = [req EXCEPT ![s] = [payment |-> p, loan |-> db[p].loan,
                                  allocations |-> db[p].allocations]]
       /\ Goto(s, IF db[p].status = "REVERSED" THEN "rejected" ELSE "alloc")
  /\ UNCHANGED <<db, own, snap, num, k, target, ent, cols, faults, reversals>>

\* the atomic increments of UPDATE ... SET x = x + amount; a FEE gives nothing back
ReverseAllocation(s) ==
  LET l == req[s].loan
      row == See(s, l)
  IN
  /\ s \in Reverses /\ pc[s] = "alloc"
  /\ CASE Alloc(s).bucket \in {"PRINCIPAL", "PREPAYMENT"} ->
            Free(s, l) /\ Put(s, l, [row EXCEPT !.outstanding = @ + Alloc(s).amount])
       [] Alloc(s).bucket = "INTEREST" ->
            Free(s, l) /\ Put(s, l, [row EXCEPT !.accrued = @ + Alloc(s).amount])
       [] OTHER -> UNCHANGED own
  /\ Goto(s, IF Alloc(s).item # None THEN "readItem" ELSE "next")
  /\ UNCHANGED <<db, locals, faults, reversals>>

\* slip: the payment is deleted
MarkReversedDeletes(s) ==
  /\ pc[s] = "payment" /\ Free(s, req[s].payment)
  /\ Put(s, req[s].payment, None)
  /\ Goto(s, "commit")
  /\ UNCHANGED <<db, locals, faults, reversals>>

MarkReversed(s) ==
  LET p == req[s].payment IN
  /\ pc[s] = "payment" /\ Free(s, p)
  /\ Put(s, p, [See(s, p) EXCEPT !.status = "REVERSED"])
  /\ Goto(s, "commit")
  /\ UNCHANGED <<db, locals, faults, reversals>>

----------------------------------------------------------------------------
(* find, change and save an entity: a SELECT, the SELECT save() makes to    *)
(* find the changed columns, and an UPDATE of those columns                 *)

ReadItem(s) ==
  LET i == Alloc(s).item IN
  /\ pc[s] = "readItem"
  /\ target' = [target EXCEPT ![s] = i]
  /\ ent' = [ent EXCEPT ![s] = IF s \in Applies THEN PayItem(i, See(s, i), Alloc(s))
                               ELSE UnpayItem(See(s, i), Alloc(s))]
  /\ Goto(s, "diff")
  /\ UNCHANGED <<db, own, req, snap, num, k, cols, faults, reversals>>

ReadFee(s) ==
  LET f == Alloc(s).fee IN
  /\ pc[s] = "readFee" /\ See(s, f) # None
  /\ target' = [target EXCEPT ![s] = f]
  /\ ent' = [ent EXCEPT ![s] = PayFee(f, See(s, f), Alloc(s))]
  /\ Goto(s, "diff")
  /\ UNCHANGED <<db, own, req, snap, num, k, cols, faults, reversals>>

\* applyToFee returns, and the allocation changes no fee
NoFee(s) ==
  /\ pc[s] = "readFee" /\ See(s, Alloc(s).fee) = None
  /\ Goto(s, "next")
  /\ UNCHANGED <<db, own, locals, faults, reversals>>

\* FeesService.create: one INSERT, with the defaults of the table
CreateFee(f) ==
  /\ db[f] = None
  /\ db' = [db EXCEPT ![f] = NewFee]
  /\ UNCHANGED <<own, pc, locals, faults, reversals>>

\* FeesService.waive: only an OUTSTANDING fee
WaiveFee(s) ==
  /\ s \in Waives /\ pc[s] = "idle"
  /\ \E f \in Fees :
       /\ db[f] # None
       /\ target' = [target EXCEPT ![s] = f]
       /\ ent' = [ent EXCEPT ![s] = [db[f] EXCEPT !.status = "WAIVED"]]
       /\ Goto(s, IF db[f].status = "OUTSTANDING" THEN "diff" ELSE "rejected")
  /\ UNCHANGED <<db, own, req, snap, num, k, cols, faults, reversals>>

\* the money column the service computed: a number, so save() finds it different
\* from the text of the numeric column even when the value is the same
Computed(s) ==
  CASE target[s] \in Fees /\ s \in Applies -> {"paid"}
    [] target[s] \in Items /\ Alloc(s).bucket = "PRINCIPAL" -> {"principal"}
    [] target[s] \in Items /\ Alloc(s).bucket = "INTEREST"  -> {"interest"}
    [] target[s] \in Items /\ Alloc(s).bucket = "FEE"       -> {"fees"}
    [] OTHER -> {}

CompareColumns(s) ==
  LET row == See(s, target[s]) IN
  /\ pc[s] = "diff"
  /\ cols' = [cols EXCEPT ![s] = Computed(s) \cup {c \in DOMAIN row : row[c] # ent[s][c]}]
  /\ Goto(s, "save")
  /\ UNCHANGED <<db, own, req, snap, num, k, target, ent, faults, reversals>>

AfterSave(s) ==
  IF s \in Waives THEN "commit" ELSE IF target[s] \in Items THEN AfterItem(s) ELSE "next"

SaveColumns(s) ==
  LET row == See(s, target[s]) IN
  /\ pc[s] = "save"
  /\ IF cols[s] = {} THEN UNCHANGED own
     ELSE /\ Free(s, target[s])
          /\ Put(s, target[s], [c \in DOMAIN row |-> IF c \in cols[s] THEN ent[s][c] ELSE row[c]])
  /\ Goto(s, AfterSave(s))
  /\ UNCHANGED <<db, locals, faults, reversals>>

----------------------------------------------------------------------------
(* The end of a transaction *)

Commit(s) ==
  /\ pc[s] = "commit"
  /\ db' = Over(own[s], db)
  /\ Discard(s)
  /\ reversals' = IF s \in Reverses THEN [reversals EXCEPT ![req[s].payment] = @ + 1] ELSE reversals
  /\ Goto(s, "committed")
  /\ UNCHANGED <<locals, faults>>

Ended == {"committed", "aborted", "rejected"}

Abort(s) == Discard(s) /\ Goto(s, "aborted") /\ UNCHANGED <<db, locals, reversals>>

\* a statement fails, the audit record cannot be written, the process is killed
Fail(s) ==
  /\ pc[s] \notin Ended \cup {"idle"} /\ faults < MaxFaults
  /\ faults' = faults + 1
  /\ Abort(s)

\* sessions s is waiting for
Holders(s) ==
  LET of(row) == {t \in Sessions \ {s} : row \in DOMAIN own[t]} IN
  CASE pc[s] = "insert"  -> KeyHolders(s)
    [] pc[s] = "loan"    -> of(req[s].loan)
    [] pc[s] = "payment" -> of(req[s].payment)
    [] pc[s] = "save" /\ cols[s] # {} -> of(target[s])
    [] s \in Reverses /\ pc[s] = "alloc" /\ Alloc(s).bucket # "FEE" -> of(req[s].loan)
    [] OTHER -> {}

\* PostgreSQL finds the cycle of waiting transactions and aborts one of them; in a
\* cycle whoever s waits for waits itself
BreakDeadlock(s) ==
  /\ \E t \in Holders(s) : Holders(t) # {}
  /\ LET waits == [pair \in Sessions \X Sessions |-> pair[2] \in Holders(pair[1])]
     IN TransitiveClosure(waits, Sessions)[s, s]
  /\ Abort(s)
  /\ UNCHANGED faults

Step(s) ==
  \/ LoadLoan(s) \/ ReadNumber(s) \/ InsertPayment(s) \/ InsertAllocation(s)
  \/ NextAllocation(s) \/ UpdateLoan(s) \/ RefreshDelinquency(s)
  \/ LoadPayment(s) \/ ReverseAllocation(s) \/ MarkReversed(s)
  \/ ReadItem(s) \/ ReadFee(s) \/ NoFee(s) \/ WaiveFee(s) \/ CompareColumns(s) \/ SaveColumns(s)
  \/ Commit(s) \/ BreakDeadlock(s)

Next ==
  \/ \E s \in Sessions : Step(s) \/ Fail(s)
  \/ \E f \in Fees : CreateFee(f)

Spec == Init /\ [][Next]_vars

\* an open transaction goes on, and the deadlock detector runs
FairSpec == Spec /\ \A s \in Sessions : WF_vars(pc[s] # "idle" /\ Step(s))

----------------------------------------------------------------------------
(* Properties *)

TypeOK ==
  /\ \A l \in Loans : db[l] \in LoanRow
  /\ \A i \in Items : db[i] \in Item
  /\ \A f \in Fees : db[f] \in FeeRow \cup {None}
  /\ \A p \in Applies : db[p] \in PaymentRow \cup {None}
  /\ \A s \in Sessions : DOMAIN own[s] \subseteq Rows
  /\ \A s \in Sessions : cols[s] \subseteq {"principal", "interest", "fees", "status", "paid"}
  /\ num \in [Sessions -> 0 .. Cardinality(Applies) + 1]
  /\ reversals \in [Applies -> Nat]

(* payment_number: MAX + 1 read outside any lock, and a unique key, still   *)
(* number the payments of a loan 1, 2, 3, ... without a gap or a repeat,    *)
(* whatever sessions run together or fail.                                  *)
NumbersDense ==
  \A l \in Loans : NumbersOf(l) = 1 .. Cardinality(PaymentsOf(l))

(* What the committed payments say of a loan, an item, a fee. *)
Applied(l) == {p \in PaymentsOf(l) : db[p].status = "APPLIED"}
TotalApplied(l, buckets) ==
  SumFunctionOnSet([p \in Applied(l) |-> SumOf(db[p].allocations, buckets)], Applied(l))
Toward(row, allocs) ==
  SumFunctionOnSet([n \in DOMAIN allocs |-> allocs[n].amount],
                   {n \in DOMAIN allocs : \/ allocs[n].item = row
                                          \/ allocs[n].fee = row /\ allocs[n].bucket = "FEE"})
AppliedAll == UNION {Applied(l) : l \in Loans}
TowardRow(row) ==
  SumFunctionOnSet([p \in AppliedAll |-> Toward(row, db[p].allocations)], AppliedAll)

(* Payments racing with payments can lose a reduction, but never invent     *)
(* one: the balance is not below what the committed payments explain.       *)
NeverOverReduced ==
  \A l \in Loans :
    /\ db[l].outstanding >= Loan0[l].outstanding - TotalApplied(l, {"PRINCIPAL", "PREPAYMENT"})
    /\ db[l].accrued >= Loan0[l].accrued - TotalApplied(l, {"INTEREST"})

(* An installment shown PAID is covered by committed payments, though its   *)
(* status and its amounts are saved column by column from stale values.     *)
PaidItemIsCovered ==
  \A i \in Items : db[i].status = "PAID" => TowardRow(i) >= ScheduledTotal[i] - Tolerance

(* A fee shown PAID is covered by the committed payments that name it,     *)
(* though two payments may save it from the same stale amount.              *)
PaidFeeIsCovered ==
  \A f \in Fees : db[f] # None /\ db[f].status = "PAID" => TowardRow(f) >= FeeAmount[f] - Tolerance

\* the book of payments the sessions implement
EntryOf(row) ==
  IF row = None THEN None
  ELSE [loan |-> row.loan, number |-> row.number, status |-> row.status]
Book == INSTANCE PaymentBook WITH
  Payments <- Applies,
  book <- [p \in Applies |-> EntryOf(db[p])]

(* The sessions implement the abstract book: whatever they interleave, a    *)
(* payment is entered once with the next number of its loan, and afterwards *)
(* only ever goes from APPLIED to REVERSED.                                 *)
ImplementsBook == Book!Spec

(* Every transaction ends: the rows a payment and a reversal lock in        *)
(* opposite orders never leave both waiting.                                *)
SessionsEnd == \A s \in Sessions : pc[s] # "idle" ~> pc[s] \in Ended

(* A committed reversal happens once: "Payment already reversed".           *)
ReversedOnce == \A p \in Applies : reversals[p] <= 1

(* "should mark loan as PAID_OFF when balance reaches zero": payments that  *)
(* bring the balance to zero leave the loan PAID_OFF.                       *)
ZeroBalanceIsPaidOff ==
  \A l \in Loans : db[l].outstanding = 0 /\ Loan0[l].outstanding > 0 => db[l].status = "PAID_OFF"
=============================================================================
