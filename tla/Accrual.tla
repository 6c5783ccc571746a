------------------------------ MODULE Accrual ------------------------------
(***************************************************************************)
(* The interest accrual engine (interest-accrual.service.ts).  Several     *)
(* executions of the nightly job run side by side: every API replica has   *)
(* the @Cron handler and EventBridge starts a worker task at the same      *)
(* minute.  Nothing in the engine opens a transaction, so every statement  *)
(* it sends is one step here, committed by itself, and an execution may    *)
(* lose a statement or be killed between any two of them.                  *)
(*                                                                         *)
(* The same columns are written by activateLoan and modifyLoan, which save *)
(* an entity they read earlier (loan.service.ts), and the status by        *)
(* payments, of which Servicing has the rest.                              *)
(*                                                                         *)
(* Amounts are integers: principal in dollars, rates in basis points,      *)
(* interest in 1/10000 dollar, the precision accrueInterestForLoan keeps.  *)
(***************************************************************************)
EXTENDS Integers, FiniteSets

CONSTANTS
  Nightly,      \* executions of runNightlyAccrual (replicas and worker, every night)
  Backfills,    \* executions of backfillAccruals
  Savers,       \* requests that activate or modify a loan
  Loans,
  Tenants,      \* tenants of status ACTIVE
  TenantOf,     \* Loans -> Tenants
  MaxDay,       \* bound: the calendar days of the model are 1..MaxDay
  Origination,  \* Loans -> Int: the origination day, before, on or after the days
  InterestType, \* Loans -> {"FIXED", "FLOATING"}
  FixedRate,    \* Loans -> Nat
  IndexAsOf,    \* the most recent index rate on or before a day, or NoRate
  Disbursed,    \* SUM(amount) of DISBURSED disbursements effective by a day
  MaxFaults,    \* bound: statements lost and executions killed in a behaviour
  NoLoan,       \* no loan picked yet
  NoRate,       \* SQL NULL / no index record
  NotANumber    \* JavaScript NaN, and a text numeric(10,6) does not accept

Runs  == Nightly \cup Backfills
Days  == 1 .. MaxDay
Types == {"FIXED", "FLOATING"}
Open  == {"ACTIVE", "CURRENT", "DELINQUENT"}
Statuses == {"PENDING", "ACTIVE", "CURRENT", "DELINQUENT", "DEFAULT", "PAID_OFF", "CANCELLED"}

ASSUME AccrualConstants ==
  /\ Nightly \cap Backfills = {}
  /\ MaxDay \in Nat \ {0}
  /\ MaxFaults \in Nat
  /\ TenantOf \in [Loans -> Tenants]
  /\ Origination \in [Loans -> Int]
  /\ InterestType \in [Loans -> Types]
  /\ FixedRate \in [Loans -> Nat]
  /\ NoLoan \notin Loans
  /\ NoRate \notin Nat
  /\ NotANumber \notin Nat
  /\ IndexAsOf \in [Loans -> [Days -> Nat \cup {NoRate}]]
  /\ Disbursed \in [Loans -> [Days -> Nat]]

VARIABLES
  \* the database
  status,           \* loans.status
  accrued,          \* loans.accrued_interest
  lastAccrualDate,  \* loans.last_accrual_date, 0 for NULL
  indexRate,        \* loans.index_rate, the cached index
  rows,             \* interest_accruals; run is the identity of a row
  entity,           \* the loan each saver holds in memory
  today,            \* the calendar
  \* one execution
  pc, date, until, tenantsLeft, loansLeft, loan, principal, rate,
  \* history: what was read, logged, lost and added
  listed,           \* loans the execution's query returned
  errors,           \* "Failed to accrue for loan" log records
  faults,
  credits           \* increments of accrued made for a loan and a day

db    == <<status, accrued, lastAccrualDate, indexRate, rows>>
local == <<date, until, tenantsLeft, loansLeft, loan, principal, rate>>
hist  == <<listed, errors, faults, credits>>
vars  == <<db, today, entity, pc, local, hist>>

----------------------------------------------------------------------------
(* calculateActual360: Math.round rounds a half up. *)
Actual360(bal, rt) == (2 * (bal * rt) + 360) \div 720

RowsOf(l, d) == {a \in rows : a.loan = l /\ a.date = d}

(* The columns of a loan that its entity carries and others write.          *)
Stored(l) == [status |-> status[l], accrued |-> accrued[l],
              lastAccrualDate |-> lastAccrualDate[l], indexRate |-> indexRate[l]]

NoEntity == [at |-> "idle", loan |-> NoLoan, cols |-> {},
             row |-> [status |-> "PENDING", accrued |-> 0, lastAccrualDate |-> 0,
                      indexRate |-> NoRate]]

Columns == {"status", "accrued", "lastAccrualDate", "indexRate"}

StatementPoints == {"check", "balance", "rate", "insert", "credit", "stamp"}
EndPoints       == {"done", "failed", "crashed"}
Labels          == StatementPoints \cup EndPoints \cup {"idle", "tenant", "loan"}

Init ==
  /\ status \in [Loans -> {"PENDING", "ACTIVE", "CURRENT"}]
  /\ accrued = [l \in Loans |-> 0]
  /\ lastAccrualDate = [l \in Loans |-> IF status[l] = "PENDING" THEN 0 ELSE Origination[l]]
  /\ indexRate = [l \in Loans |-> NoRate]
  /\ rows = {}
  /\ entity = [q \in Savers |-> NoEntity]
  /\ today = 1
  /\ pc = [r \in Runs |-> "idle"]
  /\ date = [r \in Runs |-> 1]
  /\ until = [r \in Runs |-> 0]
  /\ tenantsLeft = [r \in Runs |-> {}]
  /\ loansLeft = [r \in Runs |-> {}]
  /\ loan = [r \in Runs |-> NoLoan]
  /\ principal = [r \in Runs |-> 0]
  /\ rate = [r \in Runs |-> 0]
  /\ listed = [r \in Runs |-> {}]
  /\ errors = {}
  /\ faults = 0
  /\ credits = [l \in Loans |-> [d \in Days |-> 0]]

----------------------------------------------------------------------------
(* Where an execution goes when accrueInterestForLoan returns or throws.   *)
(* runAccrualForTenant catches per loan; backfillAccruals goes on with the *)
(* next day after a return and does not catch.                             *)

Return(r) ==
  IF r \in Nightly
    THEN pc' = [pc EXCEPT ![r] = "loan"] /\ UNCHANGED date
    ELSE IF date[r] < until[r]
      THEN pc' = [pc EXCEPT ![r] = "check"] /\ date' = [date EXCEPT ![r] = @ + 1]
      ELSE pc' = [pc EXCEPT ![r] = "done"] /\ UNCHANGED date

\* slips: an empty catch block; a retry for ever
ThrowSilently(r) ==
  pc' = [pc EXCEPT ![r] = IF r \in Nightly THEN "loan" ELSE "failed"] /\ UNCHANGED errors
ThrowAndRetry(r) == UNCHANGED pc /\ errors' = errors \cup {<<r, loan[r], date[r]>>}

Throw(r) ==
  /\ pc' = [pc EXCEPT ![r] = IF r \in Nightly THEN "loan" ELSE "failed"]
  /\ errors' = errors \cup {<<r, loan[r], date[r]>>}

Goto(r, label) == pc' = [pc EXCEPT ![r] = label]

----------------------------------------------------------------------------
(* runNightlyAccrual and runAccrualForTenant *)

Trigger(r) ==
  /\ r \in Nightly /\ pc[r] = "idle"
  /\ date' = [date EXCEPT ![r] = today]
  /\ tenantsLeft' = [tenantsLeft EXCEPT ![r] = Tenants]
  /\ Goto(r, "tenant")
  /\ UNCHANGED <<db, today, entity, until, loansLeft, loan, principal, rate, hist>>

\* slip: loans stamped for a later day are taken for processed
ListTenantBehind(r) ==
  /\ pc[r] = "tenant"
  /\ \E t \in tenantsLeft[r] :
       LET active == {l \in Loans : TenantOf[l] = t /\ status[l] = "ACTIVE"
                                     /\ lastAccrualDate[l] < date[r]} IN
       /\ tenantsLeft' = [tenantsLeft EXCEPT ![r] = @ \ {t}]
       /\ loansLeft' = [loansLeft EXCEPT ![r] = active]
       /\ listed' = [listed EXCEPT ![r] = @ \cup active]
  /\ Goto(r, "loan")
  /\ UNCHANGED <<db, today, entity, date, until, loan, principal, rate, errors, faults, credits>>

ListTenant(r) ==
  /\ pc[r] = "tenant"
  /\ \E t \in tenantsLeft[r] :
       LET active == {l \in Loans : TenantOf[l] = t /\ status[l] = "ACTIVE"} IN
       /\ tenantsLeft' = [tenantsLeft EXCEPT ![r] = @ \ {t}]
       /\ loansLeft' = [loansLeft EXCEPT ![r] = active]
       /\ listed' = [listed EXCEPT ![r] = @ \cup active]
  /\ Goto(r, "loan")
  /\ UNCHANGED <<db, today, entity, date, until, loan, principal, rate, errors, faults, credits>>

LastTenant(r) ==
  /\ pc[r] = "tenant" /\ tenantsLeft[r] = {}
  /\ Goto(r, "done")
  /\ UNCHANGED <<db, today, entity, local, hist>>

NextLoan(r) ==
  /\ pc[r] = "loan"
  /\ \E l \in loansLeft[r] :
       /\ loan' = [loan EXCEPT ![r] = l]
       /\ loansLeft' = [loansLeft EXCEPT ![r] = @ \ {l}]
  /\ Goto(r, "check")
  /\ UNCHANGED <<db, today, entity, date, until, tenantsLeft, principal, rate, hist>>

\* slip: return inside the loop
LastLoanEarly(r) ==
  /\ pc[r] = "loan"
  /\ Goto(r, "tenant")
  /\ UNCHANGED <<db, today, entity, local, hist>>

LastLoan(r) ==
  /\ pc[r] = "loan" /\ loansLeft[r] = {}
  /\ Goto(r, "tenant")
  /\ UNCHANGED <<db, today, entity, local, hist>>

(* backfillAccruals: any loan, whatever its status, over any range of days. *)
StartBackfill(r) ==
  /\ r \in Backfills /\ pc[r] = "idle"
  /\ \E l \in Loans, from \in Days, to \in Days :
       /\ from <= to
       /\ loan' = [loan EXCEPT ![r] = l]
       /\ date' = [date EXCEPT ![r] = from]
       /\ until' = [until EXCEPT ![r] = to]
  /\ Goto(r, "check")
  /\ UNCHANGED <<db, today, entity, tenantsLeft, loansLeft, principal, rate, hist>>

----------------------------------------------------------------------------
(* accrueInterestForLoan, statement by statement *)

CheckExisting(r) ==
  /\ pc[r] = "check"
  /\ IF RowsOf(loan[r], date[r]) # {}
       THEN Return(r)
       ELSE Goto(r, "balance") /\ UNCHANGED date
  /\ UNCHANGED <<db, today, entity, until, tenantsLeft, loansLeft, loan, principal, rate, hist>>

ReadBalance(r) ==
  /\ pc[r] = "balance"
  /\ principal' = [principal EXCEPT ![r] = Disbursed[loan[r]][date[r]]]
  /\ IF principal'[r] <= 0
       THEN Return(r)
       ELSE Goto(r, "rate") /\ UNCHANGED date
  /\ UNCHANGED <<db, today, entity, until, tenantsLeft, loansLeft, loan, rate, hist>>

ResolveFixed(r) ==
  /\ pc[r] = "rate" /\ InterestType[loan[r]] = "FIXED"
  /\ rate' = [rate EXCEPT ![r] = FixedRate[loan[r]]]
  /\ Goto(r, "insert")
  /\ UNCHANGED <<db, today, entity, date, until, tenantsLeft, loansLeft, loan, principal, hist>>

(* numeric columns reach JavaScript as strings, so index + margin joins two *)
(* texts; chk_fixed_rate makes the margin of a floating loan not null.      *)
ResolveFloating(r) ==
  LET index == IndexAsOf[loan[r]][date[r]] IN
  /\ pc[r] = "rate" /\ InterestType[loan[r]] = "FLOATING" /\ index # NoRate
  /\ indexRate' = [indexRate EXCEPT ![loan[r]] = index]
  /\ rate' = [rate EXCEPT ![r] = NotANumber]
  /\ Goto(r, "insert")
  /\ UNCHANGED <<status, accrued, lastAccrualDate, rows, today, entity, date, until,
                 tenantsLeft, loansLeft, loan, principal, hist>>

NoIndexRate(r) ==
  /\ pc[r] = "rate" /\ InterestType[loan[r]] = "FLOATING"
  /\ IndexAsOf[loan[r]][date[r]] = NoRate
  /\ Throw(r)
  /\ UNCHANGED <<db, today, entity, local, listed, faults, credits>>

(* What interest_accruals refuses: a rate that is no number, a second row   *)
(* for the loan and the day (uq_accrual_date).                              *)
Refused(r) == rate[r] = NotANumber \/ RowsOf(loan[r], date[r]) # {}

\* slip: the loan is stamped before it is charged
InsertRowThenStamp(r) ==
  /\ pc[r] = "insert" /\ ~Refused(r)
  /\ rows' = rows \cup {[run |-> r, loan |-> loan[r], date |-> date[r],
                         amount |-> Actual360(principal[r], rate[r])]}
  /\ Goto(r, "stamp")
  /\ UNCHANGED <<status, accrued, lastAccrualDate, indexRate, today, entity, local, hist>>

InsertRow(r) ==
  /\ pc[r] = "insert" /\ ~Refused(r)
  /\ rows' = rows \cup {[run |-> r, loan |-> loan[r], date |-> date[r],
                         amount |-> Actual360(principal[r], rate[r])]}
  /\ Goto(r, "credit")
  /\ UNCHANGED <<status, accrued, lastAccrualDate, indexRate, today, entity, local, hist>>

\* slip: INSERT ... ON CONFLICT DO NOTHING, and on to the increment
InsertRefusedIgnored(r) ==
  /\ pc[r] = "insert" /\ Refused(r) /\ rate[r] # NotANumber
  /\ Goto(r, "credit")
  /\ UNCHANGED <<db, today, entity, local, hist>>

InsertRefused(r) ==
  /\ pc[r] = "insert" /\ Refused(r)
  /\ Throw(r)
  /\ UNCHANGED <<db, today, entity, local, listed, faults, credits>>

\* slip: an increment that may be repeated
CreditLoanAgain(r) ==
  /\ pc[r] = "credit"
  /\ accrued' = [accrued EXCEPT ![loan[r]] = @ + Actual360(principal[r], rate[r])]
  /\ credits' = [credits EXCEPT ![loan[r]][date[r]] = @ + 1]
  /\ \E label \in {"credit", "stamp"} : Goto(r, label)
  /\ UNCHANGED <<status, lastAccrualDate, indexRate, rows, today, entity, local, listed, errors, faults>>

CreditLoan(r) ==
  /\ pc[r] = "credit"
  /\ accrued' = [accrued EXCEPT ![loan[r]] = @ + Actual360(principal[r], rate[r])]
  /\ credits' = [credits EXCEPT ![loan[r]][date[r]] = @ + 1]
  /\ Goto(r, "stamp")
  /\ UNCHANGED <<status, lastAccrualDate, indexRate, rows, today, entity, local, listed, errors, faults>>

StampLoan(r) ==
  /\ pc[r] = "stamp"
  /\ lastAccrualDate' = [lastAccrualDate EXCEPT ![loan[r]] = date[r]]
  /\ Return(r)
  /\ UNCHANGED <<status, accrued, indexRate, rows, today, entity, until, tenantsLeft, loansLeft,
                 loan, principal, rate, hist>>

----------------------------------------------------------------------------
(* Failures and the rest of the system *)

(* A statement of accrueInterestForLoan is rejected by the driver: the      *)
(* database is as before it.  A statement whose answer is lost leaves the   *)
(* state this action reaches from the next statement.                       *)
StatementFails(r) ==
  /\ pc[r] \in StatementPoints /\ faults < MaxFaults
  /\ faults' = faults + 1
  /\ Throw(r)
  /\ UNCHANGED <<db, today, entity, local, listed, credits>>

(* The query of one tenant fails: the catch of runNightlyAccrual.           *)
ListFails(r) ==
  /\ pc[r] = "tenant" /\ faults < MaxFaults
  /\ faults' = faults + 1
  /\ \E t \in tenantsLeft[r] : tenantsLeft' = [tenantsLeft EXCEPT ![r] = @ \ {t}]
  /\ UNCHANGED <<db, today, entity, pc, date, until, loansLeft, loan, principal, rate,
                 listed, errors, credits>>

(* The process is killed (task stopped, deployment, out of memory).         *)
Crash(r) ==
  /\ pc[r] \notin EndPoints \cup {"idle"} /\ faults < MaxFaults
  /\ faults' = faults + 1
  /\ Goto(r, "crashed")
  /\ UNCHANGED <<db, today, entity, local, listed, errors, credits>>

Midnight ==
  /\ today < MaxDay
  /\ today' = today + 1
  /\ UNCHANGED <<db, entity, pc, local, hist>>

(* A payment changes the status while an execution holds the list it read.  *)
Paid(l) ==
  /\ status[l] = "ACTIVE"
  /\ status' = [status EXCEPT ![l] = "CURRENT"]
  /\ UNCHANGED <<accrued, lastAccrualDate, indexRate, rows, today, entity, pc, local, hist>>

----------------------------------------------------------------------------
(* activateLoan and modifyLoan: findOne, then save.  save reads the row     *)
(* once more and updates the columns in which the entity differs from it.   *)
(* From that update to the commit the row is locked: for all others the two *)
(* are one step.  The terms and the schedule are the subject of             *)
(* LoanLifecycle.                                                           *)

Load(q, l, row) ==
  /\ entity[q].at = "idle"
  /\ entity' = [entity EXCEPT ![q] = [at |-> "loaded", loan |-> l, row |-> row, cols |-> {}]]
  /\ UNCHANGED <<db, today, pc, local, hist>>

(* The origination date, whatever day that is, becomes last_accrual_date.   *)
LoadForActivation(q) ==
  \E l \in Loans :
    /\ status[l] = "PENDING"
    /\ Load(q, l, [Stored(l) EXCEPT !.status = "ACTIVE", !.lastAccrualDate = Origination[l]])

LoadForModification(q) == \E l \in Loans : status[l] \in Open /\ Load(q, l, Stored(l))

Compare(q) ==
  /\ entity[q].at = "loaded"
  /\ entity' = [entity EXCEPT ![q].at = "compared",
                 ![q].cols = {c \in Columns : entity[q].row[c] # Stored(entity[q].loan)[c]}]
  /\ UNCHANGED <<db, today, pc, local, hist>>

Save(q) ==
  LET e == entity[q]
      Put(col, c) == IF c \in e.cols THEN [col EXCEPT ![e.loan] = e.row[c]] ELSE col
  IN
  /\ e.at = "compared"
  /\ status' = Put(status, "status")
  /\ accrued' = Put(accrued, "accrued")
  /\ lastAccrualDate' = Put(lastAccrualDate, "lastAccrualDate")
  /\ indexRate' = Put(indexRate, "indexRate")
  /\ entity' = [entity EXCEPT ![q] = [NoEntity EXCEPT !.at = "done"]]
  /\ UNCHANGED <<rows, today, pc, local, hist>>

(* Refused, failed or killed: the transaction rolls back.                   *)
Abandon(q) ==
  /\ entity[q].at \in {"loaded", "compared"}
  /\ entity' = [entity EXCEPT ![q] = [NoEntity EXCEPT !.at = "done"]]
  /\ UNCHANGED <<db, today, pc, local, hist>>

EntityReads(q) == LoadForActivation(q) \/ LoadForModification(q) \/ Compare(q)
EntityStep(q)  == EntityReads(q) \/ Save(q) \/ Abandon(q)

----------------------------------------------------------------------------
Step(r) ==
  \/ ListTenant(r) \/ LastTenant(r) \/ NextLoan(r) \/ LastLoan(r)
  \/ CheckExisting(r) \/ ReadBalance(r)
  \/ ResolveFixed(r) \/ ResolveFloating(r) \/ NoIndexRate(r)
  \/ InsertRow(r) \/ InsertRefused(r) \/ CreditLoan(r) \/ StampLoan(r)

Start(r) == Trigger(r) \/ StartBackfill(r)
Fault(r) == StatementFails(r) \/ ListFails(r) \/ Crash(r)

Next ==
  \/ \E r \in Runs : Start(r) \/ Step(r) \/ Fault(r)
  \/ Midnight
  \/ \E l \in Loans : Paid(l)
  \/ \E q \in Savers : EntityStep(q)

Spec == Init /\ [][Next]_vars

(* The cron and EventBridge do fire, time passes, and an execution that was *)
(* not killed goes on with its next statement.                              *)
FairSpec ==
  /\ Spec
  /\ WF_vars(Midnight)
  /\ \A r \in Runs : WF_vars(Step(r))
  /\ \A r \in Nightly : WF_vars(Trigger(r))

----------------------------------------------------------------------------
(* Properties *)

IsStamp(l, d) == d \in Days \cup {0, Origination[l]}

EntityType ==
  [at : {"idle", "loaded", "compared", "done"}, loan : Loans \cup {NoLoan},
   row : [status : Statuses, accrued : Nat, lastAccrualDate : Int,
          indexRate : Nat \cup {NoRate}],
   cols : SUBSET Columns]

\* the saver has read its loan and not yet written it
Holds(q) == entity[q].at \in {"loaded", "compared"}

TypeOK ==
  /\ status \in [Loans -> Statuses]
  /\ accrued \in [Loans -> Nat]
  /\ lastAccrualDate \in [Loans -> Int] /\ \A l \in Loans : IsStamp(l, lastAccrualDate[l])
  /\ indexRate \in [Loans -> Nat \cup {NoRate}]
  /\ rows \subseteq [run : Runs, loan : Loans, date : Days, amount : Nat]
  /\ entity \in [Savers -> EntityType]
  /\ \A q \in Savers : Holds(q) =>
       entity[q].loan \in Loans /\ IsStamp(entity[q].loan, entity[q].row.lastAccrualDate)
  /\ today \in Days
  /\ pc \in [Runs -> Labels]
  /\ date \in [Runs -> Days]
  /\ until \in [Runs -> Days \cup {0}]
  /\ tenantsLeft \in [Runs -> SUBSET Tenants]
  /\ loansLeft \in [Runs -> SUBSET Loans]
  /\ loan \in [Runs -> Loans \cup {NoLoan}]
  /\ principal \in [Runs -> Nat]
  /\ rate \in [Runs -> Nat \cup {NotANumber}]
  /\ listed \in [Runs -> SUBSET Loans]
  /\ errors \subseteq Runs \X (Loans \cup {NoLoan}) \X Days
  /\ faults \in 0 .. MaxFaults
  /\ credits \in [Loans -> [Days -> Nat]]
  /\ \A r \in Runs : pc[r] \in StatementPoints => loan[r] \in Loans
  /\ \A r \in Runs : pc[r] = "credit" => rate[r] \in Nat

(* However many replicas, workers and backfills run for a day, the ledger   *)
(* holds one accrual for a loan and a day.                                  *)
OneRowPerLoanDay ==
  \A a, b \in rows : a.loan = b.loan /\ a.date = b.date => a = b

(* The check for an existing row, the insert and the increment are three    *)
(* separate statements, yet the borrower is never charged twice for a day,  *)
(* and never for a day that has no row in the ledger.                       *)
NoDoubleCredit ==
  \A l \in Loans, d \in Days :
    credits[l][d] > 0 => credits[l][d] = 1 /\ RowsOf(l, d) # {}

(* A row whose interest is missing from the loan is always explained: its   *)
(* execution is about to add it, was killed, or logged the loan as failed.  *)
MissingInterestIsExplained ==
  \A a \in rows :
    credits[a.loan][a.date] = 0 =>
      \/ pc[a.run] = "credit" /\ loan[a.run] = a.loan /\ date[a.run] = a.date
      \/ pc[a.run] = "crashed"
      \/ <<a.run, a.loan, a.date>> \in errors

(* NULL, the origination day of an activation, or a day the loan has been   *)
(* charged for.                                                             *)
NamesChargedDay(l, d) == d \in {0, Origination[l]} \/ credits[l][d] = 1

(* last_accrual_date is not ahead of the money: but for the origination day *)
(* that every activation puts there, also a second one and one that comes   *)
(* true only later, it names a day the loan was charged for, also after a   *)
(* stale save has put an older day back.                                    *)
StampIsCredited == \A l \in Loans : NamesChargedDay(l, lastAccrualDate[l])

(* The same of the stamps that savers hold and may still write.             *)
HeldStampIsCredited ==
  \A q \in Savers :
    Holds(q) => NamesChargedDay(entity[q].loan, entity[q].row.lastAccrualDate)

(* An execution between its insert and its increment owns the row of the    *)
(* loan and the day, and nobody has added that interest; after the          *)
(* increment it has been added once.                                        *)
OwnerOfPendingCredit ==
  \A r \in Runs :
    /\ pc[r] = "credit" =>
         /\ credits[loan[r]][date[r]] = 0
         /\ \E a \in RowsOf(loan[r], date[r]) : a.run = r
    /\ pc[r] = "stamp" => credits[loan[r]][date[r]] = 1

(* The ledger invariant: inductive, and what the proofs rest on.            *)
LedgerInv ==
  /\ OneRowPerLoanDay
  /\ NoDoubleCredit
  /\ MissingInterestIsExplained
  /\ StampIsCredited
  /\ HeldStampIsCredited
  /\ OwnerOfPendingCredit

(* What became of a loan an execution listed. *)
Settled(r, l) ==
  \/ RowsOf(l, date[r]) # {}
  \/ <<r, l, date[r]>> \in errors
  \/ Disbursed[l][date[r]] = 0

(* When a nightly execution ends, no loan its query returned was dropped in *)
(* silence: it has a row for the night, or a logged error, or nothing       *)
(* disbursed.                                                               *)
NoSilentSkip ==
  \A r \in Nightly : pc[r] = "done" => \A l \in listed[r] : Settled(r, l)

(* Inductive form: until then a listed loan is settled, still in the list,  *)
(* or the one being worked on; the list is empty between two tenants.       *)
WorkInv ==
  \A r \in Nightly :
    /\ pc[r] = "idle" => listed[r] = {}
    /\ pc[r] \in {"idle", "tenant", "done"} => loansLeft[r] = {}
    /\ pc[r] # "crashed" =>
         \A l \in listed[r] :
           \/ Settled(r, l)
           \/ l \in loansLeft[r]
           \/ l = loan[r] /\ pc[r] \in StatementPoints

(* Every execution that starts comes to an end, whatever fails in it: one   *)
(* bad loan or tenant never stops the others.  (A write waits while another *)
(* transaction holds the row; the one case in which that is for ever is     *)
(* Hang in LoanLifecycle, and then the execution waits with it.)            *)
ExecutionsEnd ==
  \A r \in Runs : pc[r] # "idle" ~> pc[r] \in EndPoints
=============================================================================
