---------------------------- MODULE AccrualProofs ----------------------------
(***************************************************************************)
(* What the accrual engine guarantees for any number of executions, loans, *)
(* tenants, days and faults.                                               *)
(***************************************************************************)
EXTENDS Accrual, TLAPS

----------------------------------------------------------------------------
(* Types *)

(* The accrual of a day is a natural number: no term of calculateActual360  *)
(* is negative.                                                             *)
LEMMA Actual360Nat ==
  ASSUME NEW b \in Nat, NEW t \in Nat
  PROVE  Actual360(b, t) \in Nat
<1>1. b * t \in Nat
  OBVIOUS
<1>2. \A x \in Nat : (2 * x + 360) \div 720 \in Nat
  OBVIOUS
<1> QED
  BY <1>1, <1>2 DEF Actual360

(* The labels of the statements, and of the ends, are labels.                *)
LEMMA LabelFacts ==
  /\ StatementPoints \subseteq Labels
  /\ EndPoints \subseteq Labels
  /\ {"idle", "tenant", "loan", "check", "balance", "rate", "insert", "credit", "stamp",
      "done", "failed", "crashed"} \subseteq Labels
BY DEF Labels, StatementPoints, EndPoints

(* The initial states have their types.                                      *)
LEMMA InitType == Init => TypeOK
<1> SUFFICES ASSUME Init PROVE TypeOK
  OBVIOUS
<1> USE AccrualConstants
<1>1. 1 \in Days
  BY DEF Days
<1>2. lastAccrualDate \in [Loans -> Int] /\ \A l \in Loans : IsStamp(l, lastAccrualDate[l])
  BY DEF Init, IsStamp
<1>3. entity \in [Savers -> EntityType] /\ \A q \in Savers : ~Holds(q)
  BY DEF Init, EntityType, NoEntity, Statuses, Holds
<1> QED
  BY <1>1, <1>2, <1>3, LabelFacts DEF Init, TypeOK, Runs, Days, Statuses, StatementPoints

(* A stamp stays one: the days and the origination of a loan are constants. *)
LEMMA StampsAreDays ==
  ASSUME NEW l \in Loans, NEW d \in Days
  PROVE  IsStamp(l, d) /\ d \in Int
BY DEF IsStamp, Days

(* Steps that leave the entities and the stamps alone keep their types.     *)
LEMMA EntitiesStay ==
  ASSUME TypeOK, UNCHANGED entity
  PROVE  /\ entity' \in [Savers -> EntityType]
         /\ (\A q \in Savers : Holds(q) =>
               entity[q].loan \in Loans /\ IsStamp(entity[q].loan, entity[q].row.lastAccrualDate))'
BY DEF TypeOK, Holds

(* What a saver reads of a loan is a row of the table.                      *)
LEMMA StoredType ==
  ASSUME TypeOK, NEW l \in Loans
  PROVE  /\ Stored(l) \in [status : Statuses, accrued : Nat, lastAccrualDate : Int,
                            indexRate : Nat \cup {NoRate}]
         /\ IsStamp(l, Stored(l).lastAccrualDate)
BY DEF TypeOK, Stored

(* Where an execution goes after a loan keeps the types. *)
LEMMA ReturnType ==
  ASSUME TypeOK, NEW r \in Runs, Return(r)
  PROVE  /\ date' \in [Runs -> Days]
         /\ pc' \in [Runs -> Labels]
         /\ pc' = [pc EXCEPT ![r] = pc'[r]]
         /\ pc'[r] \in {"loan", "check", "done"}
         /\ r \in Nightly => pc'[r] = "loan" /\ date' = date
         /\ date' = [date EXCEPT ![r] = date'[r]]
<1> USE AccrualConstants, LabelFacts
<1>t. date \in [Runs -> Days] /\ pc \in [Runs -> Labels] /\ until \in [Runs -> Days \cup {0}]
  BY DEF TypeOK
<1>1. CASE r \in Nightly
  BY <1>1, <1>t DEF Return
<1>2. CASE r \notin Nightly /\ date[r] < until[r]
  <2>1. date[r] + 1 \in Days
    <3>1. MaxDay \in Nat /\ date[r] \in 1 .. MaxDay /\ until[r] \in (1 .. MaxDay) \cup {0}
      BY <1>t DEF Days, AccrualConstants
    <3>2. date[r] + 1 \in 1 .. MaxDay
      BY <3>1, <1>2
    <3> QED
      BY <3>2 DEF Days
  <2>2. pc' = [pc EXCEPT ![r] = "check"] /\ date' = [date EXCEPT ![r] = date[r] + 1]
    BY <1>2 DEF Return
  <2> QED
    BY <1>2, <2>1, <2>2, <1>t
<1>3. CASE r \notin Nightly /\ ~(date[r] < until[r])
  BY <1>3, <1>t DEF Return
<1> QED
  BY <1>1, <1>2, <1>3

(* Every step of a saver keeps the types: what it writes is what it read,   *)
(* or, activating, the origination date.                                    *)
LEMMA EntityStepType ==
  ASSUME TypeOK, NEW q \in Savers, EntityStep(q)
  PROVE  TypeOK'
<1> USE AccrualConstants
<1>t. entity \in [Savers -> EntityType]
  BY DEF TypeOK
<1> DEFINE Held(e, x) ==
      e[x].at \in {"loaded", "compared"} =>
        e[x].loan \in Loans /\ IsStamp(e[x].loan, e[x].row.lastAccrualDate)
<1>h. \A x \in Savers : Held(entity, x)
  BY DEF TypeOK, Holds
<1>1. ASSUME NEW l \in Loans, NEW row, Load(q, l, row), IsStamp(l, row.lastAccrualDate),
             row \in [status : Statuses, accrued : Nat, lastAccrualDate : Int,
                      indexRate : Nat \cup {NoRate}]
      PROVE  TypeOK'
  <2>1. entity' \in [Savers -> EntityType]
    BY <1>1, <1>t DEF Load, EntityType
  <2>2. \A x \in Savers : Held(entity', x)
    BY <1>1, <1>t, <1>h DEF Load
  <2> QED
    BY <1>1, <2>1, <2>2 DEF Load, TypeOK, Holds, db, local, hist
<1>2. CASE LoadForActivation(q)
  <2>1. PICK l \in Loans : Load(q, l, [Stored(l) EXCEPT !.status = "ACTIVE",
                                                       !.lastAccrualDate = Origination[l]])
    BY <1>2 DEF LoadForActivation
  <2> DEFINE row == [Stored(l) EXCEPT !.status = "ACTIVE", !.lastAccrualDate = Origination[l]]
  <2>2. /\ row \in [status : Statuses, accrued : Nat, lastAccrualDate : Int,
                    indexRate : Nat \cup {NoRate}]
        /\ row.lastAccrualDate = Origination[l]
    BY StoredType DEF Statuses
  <2>3. IsStamp(l, row.lastAccrualDate)
    BY <2>2 DEF IsStamp
  <2> HIDE DEF row
  <2> QED
    BY <2>1, <2>2, <2>3, <1>1 DEF row
<1>3. CASE LoadForModification(q)
  BY <1>3, <1>1, StoredType DEF LoadForModification
<1>4. CASE Compare(q)
  <2> DEFINE cols == {c \in Columns : entity[q].row[c] # Stored(entity[q].loan)[c]}
  <2>1. cols \subseteq Columns
    OBVIOUS
  <2>2. entity' = [entity EXCEPT ![q].at = "compared", ![q].cols = cols]
    BY <1>4 DEF Compare
  <2> HIDE DEF cols
  <2>3. entity' \in [Savers -> EntityType]
    BY <2>1, <2>2, <1>t DEF EntityType
  <2>4. \A x \in Savers : Held(entity', x)
    BY <2>2, <1>t, <1>h, <1>4 DEF EntityType, Compare
  <2> QED
    BY <1>4, <2>3, <2>4 DEF Compare, TypeOK, Holds, db, local, hist
<1>5. CASE Save(q) \/ Abandon(q)
  <2> DEFINE e == entity[q]
  <2>1. entity' = [entity EXCEPT ![q] = [NoEntity EXCEPT !.at = "done"]]
    BY <1>5 DEF Save, Abandon
  <2>2. entity' \in [Savers -> EntityType] /\ \A x \in Savers : Held(entity', x)
    BY <2>1, <1>t, <1>h DEF EntityType, NoEntity, Statuses
  <2>3. /\ e.loan \in Loans /\ IsStamp(e.loan, e.row.lastAccrualDate)
        /\ e.row \in [status : Statuses, accrued : Nat, lastAccrualDate : Int,
                      indexRate : Nat \cup {NoRate}]
    BY <1>5, <1>t, <1>h DEF Save, Abandon, EntityType
  <2>4. CASE Save(q)
    <3>1. /\ status' \in [Loans -> Statuses]
          /\ accrued' \in [Loans -> Nat]
          /\ indexRate' \in [Loans -> Nat \cup {NoRate}]
      BY <2>3, <2>4 DEF Save, TypeOK
    <3>2. lastAccrualDate' \in [Loans -> Int] /\ \A l \in Loans : IsStamp(l, lastAccrualDate'[l])
      BY <2>3, <2>4 DEF Save, TypeOK
    <3> QED
      BY <2>2, <2>4, <3>1, <3>2 DEF Save, TypeOK, Holds, local, hist
  <2>5. CASE Abandon(q)
    BY <2>2, <2>5 DEF Abandon, TypeOK, Holds, db, local, hist
  <2> QED
    BY <1>5, <2>4, <2>5
<1> QED
  BY <1>2, <1>3, <1>4, <1>5 DEF EntityStep, EntityReads

(* Every step keeps the types. *)
LEMMA TypeStep == TypeOK /\ [Next]_vars => TypeOK'
<1> SUFFICES ASSUME TypeOK, [Next]_vars PROVE TypeOK'
  OBVIOUS
<1> USE AccrualConstants, LabelFacts
<1>1. ASSUME NEW r \in Runs, Start(r) PROVE TypeOK'
  <2>1. CASE Trigger(r)
    BY <2>1, EntitiesStay DEF Trigger, TypeOK, Goto, db, hist, StatementPoints
  <2>2. CASE StartBackfill(r)
    BY <2>2, EntitiesStay DEF StartBackfill, TypeOK, Goto, db, hist, StatementPoints
  <2> QED
    BY <1>1, <2>1, <2>2 DEF Start
<1>2. ASSUME NEW r \in Runs, Step(r) PROVE TypeOK'
  <2>1. CASE ListTenant(r)
    BY <2>1, EntitiesStay DEF ListTenant, TypeOK, Goto, db, StatementPoints
  <2>2. CASE LastTenant(r)
    BY <2>2, EntitiesStay DEF LastTenant, TypeOK, Goto, db, local, hist, StatementPoints
  <2>3. CASE NextLoan(r)
    BY <2>3, EntitiesStay DEF NextLoan, TypeOK, Goto, db, hist
  <2>4. CASE LastLoan(r)
    BY <2>4, EntitiesStay DEF LastLoan, TypeOK, Goto, db, local, hist, StatementPoints
  <2>5. CASE CheckExisting(r)
    <3>1. CASE Return(r)
      BY <3>1, <2>5, ReturnType, EntitiesStay DEF CheckExisting, TypeOK, db, hist, StatementPoints
    <3>2. CASE Goto(r, "balance") /\ UNCHANGED date
      BY <3>2, <2>5, EntitiesStay DEF CheckExisting, Goto, TypeOK, db, hist, StatementPoints
    <3> QED
      BY <2>5, <3>1, <3>2 DEF CheckExisting
  <2>6. CASE ReadBalance(r)
    <3>0. principal' \in [Runs -> Nat]
      BY <2>6, EntitiesStay DEF ReadBalance, TypeOK, StatementPoints
    <3>1. CASE Return(r)
      BY <3>0, <3>1, <2>6, ReturnType, EntitiesStay DEF ReadBalance, TypeOK, db, hist, StatementPoints
    <3>2. CASE Goto(r, "rate") /\ UNCHANGED date
      BY <3>0, <3>2, <2>6, EntitiesStay DEF ReadBalance, Goto, TypeOK, db, hist, StatementPoints
    <3> QED
      BY <2>6, <3>1, <3>2 DEF ReadBalance
  <2>7. CASE ResolveFixed(r)
    BY <2>7, EntitiesStay DEF ResolveFixed, TypeOK, Goto, db, hist, StatementPoints
  <2>8. CASE ResolveFloating(r)
    BY <2>8, EntitiesStay DEF ResolveFloating, TypeOK, Goto, db, hist, StatementPoints
  <2>9. CASE NoIndexRate(r)
    BY <2>9, EntitiesStay DEF NoIndexRate, Throw, TypeOK, db, local, StatementPoints
  <2>10. CASE InsertRow(r)
    <3>1. loan[r] \in Loans /\ date[r] \in Days /\ principal[r] \in Nat /\ rate[r] \in Nat
      BY <2>10, EntitiesStay DEF InsertRow, Refused, TypeOK, StatementPoints
    <3>2. Actual360(principal[r], rate[r]) \in Nat
      BY <3>1, Actual360Nat
    <3>3. rows' \subseteq [run : Runs, loan : Loans, date : Days, amount : Nat]
      BY <3>1, <3>2, <2>10, EntitiesStay DEF InsertRow, TypeOK
    <3> QED
      BY <3>1, <3>3, <2>10, EntitiesStay DEF InsertRow, Goto, TypeOK, local, hist, StatementPoints
  <2>11. CASE InsertRefused(r)
    BY <2>11, EntitiesStay DEF InsertRefused, Throw, TypeOK, db, local, StatementPoints
  <2>12. CASE CreditLoan(r)
    <3>1. loan[r] \in Loans /\ date[r] \in Days /\ principal[r] \in Nat /\ rate[r] \in Nat
      BY <2>12, EntitiesStay DEF CreditLoan, TypeOK, StatementPoints
    <3>2. Actual360(principal[r], rate[r]) \in Nat
      BY <3>1, Actual360Nat
    <3>3. accrued' \in [Loans -> Nat]
      BY <3>1, <3>2, <2>12, EntitiesStay DEF CreditLoan, TypeOK
    <3>4. credits' \in [Loans -> [Days -> Nat]]
      BY <3>1, <2>12, EntitiesStay DEF CreditLoan, TypeOK
    <3> QED
      BY <3>1, <3>3, <3>4, <2>12, EntitiesStay DEF CreditLoan, Goto, TypeOK, local, StatementPoints
  <2>13. CASE StampLoan(r)
    <3>1. /\ lastAccrualDate' \in [Loans -> Int]
          /\ \A l \in Loans : IsStamp(l, lastAccrualDate'[l])
      BY <2>13, StampsAreDays DEF StampLoan, TypeOK
    <3>2. /\ date' \in [Runs -> Days] /\ pc' \in [Runs -> Labels]
          /\ pc' = [pc EXCEPT ![r] = pc'[r]] /\ pc'[r] \in {"loan", "check", "done"}
      BY <2>13, ReturnType DEF StampLoan
    <3>3. \A x \in Runs : /\ pc'[x] \in StatementPoints => loan[x] \in Loans
                          /\ pc'[x] = "credit" => rate[x] \in Nat
      BY <2>13, <3>2 DEF StampLoan, TypeOK, StatementPoints
    <3> QED
      BY <2>13, <3>1, <3>2, <3>3, EntitiesStay DEF StampLoan, TypeOK, hist
  <2> QED
    BY <1>2, <2>1, <2>2, <2>3, <2>4, <2>5, <2>6, <2>7, <2>8, <2>9, <2>10, <2>11, <2>12, <2>13
    DEF Step
<1>3. ASSUME NEW r \in Runs, Fault(r) PROVE TypeOK'
  <2>1. CASE StatementFails(r)
    BY <2>1, EntitiesStay DEF StatementFails, Throw, TypeOK, db, local, StatementPoints
  <2>2. CASE ListFails(r)
    BY <2>2, EntitiesStay DEF ListFails, TypeOK, db
  <2>3. CASE Crash(r)
    BY <2>3, EntitiesStay DEF Crash, Goto, TypeOK, db, local, StatementPoints
  <2> QED
    BY <1>3, <2>1, <2>2, <2>3 DEF Fault
<1>4. CASE Midnight
  <2>1. today' \in Days
    BY <1>4, EntitiesStay DEF Midnight, TypeOK, Days
  <2> QED
    BY <1>4, <2>1, EntitiesStay DEF Midnight, TypeOK, db, local, hist
<1>5. ASSUME NEW l \in Loans, Paid(l) PROVE TypeOK'
  BY <1>5, EntitiesStay DEF Paid, TypeOK, Statuses, local, hist
<1>6. ASSUME NEW q \in Savers, EntityStep(q) PROVE TypeOK'
  BY <1>6, EntityStepType
<1>7. CASE UNCHANGED vars
  BY <1>7, EntitiesStay DEF vars, db, local, hist, TypeOK
<1> QED
  BY <1>1, <1>2, <1>3, <1>4, <1>5, <1>6, <1>7 DEF Next

(* The variables of the engine keep their types: every amount it adds to a  *)
(* loan is a natural number and every execution works on a loan it holds.   *)
THEOREM TypeCorrect == Spec => []TypeOK
<1>1. Init => TypeOK
  BY InitType
<1>2. TypeOK /\ [Next]_vars => TypeOK'
  BY TypeStep
<1> QED
  BY <1>1, <1>2, PTL DEF Spec

----------------------------------------------------------------------------
(* The ledger *)

(* Before anything is accrued the ledger is consistent.                      *)
LEMMA InitLedger == Init => LedgerInv
BY AccrualConstants
DEF Init, LedgerInv, OneRowPerLoanDay, NoDoubleCredit, MissingInterestIsExplained,
    StampIsCredited, HeldStampIsCredited, NamesChargedDay, Holds, NoEntity, OwnerOfPendingCredit

(* A charged day stays charged: what a stamp or an entity names can be      *)
(* named ever after.                                                        *)
LEMMA NamedStays ==
  ASSUME TypeOK, LedgerInv, UNCHANGED <<lastAccrualDate, entity>>,
         \A l \in Loans, d \in Days : credits[l][d] = 1 => credits'[l][d] = 1
  PROVE  StampIsCredited' /\ HeldStampIsCredited'
<1>1. ASSUME NEW l \in Loans, NEW d, IsStamp(l, d), NamesChargedDay(l, d)
      PROVE  NamesChargedDay(l, d)'
  BY <1>1 DEF IsStamp, NamesChargedDay
<1>2. StampIsCredited'
  BY <1>1 DEF LedgerInv, StampIsCredited, TypeOK
<1>3. HeldStampIsCredited'
  BY <1>1 DEF LedgerInv, HeldStampIsCredited, TypeOK, Holds
<1> QED
  BY <1>2, <1>3

(* An execution that moves without being, or coming, between its insert and *)
(* its stamp; or that leaves from there killed, or logged.                  *)
Harmless(r) ==
  \/ pc'[r] = pc[r] /\ loan'[r] = loan[r] /\ date'[r] = date[r]
  \/ /\ pc[r] # "crashed"
     /\ pc'[r] \notin {"credit", "stamp"}
     /\ pc[r] = "credit" => pc'[r] = "crashed" \/ <<r, loan[r], date[r]>> \in errors'

(* A step that does not touch the ledger keeps it in order.                 *)
LEMMA QuietStep ==
  ASSUME TypeOK, LedgerInv,
         UNCHANGED <<rows, credits>>,
         UNCHANGED <<lastAccrualDate, entity>> \/ (StampIsCredited' /\ HeldStampIsCredited'),
         errors \subseteq errors',
         \A r \in Runs : Harmless(r)
  PROVE  LedgerInv'
<1>1. OneRowPerLoanDay' /\ NoDoubleCredit'
  BY DEF LedgerInv, OneRowPerLoanDay, NoDoubleCredit, RowsOf
<1>0. StampIsCredited' /\ HeldStampIsCredited'
  BY NamedStays
<1>2. MissingInterestIsExplained'
  <2> SUFFICES ASSUME NEW a \in rows, credits[a.loan][a.date] = 0
               PROVE  \/ pc'[a.run] = "credit" /\ loan'[a.run] = a.loan /\ date'[a.run] = a.date
                      \/ pc'[a.run] = "crashed"
                      \/ <<a.run, a.loan, a.date>> \in errors'
    BY DEF MissingInterestIsExplained
  <2>1. a.run \in Runs
    BY DEF TypeOK
  <2>2. Harmless(a.run)
    BY <2>1
  <2>3. \/ pc[a.run] = "credit" /\ loan[a.run] = a.loan /\ date[a.run] = a.date
        \/ pc[a.run] = "crashed"
        \/ <<a.run, a.loan, a.date>> \in errors
    BY DEF LedgerInv, MissingInterestIsExplained
  <2> QED
    BY <2>2, <2>3 DEF Harmless
<1>3. OwnerOfPendingCredit'
  <2> SUFFICES ASSUME NEW r \in Runs, pc'[r] \in {"credit", "stamp"}
               PROVE  /\ pc'[r] = "credit" =>
                           /\ credits[loan'[r]][date'[r]] = 0
                           /\ \E a \in RowsOf(loan'[r], date'[r]) : a.run = r
                      /\ pc'[r] = "stamp" => credits[loan'[r]][date'[r]] = 1
    BY DEF OwnerOfPendingCredit, RowsOf
  <2>1. pc'[r] = pc[r] /\ loan'[r] = loan[r] /\ date'[r] = date[r]
    BY DEF Harmless
  <2> QED
    BY <2>1 DEF LedgerInv, OwnerOfPendingCredit, RowsOf
<1> QED
  BY <1>0, <1>1, <1>2, <1>3 DEF LedgerInv

(* The insert: the unique key admits the row only when the day has none, so *)
(* nothing has been credited for it and nobody else is about to.            *)
LEMMA InsertStep ==
  ASSUME TypeOK, LedgerInv, NEW r \in Runs, InsertRow(r)
  PROVE  LedgerInv'
<1> DEFINE new == [run |-> r, loan |-> loan[r], date |-> date[r],
                   amount |-> Actual360(principal[r], rate[r])]
<1>1. /\ pc[r] = "insert" /\ RowsOf(loan[r], date[r]) = {}
      /\ rows' = rows \cup {new}
      /\ pc' = [pc EXCEPT ![r] = "credit"]
      /\ UNCHANGED <<loan, date, credits, errors, lastAccrualDate, entity>>
  BY DEF InsertRow, Refused, Goto, local, hist
<1>2. loan[r] \in Loans /\ date[r] \in Days /\ pc \in [Runs -> Labels]
  BY <1>1 DEF TypeOK, StatementPoints
<1>3. credits[loan[r]][date[r]] = 0
  BY <1>1, <1>2 DEF LedgerInv, NoDoubleCredit, TypeOK
<1>4. OneRowPerLoanDay'
  BY <1>1 DEF LedgerInv, OneRowPerLoanDay, RowsOf
<1>5. NoDoubleCredit'
  BY <1>1 DEF LedgerInv, NoDoubleCredit, RowsOf
<1>6. StampIsCredited' /\ HeldStampIsCredited'
  BY <1>1, NamedStays
<1>7. MissingInterestIsExplained'
  <2>1. \A a \in rows : a.run = r => pc[r] # "credit"
    BY <1>1
  <2>2. pc'[r] = "credit"
    BY <1>1, <1>2
  <2> QED
    BY <1>1, <1>2, <2>1, <2>2 DEF LedgerInv, MissingInterestIsExplained, TypeOK
<1>8. OwnerOfPendingCredit'
  <2> SUFFICES ASSUME NEW x \in Runs
               PROVE  /\ pc'[x] = "credit" =>
                           /\ credits[loan[x]][date[x]] = 0
                           /\ \E a \in RowsOf(loan[x], date[x])' : a.run = x
                      /\ pc'[x] = "stamp" => credits[loan[x]][date[x]] = 1
    BY <1>1 DEF OwnerOfPendingCredit, RowsOf
  <2>1. CASE x = r
    <3>1. new \in RowsOf(loan[r], date[r])' /\ new.run = r
      BY <1>1 DEF RowsOf
    <3> HIDE DEF new
    <3> QED
      BY <1>1, <1>2, <1>3, <2>1, <3>1
  <2>2. CASE x # r
    BY <1>1, <1>2, <2>2 DEF LedgerInv, OwnerOfPendingCredit, RowsOf
  <2> QED
    BY <2>1, <2>2
<1> QED
  BY <1>4, <1>5, <1>6, <1>7, <1>8 DEF LedgerInv

(* The increment: the execution owns the only row of the day, so no other   *)
(* execution is waiting to add the same interest.                           *)
LEMMA CreditStep ==
  ASSUME TypeOK, LedgerInv, NEW r \in Runs, CreditLoan(r)
  PROVE  LedgerInv'
<1> DEFINE L == loan[r]
           D == date[r]
<1>1. /\ pc[r] = "credit"
      /\ credits' = [credits EXCEPT ![L][D] = @ + 1]
      /\ pc' = [pc EXCEPT ![r] = "stamp"]
      /\ UNCHANGED <<loan, date, rows, errors, lastAccrualDate, entity>>
  BY DEF CreditLoan, Goto, local
<1>2. L \in Loans /\ D \in Days /\ pc \in [Runs -> Labels]
  BY <1>1 DEF TypeOK, StatementPoints
<1>3. credits[L][D] = 0 /\ credits'[L][D] = 1
  BY <1>1, <1>2 DEF LedgerInv, OwnerOfPendingCredit, TypeOK
<1>4. \A l \in Loans, d \in Days : l # L \/ d # D => credits'[l][d] = credits[l][d]
  BY <1>1, <1>2 DEF TypeOK
<1>5. PICK own \in RowsOf(L, D) : own.run = r
  BY <1>1 DEF LedgerInv, OwnerOfPendingCredit
<1>6. \A a \in RowsOf(L, D) : a = own
  BY <1>5 DEF LedgerInv, OneRowPerLoanDay, RowsOf
<1>7. OneRowPerLoanDay'
  BY <1>1 DEF LedgerInv, OneRowPerLoanDay
<1>8. NoDoubleCredit'
  BY <1>1, <1>3, <1>4, <1>5 DEF LedgerInv, NoDoubleCredit, RowsOf
<1>9. StampIsCredited' /\ HeldStampIsCredited'
  BY <1>1, <1>3, <1>4, NamedStays
<1>10. MissingInterestIsExplained'
  <2> SUFFICES ASSUME NEW a \in rows, credits'[a.loan][a.date] = 0
               PROVE  \/ pc'[a.run] = "credit" /\ loan[a.run] = a.loan /\ date[a.run] = a.date
                      \/ pc'[a.run] = "crashed"
                      \/ <<a.run, a.loan, a.date>> \in errors
    BY <1>1 DEF MissingInterestIsExplained
  <2>1. a.loan \in Loans /\ a.date \in Days /\ a.run \in Runs
    BY DEF TypeOK
  <2>2. a.loan # L \/ a.date # D
    BY <1>3
  <2>3. credits[a.loan][a.date] = 0
    BY <1>4, <2>1, <2>2
  <2>4. \/ pc[a.run] = "credit" /\ loan[a.run] = a.loan /\ date[a.run] = a.date
        \/ pc[a.run] = "crashed"
        \/ <<a.run, a.loan, a.date>> \in errors
    BY <2>3 DEF LedgerInv, MissingInterestIsExplained
  <2>5. a.run = r => <<a.run, a.loan, a.date>> \in errors
    BY <1>1, <2>2, <2>4
  <2> QED
    BY <1>1, <1>2, <2>1, <2>4, <2>5
<1>11. OwnerOfPendingCredit'
  <2> SUFFICES ASSUME NEW x \in Runs
               PROVE  /\ pc'[x] = "credit" =>
                           /\ credits'[loan[x]][date[x]] = 0
                           /\ \E a \in RowsOf(loan[x], date[x]) : a.run = x
                      /\ pc'[x] = "stamp" => credits'[loan[x]][date[x]] = 1
    BY <1>1 DEF OwnerOfPendingCredit, RowsOf
  <2>1. CASE x = r
    BY <1>1, <1>2, <1>3, <2>1
  <2>2. CASE x # r /\ pc'[x] = "credit"
    <3>1. pc[x] = "credit" /\ loan[x] \in Loans /\ date[x] \in Days
      BY <1>1, <1>2, <2>2 DEF TypeOK, StatementPoints
    <3>2. credits[loan[x]][date[x]] = 0 /\ \E a \in RowsOf(loan[x], date[x]) : a.run = x
      BY <3>1 DEF LedgerInv, OwnerOfPendingCredit
    <3>3. loan[x] # L \/ date[x] # D
      BY <1>5, <1>6, <2>2, <3>2
    <3> QED
      BY <1>4, <2>2, <3>1, <3>2, <3>3
  <2>3. CASE x # r /\ pc'[x] = "stamp"
    <3>1. pc[x] = "stamp" /\ loan[x] \in Loans /\ date[x] \in Days
      BY <1>1, <1>2, <2>3 DEF TypeOK, StatementPoints
    <3>2. credits[loan[x]][date[x]] = 1
      BY <3>1 DEF LedgerInv, OwnerOfPendingCredit
    <3> QED
      BY <1>3, <1>4, <2>3, <3>1, <3>2
  <2> QED
    BY <2>1, <2>2, <2>3
<1> QED
  BY <1>7, <1>8, <1>9, <1>10, <1>11 DEF LedgerInv

(* The stamp: the day it writes has just been credited.                     *)
LEMMA StampStep ==
  ASSUME TypeOK, LedgerInv, NEW r \in Runs, StampLoan(r)
  PROVE  LedgerInv'
<1>1. /\ pc[r] = "stamp"
      /\ lastAccrualDate' = [lastAccrualDate EXCEPT ![loan[r]] = date[r]]
      /\ UNCHANGED <<loan, rows, errors, credits, entity>>
  BY DEF StampLoan, hist
<1>2. pc' = [pc EXCEPT ![r] = pc'[r]] /\ pc'[r] \in {"loan", "check", "done"}
      /\ date' = [date EXCEPT ![r] = date'[r]]
  BY ReturnType DEF StampLoan
<1>3. pc \in [Runs -> Labels] /\ date \in [Runs -> Days] /\ loan[r] \in Loans
  BY <1>1 DEF TypeOK, StatementPoints
<1>4. OneRowPerLoanDay' /\ NoDoubleCredit'
  BY <1>1 DEF LedgerInv, OneRowPerLoanDay, NoDoubleCredit, RowsOf
<1>5. StampIsCredited' /\ HeldStampIsCredited'
  <2>1. credits[loan[r]][date[r]] = 1
    BY <1>1 DEF LedgerInv, OwnerOfPendingCredit
  <2>2. StampIsCredited'
    BY <1>1, <1>3, <2>1 DEF LedgerInv, StampIsCredited, NamesChargedDay, TypeOK
  <2>3. HeldStampIsCredited'
    BY <1>1 DEF LedgerInv, HeldStampIsCredited, NamesChargedDay, Holds
  <2> QED
    BY <2>2, <2>3
<1>6. MissingInterestIsExplained'
  BY <1>1, <1>2, <1>3 DEF LedgerInv, MissingInterestIsExplained, TypeOK
<1>7. OwnerOfPendingCredit'
  BY <1>1, <1>2, <1>3 DEF LedgerInv, OwnerOfPendingCredit, RowsOf
<1> QED
  BY <1>4, <1>5, <1>6, <1>7 DEF LedgerInv

(* A saver writes back a stamp it read, or the origination date.            *)
LEMMA SaverKeepsLedger ==
  ASSUME TypeOK, LedgerInv, NEW q \in Savers, EntityStep(q)
  PROVE  LedgerInv'
<1>t. entity \in [Savers -> EntityType] /\ lastAccrualDate \in [Loans -> Int]
  BY DEF TypeOK
<1>1. UNCHANGED <<rows, credits, errors, pc, loan, date>>
  BY DEF EntityStep, EntityReads, LoadForActivation, LoadForModification, Load, Compare, Save,
         Abandon, db, local, hist
<1>3. \A x \in Savers : x # q => entity'[x] = entity[x]
  BY <1>t DEF EntityStep, EntityReads, LoadForActivation, LoadForModification, Load, Compare,
     Save, Abandon
<1>4. ASSUME NEW l \in Loans, NEW row, Load(q, l, row), NamesChargedDay(l, row.lastAccrualDate)
      PROVE  StampIsCredited' /\ HeldStampIsCredited'
  <2>1. entity'[q].loan = l /\ entity'[q].row = row /\ lastAccrualDate' = lastAccrualDate
    BY <1>4, <1>t DEF Load, db
  <2>2. StampIsCredited'
    BY <1>1, <2>1 DEF LedgerInv, StampIsCredited, NamesChargedDay
  <2>3. HeldStampIsCredited'
    BY <1>1, <1>3, <1>4, <2>1 DEF LedgerInv, HeldStampIsCredited, Holds, NamesChargedDay
  <2> QED
    BY <2>2, <2>3
<1>5. ASSUME LoadForActivation(q) PROVE StampIsCredited' /\ HeldStampIsCredited'
  <2>1. PICK l \in Loans : Load(q, l, [Stored(l) EXCEPT !.status = "ACTIVE",
                                                       !.lastAccrualDate = Origination[l]])
    BY <1>5 DEF LoadForActivation
  <2>2. [Stored(l) EXCEPT !.status = "ACTIVE", !.lastAccrualDate = Origination[l]].lastAccrualDate
          = Origination[l]
    BY DEF Stored
  <2>3. NamesChargedDay(l, Origination[l])
    BY DEF NamesChargedDay
  <2> DEFINE row == [Stored(l) EXCEPT !.status = "ACTIVE", !.lastAccrualDate = Origination[l]]
  <2>4. Load(q, l, row) /\ NamesChargedDay(l, row.lastAccrualDate)
    BY <2>1, <2>2, <2>3
  <2> HIDE DEF row
  <2> QED
    BY <1>4, <2>4
<1>6. ASSUME LoadForModification(q) PROVE StampIsCredited' /\ HeldStampIsCredited'
  <2>1. PICK l \in Loans : Load(q, l, Stored(l))
    BY <1>6 DEF LoadForModification
  <2>2. NamesChargedDay(l, Stored(l).lastAccrualDate)
    BY DEF Stored, LedgerInv, StampIsCredited
  <2> QED
    BY <1>4, <2>1, <2>2
<1>7. ASSUME Compare(q) PROVE StampIsCredited' /\ HeldStampIsCredited'
  <2>1. /\ Holds(q) /\ lastAccrualDate' = lastAccrualDate
        /\ entity'[q].loan = entity[q].loan /\ entity'[q].row = entity[q].row
    BY <1>7, <1>t DEF Compare, Holds, db, EntityType
  <2>2. HeldStampIsCredited'
    BY <1>1, <1>3, <2>1 DEF LedgerInv, HeldStampIsCredited, Holds, NamesChargedDay
  <2> QED
    BY <1>1, <2>1, <2>2 DEF LedgerInv, StampIsCredited, NamesChargedDay
<1>8. ASSUME Save(q) \/ Abandon(q) PROVE StampIsCredited' /\ HeldStampIsCredited'
  <2>1. entity'[q].at = "done"
    BY <1>8, <1>t DEF Save, Abandon, NoEntity
  <2>2. HeldStampIsCredited'
    BY <1>1, <1>3, <2>1 DEF LedgerInv, HeldStampIsCredited, Holds, NamesChargedDay
  <2>3. /\ entity[q].loan \in Loans
        /\ NamesChargedDay(entity[q].loan, entity[q].row.lastAccrualDate)
    BY <1>8 DEF Save, Abandon, Holds, TypeOK, LedgerInv, HeldStampIsCredited
  <2>4. \/ lastAccrualDate' = lastAccrualDate
        \/ lastAccrualDate' = [lastAccrualDate EXCEPT ![entity[q].loan] = entity[q].row.lastAccrualDate]
    BY <1>8 DEF Save, Abandon, db
  <2>5. StampIsCredited'
    BY <1>1, <1>t, <2>3, <2>4 DEF LedgerInv, StampIsCredited, NamesChargedDay
  <2> QED
    BY <2>2, <2>5
<1> QED
  BY <1>1, <1>5, <1>6, <1>7, <1>8, QuietStep DEF EntityStep, EntityReads, Harmless

(* Every step of every execution keeps the ledger consistent.                *)
LEMMA LedgerStep == TypeOK /\ LedgerInv /\ [Next]_vars => LedgerInv'
<1> SUFFICES ASSUME TypeOK, LedgerInv, [Next]_vars PROVE LedgerInv'
  OBVIOUS
<1>t. pc \in [Runs -> Labels] /\ date \in [Runs -> Days] /\ loan \in [Runs -> Loans \cup {NoLoan}]
  BY DEF TypeOK
<1>1. ASSUME NEW r \in Runs, Start(r) PROVE LedgerInv'
  <2>1. UNCHANGED <<rows, credits, lastAccrualDate, entity, errors>>
    BY <1>1 DEF Start, Trigger, StartBackfill, db, hist
  <2>2. \A x \in Runs : Harmless(x)
    BY <1>1, <1>t DEF Start, Trigger, StartBackfill, Goto, Harmless
  <2> QED
    BY <2>1, <2>2, QuietStep
<1>2. ASSUME NEW r \in Runs, Step(r) PROVE LedgerInv'
  <2>1. CASE ListTenant(r) \/ LastTenant(r) \/ NextLoan(r) \/ LastLoan(r)
    <3>1. UNCHANGED <<rows, credits, lastAccrualDate, entity, errors>>
      BY <2>1 DEF ListTenant, LastTenant, NextLoan, LastLoan, db, hist
    <3>2. \A x \in Runs : Harmless(x)
      BY <2>1, <1>t DEF ListTenant, LastTenant, NextLoan, LastLoan, Goto, Harmless, local
    <3> QED
      BY <3>1, <3>2, QuietStep
  <2>2. CASE CheckExisting(r) \/ ReadBalance(r)
    <3>1. UNCHANGED <<rows, credits, lastAccrualDate, entity, errors, loan>>
      BY <2>2 DEF CheckExisting, ReadBalance, db, hist
    <3>2. pc[r] \in {"check", "balance"}
      BY <2>2 DEF CheckExisting, ReadBalance
    <3>3. CASE Return(r)
      <4>1. \A x \in Runs : Harmless(x)
        BY <3>1, <3>2, <3>3, <1>t, ReturnType DEF Harmless
      <4> QED
        BY <3>1, <4>1, QuietStep
    <3>4. CASE (Goto(r, "balance") \/ Goto(r, "rate")) /\ UNCHANGED date
      <4>1. \A x \in Runs : Harmless(x)
        BY <3>1, <3>2, <3>4, <1>t DEF Goto, Harmless
      <4> QED
        BY <3>1, <4>1, QuietStep
    <3> QED
      BY <2>2, <3>3, <3>4 DEF CheckExisting, ReadBalance
  <2>3. CASE ResolveFixed(r) \/ ResolveFloating(r)
    <3>1. UNCHANGED <<rows, credits, lastAccrualDate, entity, errors>>
      BY <2>3 DEF ResolveFixed, ResolveFloating, db, hist
    <3>2. \A x \in Runs : Harmless(x)
      BY <2>3, <1>t DEF ResolveFixed, ResolveFloating, Goto, Harmless
    <3> QED
      BY <3>1, <3>2, QuietStep
  <2>4. CASE NoIndexRate(r) \/ InsertRefused(r)
    <3>1. UNCHANGED <<rows, credits, lastAccrualDate, entity>> /\ errors \subseteq errors'
      BY <2>4 DEF NoIndexRate, InsertRefused, Throw, db
    <3>2. \A x \in Runs : Harmless(x)
      BY <2>4, <1>t DEF NoIndexRate, InsertRefused, Throw, Harmless, local
    <3> QED
      BY <3>1, <3>2, QuietStep
  <2>5. CASE InsertRow(r)
    BY <2>5, InsertStep
  <2>6. CASE CreditLoan(r)
    BY <2>6, CreditStep
  <2>7. CASE StampLoan(r)
    BY <2>7, StampStep
  <2> QED
    BY <1>2, <2>1, <2>2, <2>3, <2>4, <2>5, <2>6, <2>7 DEF Step
<1>3. ASSUME NEW r \in Runs, Fault(r) PROVE LedgerInv'
  <2>1. UNCHANGED <<rows, credits, lastAccrualDate, entity>> /\ errors \subseteq errors'
    BY <1>3 DEF Fault, StatementFails, ListFails, Crash, Throw, db
  <2>2. \A x \in Runs : Harmless(x)
    <3>1. CASE StatementFails(r)
      BY <3>1, <1>t DEF StatementFails, Throw, Harmless, local, StatementPoints
    <3>2. CASE ListFails(r)
      BY <3>2 DEF ListFails, Harmless
    <3>3. CASE Crash(r)
      BY <3>3, <1>t DEF Crash, Goto, Harmless, local, EndPoints
    <3> QED
      BY <1>3, <3>1, <3>2, <3>3 DEF Fault
  <2> QED
    BY <2>1, <2>2, QuietStep
<1>4. CASE Midnight \/ (\E l \in Loans : Paid(l)) \/ UNCHANGED vars
  <2>1. UNCHANGED <<rows, credits, lastAccrualDate, entity, errors, pc, loan, date>>
    BY <1>4 DEF Midnight, Paid, vars, db, local, hist
  <2> QED
    BY <2>1, QuietStep DEF Harmless
<1>5. ASSUME NEW q \in Savers, EntityStep(q) PROVE LedgerInv'
  BY <1>5, SaverKeepsLedger
<1> QED
  BY <1>1, <1>2, <1>3, <1>4, <1>5 DEF Next

(* For any number of replicas, workers, backfills, crashes and lost         *)
(* statements: the ledger holds one row for a loan and a day, the loan is   *)
(* charged at most once for it, and last_accrual_date, like every copy of   *)
(* it a saver holds, is NULL, the origination date or a charged day.        *)
THEOREM LedgerCorrect == Spec => []LedgerInv
<1>1. Init => TypeOK /\ LedgerInv
  BY InitType, InitLedger
<1>2. TypeOK /\ LedgerInv /\ [Next]_vars => (TypeOK /\ LedgerInv)'
  BY TypeStep, LedgerStep
<1> QED
  BY <1>1, <1>2, PTL DEF Spec

(* Nobody is charged twice for a day. *)
THEOREM NeverChargedTwice == Spec => []NoDoubleCredit
<1>1. LedgerInv => NoDoubleCredit
  BY DEF LedgerInv
<1> QED
  BY <1>1, LedgerCorrect, PTL

(* last_accrual_date is NULL, the origination date that an activation puts   *)
(* there, or a day the loan was charged for, however the stamps of the       *)
(* engine, reruns and the saves of stale entities interleave.                *)
THEOREM StampsAreCredited == Spec => []StampIsCredited
<1>1. LedgerInv => StampIsCredited
  BY DEF LedgerInv
<1> QED
  BY <1>1, LedgerCorrect, PTL

(* Interest can only go missing through a killed process or a logged error. *)
THEOREM MissingInterestHasACause == Spec => []MissingInterestIsExplained
<1>1. LedgerInv => MissingInterestIsExplained
  BY DEF LedgerInv
<1> QED
  BY <1>1, LedgerCorrect, PTL

----------------------------------------------------------------------------
(* No loan is skipped in silence *)

(* What WorkInv says of one execution. *)
Work(r) ==
  /\ pc[r] = "idle" => listed[r] = {}
  /\ pc[r] \in {"idle", "tenant", "done"} => loansLeft[r] = {}
  /\ pc[r] # "crashed" =>
       \A l \in listed[r] :
         \/ Settled(r, l)
         \/ l \in loansLeft[r]
         \/ l = loan[r] /\ pc[r] \in StatementPoints

(* Rows and error records are never taken back, so a settled loan stays     *)
(* settled while the execution keeps its date.                              *)
LEMMA SettledStays ==
  ASSUME rows \subseteq rows', errors \subseteq errors',
         NEW r, date'[r] = date[r], NEW l, Settled(r, l)
  PROVE  Settled(r, l)'
BY DEF Settled, RowsOf

(* A step that leaves an execution's own variables alone. *)
LEMMA OthersStep ==
  ASSUME rows \subseteq rows', errors \subseteq errors',
         NEW x \in Runs, Work(x),
         pc'[x] = pc[x], date'[x] = date[x], loan'[x] = loan[x],
         loansLeft'[x] = loansLeft[x], listed'[x] = listed[x]
  PROVE  Work(x)'
BY SettledStays DEF Work

(* An execution ends its work on a loan it has settled. *)
LEMMA LoanDone ==
  ASSUME rows \subseteq rows', errors \subseteq errors',
         NEW r \in Runs, Work(r), pc[r] \in StatementPoints,
         date'[r] = date[r], loan'[r] = loan[r],
         loansLeft'[r] = loansLeft[r], listed'[r] = listed[r],
         pc'[r] = "loan", Settled(r, loan[r])'
  PROVE  Work(r)'
<1>1. pc[r] # "crashed" /\ pc'[r] \notin {"idle", "tenant", "done"}
  BY DEF StatementPoints
<1>2. ASSUME NEW l \in listed[r] PROVE Settled(r, l)' \/ l \in loansLeft[r]
  <2>1. CASE Settled(r, l)
    BY <2>1, SettledStays
  <2>2. CASE l = loan[r]
    BY <2>2 DEF Settled, RowsOf
  <2> QED
    BY <1>1, <2>1, <2>2 DEF Work
<1> QED
  BY <1>1, <1>2 DEF Work

(* Before it starts an execution has listed nothing.                         *)
LEMMA InitWork == Init => WorkInv
BY AccrualConstants DEF Init, WorkInv, Runs

(* Every step accounts for the loans its execution listed.                   *)
LEMMA WorkStep == TypeOK /\ LedgerInv /\ WorkInv /\ [Next]_vars => WorkInv'
<1> SUFFICES ASSUME TypeOK, LedgerInv, WorkInv, [Next]_vars, NEW x \in Nightly PROVE Work(x)'
  BY DEF WorkInv, Work
<1>t. /\ x \in Runs /\ Work(x)
      /\ pc \in [Runs -> Labels] /\ date \in [Runs -> Days]
      /\ loan \in [Runs -> Loans \cup {NoLoan}]
      /\ loansLeft \in [Runs -> SUBSET Loans] /\ listed \in [Runs -> SUBSET Loans]
  BY DEF TypeOK, WorkInv, Work, Runs
<1>1. ASSUME NEW r \in Runs, Start(r) PROVE Work(x)'
  <2>0. rows \subseteq rows' /\ errors \subseteq errors'
    BY <1>1 DEF Start, Trigger, StartBackfill, db, hist
  <2>1. CASE x = r
    <3>1. Trigger(r)
      BY <1>1, <2>1, AccrualConstants DEF Start, StartBackfill
    <3> QED
      BY <1>t, <2>1, <3>1 DEF Trigger, Goto, hist, Work
  <2>2. CASE x # r
    BY <1>1, <1>t, <2>0, <2>2, OthersStep DEF Start, Trigger, StartBackfill, Goto, hist
  <2> QED
    BY <2>1, <2>2
<1>2. ASSUME NEW r \in Runs, Step(r) PROVE Work(x)'
  <2>0. rows \subseteq rows' /\ errors \subseteq errors'
    BY <1>2 DEF Step, ListTenant, LastTenant, NextLoan, LastLoan, CheckExisting, ReadBalance,
         ResolveFixed, ResolveFloating, NoIndexRate, InsertRow, InsertRefused, CreditLoan,
         StampLoan, Throw, db, hist
  <2>1. CASE x # r
    <3>1. /\ loan'[x] = loan[x] /\ loansLeft'[x] = loansLeft[x] /\ listed'[x] = listed[x]
      BY <1>2, <1>t, <2>1 DEF Step, ListTenant, LastTenant, NextLoan, LastLoan, CheckExisting,
           ReadBalance, ResolveFixed, ResolveFloating, NoIndexRate, InsertRow, InsertRefused,
           CreditLoan, StampLoan, db, hist, local
    <3>2. pc'[x] = pc[x] /\ date'[x] = date[x]
      BY <1>2, <1>t, <2>1, ReturnType DEF Step, ListTenant, LastTenant, NextLoan, LastLoan,
           CheckExisting, ReadBalance, ResolveFixed, ResolveFloating, NoIndexRate, InsertRow,
           InsertRefused, CreditLoan, StampLoan, Throw, Goto, local
    <3> QED
      BY <1>t, <2>0, <3>1, <3>2, OthersStep
  <2>2. CASE x = r /\ ListTenant(r)
    <3>1. PICK active \in SUBSET Loans :
            /\ loansLeft' = [loansLeft EXCEPT ![r] = active]
            /\ listed' = [listed EXCEPT ![r] = @ \cup active]
      BY <2>2 DEF ListTenant
    <3>2. pc[r] = "tenant" /\ pc'[r] = "loan" /\ date' = date
      BY <1>t, <2>2 DEF ListTenant, Goto
    <3>3. ASSUME NEW l \in listed[r] PROVE Settled(r, l)'
      <4>1. Settled(r, l)
        BY <1>t, <2>2, <3>2 DEF Work, StatementPoints
      <4> QED
        BY <2>0, <3>2, <4>1, SettledStays
    <3>4. loansLeft'[r] = active /\ listed'[r] = listed[r] \cup active
      BY <1>t, <2>2, <3>1
    <3> QED
      BY <2>2, <3>2, <3>3, <3>4 DEF Work
  <2>3. CASE x = r /\ (LastTenant(r) \/ LastLoan(r))
    BY <1>t, <2>0, <2>3, SettledStays DEF LastTenant, LastLoan, Goto, local, hist, Work, StatementPoints
  <2>4. CASE x = r /\ NextLoan(r)
    <3>1. PICK l \in loansLeft[r] :
            /\ loan' = [loan EXCEPT ![r] = l]
            /\ loansLeft' = [loansLeft EXCEPT ![r] = @ \ {l}]
      BY <2>4 DEF NextLoan
    <3>2. pc[r] = "loan" /\ pc'[r] = "check" /\ date' = date /\ listed' = listed
      BY <1>t, <2>4 DEF NextLoan, Goto, hist
    <3>3. loan'[r] = l /\ loansLeft'[r] = loansLeft[r] \ {l}
      BY <1>t, <2>4, <3>1
    <3>4. ASSUME NEW k \in listed[r]
          PROVE  Settled(r, k)' \/ k \in loansLeft'[r] \/ k = loan'[r]
      <4>1. Settled(r, k) \/ k \in loansLeft[r]
        BY <1>t, <2>4, <3>2 DEF Work, StatementPoints
      <4> QED
        BY <2>0, <3>2, <3>3, <4>1, SettledStays
    <3> QED
      BY <2>4, <3>2, <3>4 DEF Work, StatementPoints
  <2>5. CASE x = r /\ (CheckExisting(r) \/ ReadBalance(r)) /\ Return(r)
    <3>1. /\ pc[r] \in StatementPoints /\ pc'[r] = "loan" /\ date'[r] = date[r]
          /\ loansLeft' = loansLeft /\ listed' = listed /\ rows' = rows /\ loan' = loan
      BY <2>5, ReturnType DEF CheckExisting, ReadBalance, StatementPoints, db, hist
    <3>3. Settled(r, loan[r])'
      <4>1. loan[r] \in Loans /\ date[r] \in Days /\ Disbursed[loan[r]][date[r]] \in Nat
        BY <1>t, <3>1, AccrualConstants DEF TypeOK
      <4>2. CASE CheckExisting(r)
        <5>1. RowsOf(loan[r], date[r]) # {}
          BY <2>5, <3>1, <4>2, <1>t DEF CheckExisting, Goto
        <5> QED
          BY <4>2, <5>1, <3>1 DEF Settled, RowsOf, CheckExisting
      <4>3. CASE ReadBalance(r)
        <5>1. Disbursed[loan[r]][date[r]] <= 0
          BY <2>5, <3>1, <4>3, <1>t DEF ReadBalance, Goto, TypeOK
        <5> QED
          BY <4>1, <4>3, <5>1, <3>1 DEF Settled, ReadBalance
      <4> QED
        BY <2>5, <4>2, <4>3
    <3> QED
      BY <1>t, <2>0, <2>5, <3>1, <3>3, LoanDone
  <2>6. CASE x = r /\ ((CheckExisting(r) /\ Goto(r, "balance")) \/ (ReadBalance(r) /\ Goto(r, "rate"))
                      \/ ResolveFixed(r) \/ ResolveFloating(r) \/ InsertRow(r) \/ CreditLoan(r))
    <3>1. /\ pc[r] \in StatementPoints /\ pc'[r] \in StatementPoints
          /\ pc'[r] \notin {"idle", "tenant", "done"}
      BY <1>t, <2>6 DEF CheckExisting, ReadBalance, ResolveFixed, ResolveFloating, InsertRow,
           CreditLoan, Goto, StatementPoints
    <3>2. loan' = loan /\ loansLeft' = loansLeft /\ listed' = listed
      BY <2>6 DEF CheckExisting, ReadBalance, ResolveFixed, ResolveFloating, InsertRow,
           CreditLoan, local, hist
    <3>3. date' = date
      <4>1. CASE CheckExisting(r) /\ Goto(r, "balance")
        BY <1>t, <2>6, <4>1, ReturnType DEF CheckExisting, Goto
      <4>2. CASE ReadBalance(r) /\ Goto(r, "rate")
        BY <1>t, <2>6, <4>2, ReturnType DEF ReadBalance, Goto
      <4> QED
        BY <2>6, <4>1, <4>2 DEF ResolveFixed, ResolveFloating, InsertRow, CreditLoan, local
    <3>4. ASSUME NEW l \in listed[r]
          PROVE  Settled(r, l)' \/ l \in loansLeft[r] \/ l = loan[r]
      BY <1>t, <2>0, <2>6, <3>1, <3>3, SettledStays DEF Work, StatementPoints
    <3> QED
      BY <2>6, <3>1, <3>2, <3>4, <1>t DEF Work, StatementPoints
  <2>7. CASE x = r /\ (NoIndexRate(r) \/ InsertRefused(r))
    <3>1. /\ pc[r] \in StatementPoints /\ pc'[r] = "loan" /\ date'[r] = date[r]
          /\ loansLeft' = loansLeft /\ listed' = listed /\ loan' = loan
          /\ <<r, loan[r], date[r]>> \in errors'
      BY <1>t, <2>7 DEF NoIndexRate, InsertRefused, Throw, StatementPoints, local
    <3>2. Settled(r, loan[r])'
      BY <3>1 DEF Settled
    <3> QED
      BY <1>t, <2>0, <2>7, <3>1, <3>2, LoanDone
  <2>8. CASE x = r /\ StampLoan(r)
    <3>1. /\ pc[r] = "stamp" /\ pc'[r] = "loan" /\ date'[r] = date[r]
          /\ loansLeft' = loansLeft /\ listed' = listed /\ rows' = rows /\ loan' = loan
      BY <2>8, ReturnType DEF StampLoan, hist
    <3>2. RowsOf(loan[r], date[r]) # {}
      <4>1. credits[loan[r]][date[r]] = 1 /\ loan[r] \in Loans /\ date[r] \in Days
        BY <1>t, <3>1 DEF LedgerInv, OwnerOfPendingCredit, TypeOK, StatementPoints
      <4> QED
        BY <4>1 DEF LedgerInv, NoDoubleCredit
    <3>3. Settled(r, loan[r])'
      BY <2>8, <3>1, <3>2 DEF Settled, RowsOf, StampLoan
    <3> QED
      BY <1>t, <2>0, <2>8, <3>1, <3>3, LoanDone DEF StatementPoints
  <2>9. ASSUME x = r, CheckExisting(r) \/ ReadBalance(r) PROVE Work(x)'
    BY <2>9, <2>5, <2>6 DEF CheckExisting, ReadBalance
  <2> QED
    BY <1>2, <2>1, <2>2, <2>3, <2>4, <2>6, <2>7, <2>8, <2>9 DEF Step
<1>3. ASSUME NEW r \in Runs, Fault(r) PROVE Work(x)'
  <2>0. rows \subseteq rows' /\ errors \subseteq errors'
    BY <1>3 DEF Fault, StatementFails, ListFails, Crash, Throw, db
  <2>1. CASE x # r
    BY <1>3, <1>t, <2>0, <2>1, OthersStep DEF Fault, StatementFails, ListFails, Crash, Throw, Goto, local
  <2>2. CASE x = r /\ StatementFails(r)
    <3>1. /\ pc[r] \in StatementPoints /\ pc'[r] = "loan" /\ date'[r] = date[r]
          /\ loansLeft' = loansLeft /\ listed' = listed /\ loan' = loan
          /\ <<r, loan[r], date[r]>> \in errors'
      BY <1>t, <2>2 DEF StatementFails, Throw, local
    <3>2. Settled(r, loan[r])'
      BY <3>1 DEF Settled
    <3> QED
      BY <1>t, <2>0, <2>2, <3>1, <3>2, LoanDone
  <2>3. CASE x = r /\ ListFails(r)
    BY <1>t, <2>0, <2>3, OthersStep DEF ListFails
  <2>4. CASE x = r /\ Crash(r)
    BY <1>t, <2>4 DEF Crash, Goto, Work
  <2> QED
    BY <1>3, <2>1, <2>2, <2>3, <2>4 DEF Fault
<1>4. CASE \/ Midnight \/ (\E l \in Loans : Paid(l)) \/ (\E q \in Savers : EntityStep(q))
           \/ UNCHANGED vars
  <2>1. UNCHANGED <<rows, errors, pc, date, loan, loansLeft, listed>>
    BY <1>4 DEF Midnight, Paid, EntityStep, EntityReads, LoadForActivation, LoadForModification,
       Load, Compare, Save, Abandon, vars, db, local, hist
  <2> QED
    BY <1>t, <2>1, OthersStep
<1> QED
  BY <1>1, <1>2, <1>3, <1>4 DEF Next

(* The work of an execution is never lost between its lists: every loan it  *)
(* read is settled, waiting, or in hand.                                    *)
THEOREM WorkIsAccountedFor == Spec => []WorkInv
<1>1. Init => TypeOK /\ LedgerInv /\ WorkInv
  BY InitType, InitLedger, InitWork
<1>2. TypeOK /\ LedgerInv /\ WorkInv /\ [Next]_vars => (TypeOK /\ LedgerInv /\ WorkInv)'
  BY TypeStep, LedgerStep, WorkStep
<1> QED
  BY <1>1, <1>2, PTL DEF Spec

(* The per-loan and per-tenant catch blocks swallow errors, but no loan the *)
(* nightly query returned is ever dropped without a row or a log record.    *)
THEOREM NothingSkippedInSilence == Spec => []NoSilentSkip
<1>1. WorkInv => NoSilentSkip
  BY DEF WorkInv, NoSilentSkip, StatementPoints
<1> QED
  BY <1>1, WorkIsAccountedFor, PTL
=============================================================================
