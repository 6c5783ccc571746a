----------------------------- MODULE Servicing -----------------------------
(***************************************************************************)
(* Interest and payments of the same loans: the accrual engine and the     *)
(* savers of Accrual beside applyPayment and reversePayment                *)
(* (payment.service.ts), reduced to what they share, the columns           *)
(* accrued_interest and status.                                            *)
(*                                                                         *)
(* The engine and a reversal add to the column in one statement; a payment *)
(* reads it, works, and writes the difference; a saver may write back what *)
(* it read.  From its UPDATE to its COMMIT a transaction holds the row of  *)
(* the loan, so nobody else writes it and nobody sees it: for all others   *)
(* the two are one step, at the commit.                                    *)
(***************************************************************************)
EXTENDS Accrual, Functions

CONSTANTS
  Cashiers,   \* sessions that apply a payment
  Reversers,  \* sessions that reverse a payment
  Shares      \* amounts a payment allocates to the bucket INTEREST

ASSUME ServicingConstants ==
  Shares \subseteq Nat /\ Cashiers \cap Savers = {}

VARIABLES
  pay,        \* the session and the payment of each cashier
  undo,       \* the session of each reversal and the payment it has read
  steady,     \* history: loans ACTIVE ever since a nightly execution started
  paid,       \* history: interest shares of the payments in force
  missed,     \* history: who wrote the column after an open session read it
  lost,       \* history: what wrote accrued_interest and was overwritten
  clamped,    \* history: loans a payment took more interest from than they owed
  twice       \* history: loans that got the share of one payment back again

loanHist == <<paid, lost, clamped, twice>>
payVars  == <<pay, undo, missed, loanHist>>
svars    == <<vars, payVars, steady>>

Readers  == Cashiers \cup Savers
Writers  == {"accrual", "payment", "reversal", "save"}
PayState == [at : {"idle", "read", "applied", "rolledback", "reversed"},
             loan : Loans \cup {NoLoan}, owed : Nat, was : Statuses, share : Nat]

ServicingInit ==
  /\ Init
  /\ pay = [p \in Cashiers |-> [at |-> "idle", loan |-> NoLoan, owed |-> 0, was |-> "PENDING",
                                share |-> 0]]
  /\ undo = [v \in Reversers |-> [at |-> "idle"]]
  /\ steady = [r \in Nightly |-> {}]
  /\ paid = [l \in Loans |-> 0]
  /\ missed = [q \in Readers |-> {}]
  /\ lost = [l \in Loans |-> {}]
  /\ clamped = {} /\ twice = {}

----------------------------------------------------------------------------
(* The sessions that have read a loan and not yet written it hear of a      *)
(* write they will not see; the writer itself is through.                   *)
Reading(q, l) ==
  \/ q \in Cashiers /\ pay[q].at = "read" /\ pay[q].loan = l
  \/ q \in Savers /\ Holds(q) /\ entity[q].loan = l

Heard(l, writer) ==
  [q \in Readers |-> IF Reading(q, l) THEN missed[q] \cup {writer} ELSE missed[q]]

engine == <<indexRate, rows, lastAccrualDate, today, entity, pc, local, hist>>

(* applyPayment up to its update: the loan is read, the rest is computed.   *)
ReadLoan(p) ==
  /\ pay[p].at = "idle"
  /\ \E l \in Loans, s \in Shares :
       /\ status[l] \in Open
       /\ pay' = [pay EXCEPT ![p] = [at |-> "read", loan |-> l, owed |-> accrued[l],
                                     was |-> status[l], share |-> s]]
  /\ UNCHANGED <<engine, accrued, status, undo, missed, loanHist>>

(* What the payment writes: Math.max(0, interest owed at its read - share). *)

\* slips: no clamp; the share is not taken off; an increment by what was read
NewAccruedUnclamped(p) == pay[p].owed - pay[p].share
NewAccruedFull(p)      == pay[p].owed
NewAccruedOnTop(p)     == accrued[pay[p].loan] + pay[p].owed

NewAccrued(p) ==
  IF pay[p].share >= pay[p].owed THEN 0 ELSE pay[p].owed - pay[p].share

(* The balances are written, the delinquency refreshed, the transaction     *)
(* commits.  Whether the balance reaches zero and an installment is still   *)
(* OVERDUE depends on what Payments models; both cases happen here.         *)
Apply(p) ==
  LET l == pay[p].loan IN
  /\ pay[p].at = "read"
  /\ accrued' = [accrued EXCEPT ![l] = NewAccrued(p)]
  /\ \E overdue, zero \in BOOLEAN :
       status' = [status EXCEPT ![l] =
                    IF ~overdue THEN "CURRENT" ELSE IF zero THEN "PAID_OFF" ELSE pay[p].was]
  /\ pay' = [pay EXCEPT ![p].at = "applied"]
  /\ paid' = [paid EXCEPT ![l] = @ + pay[p].share]
  /\ missed' = [Heard(l, "payment") EXCEPT ![p] = {}]
  /\ lost' = [lost EXCEPT ![l] = @ \cup missed[p]]
  /\ clamped' = IF pay[p].share > pay[p].owed THEN clamped \cup {l} ELSE clamped
  /\ UNCHANGED <<engine, undo, twice>>

(* A refused allocation, a failing statement: everything is as before.      *)
RollBack(p) ==
  /\ pay[p].at = "read"
  /\ pay' = [pay EXCEPT ![p].at = "rolledback"]
  /\ missed' = [missed EXCEPT ![p] = {}]
  /\ UNCHANGED <<engine, accrued, status, undo, loanHist>>

(* reversePayment reads the payment and checks that it is APPLIED ...       *)
ReadPayment(v) ==
  /\ undo[v].at = "idle"
  /\ \E p \in Cashiers :
       /\ pay[p].at = "applied"
       /\ undo' = [undo EXCEPT ![v] = [at |-> "read", payment |-> p]]
  /\ UNCHANGED <<engine, accrued, status, pay, missed, loanHist>>

(* ... then increments the column by the whole allocation, marks the        *)
(* payment and commits, whatever became of the payment in between; the      *)
(* status of the loan it leaves alone.                                      *)
Reverse(v) ==
  LET p == undo[v].payment
      l == pay[p].loan
  IN
  /\ undo[v].at = "read"
  /\ accrued' = [accrued EXCEPT ![l] = @ + pay[p].share]
  /\ undo' = [undo EXCEPT ![v] = [at |-> "done"]]
  /\ pay' = [pay EXCEPT ![p].at = "reversed"]
  /\ missed' = Heard(l, "reversal")
  /\ IF pay[p].at = "reversed"
       THEN twice' = twice \cup {l} /\ UNCHANGED paid
       ELSE paid' = [paid EXCEPT ![l] = @ - pay[p].share] /\ UNCHANGED twice
  /\ UNCHANGED <<engine, status, lost, clamped>>

GiveUpReversal(v) ==
  /\ undo[v].at = "read"
  /\ undo' = [undo EXCEPT ![v] = [at |-> "done"]]
  /\ UNCHANGED <<engine, accrued, status, pay, missed, loanHist>>

----------------------------------------------------------------------------
(* A request that saves a loan: what it writes into the column is what it   *)
(* read, if that is no longer there.                                        *)
SaverStep(q) ==
  /\ EntityStep(q)
  /\ LET l == entity[q].loan
         writes == Save(q) /\ "accrued" \in entity[q].cols
     IN
     /\ missed' = IF EntityReads(q) THEN missed
                  ELSE [(IF writes THEN Heard(l, "save") ELSE missed) EXCEPT ![q] = {}]
     /\ lost' = IF writes THEN [lost EXCEPT ![l] = @ \cup missed[q]] ELSE lost
  /\ UNCHANGED <<pay, undo, paid, clamped, twice>>

(* A step of the engine; its increment is a write open sessions miss.       *)
EngineStep(r) ==
  /\ Start(r) \/ Step(r) \/ Fault(r)
  /\ missed' = IF accrued' = accrued THEN missed ELSE Heard(loan[r], "accrual")
  /\ UNCHANGED <<pay, undo, loanHist>>

DayPasses == Midnight /\ UNCHANGED payVars

StillActive ==
  steady' = [r \in Nightly |->
               IF pc[r] = "idle"
                 THEN IF pc'[r] = "idle" THEN {} ELSE {l \in Loans : status[l] = "ACTIVE"}
                 ELSE {l \in steady[r] : status'[l] = "ACTIVE"}]

ServicingNext ==
  /\ \/ \E p \in Cashiers : ReadLoan(p) \/ Apply(p) \/ RollBack(p)
     \/ \E v \in Reversers : ReadPayment(v) \/ Reverse(v) \/ GiveUpReversal(v)
     \/ \E q \in Savers : SaverStep(q)
     \/ \E r \in Runs : EngineStep(r)
     \/ DayPasses
  /\ StillActive

ServicingSpec == ServicingInit /\ [][ServicingNext]_svars

----------------------------------------------------------------------------
(* Properties *)

ServicingTypeOK ==
  /\ TypeOK
  /\ pay \in [Cashiers -> PayState]
  /\ \A p \in Cashiers : pay[p].at # "idle" => pay[p].loan \in Loans
  /\ undo \in [Reversers -> [at : {"idle", "done"}] \cup [at : {"read"}, payment : Cashiers]]
  /\ \A v \in Reversers :
       undo[v].at = "read" => pay[undo[v].payment].at \in {"applied", "reversed"}
  /\ missed \in [Readers -> SUBSET Writers]
  /\ steady \in [Nightly -> SUBSET Loans]
  /\ paid \in [Loans -> Int]
  /\ lost \in [Loans -> SUBSET Writers]
  /\ clamped \subseteq Loans /\ twice \subseteq Loans

(* The nightly job lists only ACTIVE loans and every payment makes a loan   *)
(* CURRENT; still, a loan that stays ACTIVE from the start of the execution *)
(* to its end is accrued for the night, or logged, when nothing fails.      *)
NightCoversActiveLoans ==
  \A r \in Nightly :
    pc[r] = "done" /\ faults = 0 => \A l \in steady[r] : Settled(r, l)

(* The rows of the ledger whose interest was added to the loan, and its sum. *)
CreditedRows(l) == {a \in rows : a.loan = l /\ credits[l][a.date] > 0}
Credited(l) == SumFunctionOnSet([a \in rows |-> a.amount], CreditedRows(l))

(* accrued_interest is what the ledger charged minus the shares of the      *)
(* payments in force, whoever runs at the same time: as long as no payment  *)
(* and no save wrote over something that came after its read, no payment    *)
(* took more interest than was owed, and none was given back twice.         *)
InterestBalances ==
  \A l \in Loans :
    lost[l] = {} /\ l \notin clamped \cup twice => accrued[l] = Credited(l) - paid[l]

(* What a payment or a save writes over, a night's increment, a reversal or *)
(* another save, is lost to the lender: the borrower owes more than the     *)
(* ledger says only if it was a payment that was written over, a bucket was *)
(* overpaid and reversed, or a payment was given back twice.                *)
OverwritesFavourTheBorrower ==
  \A l \in Loans :
    "payment" \notin lost[l] /\ l \notin clamped \cup twice
      => accrued[l] <= Credited(l) - paid[l]
=============================================================================
