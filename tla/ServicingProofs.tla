-------------------------- MODULE ServicingProofs --------------------------
(* Payments and reversals beside the accrual engine leave its ledger        *)
(* invariant alone, for any number of sessions, loans and executions: the   *)
(* theorems of AccrualProofs carry over to the composition.                 *)
EXTENDS Servicing, AccrualProofs, SumTheorems

CashierStep(p)  == ReadLoan(p) \/ Apply(p) \/ RollBack(p)
ReverserStep(v) == ReadPayment(v) \/ Reverse(v) \/ GiveUpReversal(v)

(* The initial states have their types.                                      *)
LEMMA InitServicingType == ServicingInit => ServicingTypeOK
<1> SUFFICES ASSUME ServicingInit PROVE ServicingTypeOK
  OBVIOUS
<1>1. TypeOK
  BY InitType DEF ServicingInit
<1>2. [at |-> "idle", loan |-> NoLoan, owed |-> 0, was |-> "PENDING", share |-> 0] \in PayState
  BY DEF PayState, Statuses
<1>3. /\ pay \in [Cashiers -> PayState]
      /\ \A p \in Cashiers : pay[p].at = "idle"
  BY <1>2 DEF ServicingInit
<1>4. lost \in [Loans -> SUBSET Writers] /\ steady \in [Nightly -> SUBSET Loans]
      /\ missed \in [Readers -> SUBSET Writers]
  BY DEF ServicingInit
<1>5. paid \in [Loans -> Int] /\ clamped \subseteq Loans /\ twice \subseteq Loans
  BY DEF ServicingInit
<1>6. /\ undo \in [Reversers -> [at : {"idle", "done"}] \cup [at : {"read"}, payment : Cashiers]]
      /\ \A v \in Reversers : undo[v].at # "read"
  BY DEF ServicingInit
<1> QED
  BY <1>1, <1>3, <1>4, <1>5, <1>6 DEF ServicingTypeOK

(* What the sessions hear are names of writers.                             *)
LEMMA HeardType ==
  ASSUME ServicingTypeOK, NEW l, NEW w \in Writers
  PROVE  Heard(l, w) \in [Readers -> SUBSET Writers]
BY DEF Heard, ServicingTypeOK

(* A step of a payment writes accrued_interest and the status and nothing   *)
(* else of the engine.                                                      *)
LEMMA CashierType ==
  ASSUME ServicingTypeOK, NEW p \in Cashiers, CashierStep(p)
  PROVE  /\ accrued' \in [Loans -> Nat] /\ status' \in [Loans -> Statuses]
         /\ pay' \in [Cashiers -> PayState]
         /\ \A q \in Cashiers : pay'[q].at # "idle" => pay'[q].loan \in Loans
         /\ \A q \in Cashiers : pay[q].at \in {"applied", "reversed"} => pay'[q].at = pay[q].at
         /\ missed' \in [Readers -> SUBSET Writers]
         /\ paid' \in [Loans -> Int] /\ lost' \in [Loans -> SUBSET Writers]
         /\ clamped' \subseteq Loans /\ twice' \subseteq Loans /\ undo' = undo
<1> USE ServicingConstants
<1>1. pay[p] \in PayState /\ (pay[p].at # "idle" => pay[p].loan \in Loans)
  BY DEF ServicingTypeOK
<1>r. p \in Readers
  BY DEF Readers
<1>2. CASE ReadLoan(p)
  <2>1. PICK l \in Loans, s \in Shares :
          pay' = [pay EXCEPT ![p] = [at |-> "read", loan |-> l, owed |-> accrued[l],
                                     was |-> status[l], share |-> s]]
    BY <1>2 DEF ReadLoan
  <2>2. [at |-> "read", loan |-> l, owed |-> accrued[l], was |-> status[l], share |-> s] \in PayState
    BY DEF PayState, ServicingTypeOK, TypeOK
  <2>3. pay[p].at = "idle"
    BY <1>2 DEF ReadLoan
  <2>4. pay' \in [Cashiers -> PayState] /\ pay'[p].loan = l /\ \A q \in Cashiers : q # p => pay'[q] = pay[q]
    BY <2>1, <2>2 DEF ServicingTypeOK
  <2>5. UNCHANGED <<accrued, status, undo, missed, paid, lost, clamped, twice>>
    BY <1>2 DEF ReadLoan, loanHist
  <2> QED
    BY <2>3, <2>4, <2>5 DEF ServicingTypeOK, TypeOK
<1>3. CASE Apply(p)
  <2> DEFINE l == pay[p].loan
  <2>1. /\ l \in Loans /\ pay[p].owed \in Nat /\ pay[p].share \in Nat
        /\ pay[p].was \in Statuses /\ missed[p] \in SUBSET Writers
    BY <1>1, <1>3, <1>r DEF Apply, PayState, ServicingTypeOK
  <2>2. NewAccrued(p) \in Nat
    BY <2>1 DEF NewAccrued
  <2>3. accrued' \in [Loans -> Nat] /\ status' \in [Loans -> Statuses]
    BY <1>3, <2>1, <2>2 DEF Apply, Statuses, ServicingTypeOK, TypeOK
  <2>4. [pay[p] EXCEPT !.at = "applied"] \in PayState
        /\ [pay[p] EXCEPT !.at = "applied"].loan = l
    BY <1>1 DEF PayState
  <2>5. pay' = [pay EXCEPT ![p] = [pay[p] EXCEPT !.at = "applied"]] /\ pay[p].at = "read"
    BY <1>3 DEF Apply
  <2>6. /\ pay' \in [Cashiers -> PayState]
        /\ \A q \in Cashiers : pay'[q].at # "idle" => pay'[q].loan \in Loans
        /\ \A q \in Cashiers : pay[q].at \in {"applied", "reversed"} => pay'[q].at = pay[q].at
    BY <2>1, <2>4, <2>5 DEF ServicingTypeOK
  <2>7. paid' \in [Loans -> Int]
    BY <1>3, <2>1 DEF Apply, ServicingTypeOK
  <2>8. lost' \in [Loans -> SUBSET Writers] /\ clamped' \subseteq Loans
    BY <1>3, <2>1 DEF Apply, ServicingTypeOK
  <2>9. missed' \in [Readers -> SUBSET Writers]
    BY <1>3, <1>r, HeardType DEF Apply, Writers
  <2> QED
    BY <1>3, <2>3, <2>6, <2>7, <2>8, <2>9 DEF Apply, ServicingTypeOK
<1>4. CASE RollBack(p)
  <2>1. [pay[p] EXCEPT !.at = "rolledback"] \in PayState
        /\ [pay[p] EXCEPT !.at = "rolledback"].loan = pay[p].loan
    BY <1>1 DEF PayState
  <2>2. pay[p].loan \in Loans /\ pay[p].at = "read"
        /\ pay' = [pay EXCEPT ![p] = [pay[p] EXCEPT !.at = "rolledback"]]
    BY <1>1, <1>4 DEF RollBack
  <2>3. missed' \in [Readers -> SUBSET Writers]
    BY <1>4, <1>r DEF RollBack, ServicingTypeOK
  <2>4. UNCHANGED <<accrued, status, undo, paid, lost, clamped, twice>>
    BY <1>4 DEF RollBack, loanHist
  <2> QED
    BY <2>1, <2>2, <2>3, <2>4 DEF ServicingTypeOK, TypeOK
<1> QED
  BY <1>2, <1>3, <1>4 DEF CashierStep

(* A step of a reversal writes accrued_interest and marks its payment.      *)
LEMMA ReverserType ==
  ASSUME ServicingTypeOK, NEW v \in Reversers, ReverserStep(v)
  PROVE  /\ accrued' \in [Loans -> Nat] /\ status' = status
         /\ pay' \in [Cashiers -> PayState]
         /\ \A q \in Cashiers : pay'[q].at # "idle" => pay'[q].loan \in Loans
         /\ undo' \in [Reversers -> [at : {"idle", "done"}] \cup [at : {"read"}, payment : Cashiers]]
         /\ \A x \in Reversers :
              undo'[x].at = "read" => pay'[undo'[x].payment].at \in {"applied", "reversed"}
         /\ missed' \in [Readers -> SUBSET Writers]
         /\ paid' \in [Loans -> Int] /\ lost' = lost /\ clamped' = clamped
         /\ twice' \subseteq Loans
<1> DEFINE UndoState == [at : {"idle", "done"}] \cup [at : {"read"}, payment : Cashiers]
<1>t. undo \in [Reversers -> UndoState] /\ pay \in [Cashiers -> PayState]
  BY DEF ServicingTypeOK
<1>d. [at |-> "done"] \in UndoState /\ \A p \in Cashiers : [at |-> "read", payment |-> p] \in UndoState
  OBVIOUS
<1>1. CASE ReadPayment(v)
  <2>1. PICK p \in Cashiers :
          pay[p].at = "applied" /\ undo' = [undo EXCEPT ![v] = [at |-> "read", payment |-> p]]
    BY <1>1 DEF ReadPayment
  <2>2. UNCHANGED <<accrued, status, pay, missed, paid, lost, clamped, twice>>
    BY <1>1 DEF ReadPayment, loanHist
  <2>3. undo' \in [Reversers -> UndoState]
    BY <1>t, <1>d, <2>1
  <2>4. \A x \in Reversers :
          undo'[x].at = "read" => pay'[undo'[x].payment].at \in {"applied", "reversed"}
    BY <1>t, <2>1, <2>2 DEF ServicingTypeOK
  <2> QED
    BY <2>2, <2>3, <2>4 DEF ServicingTypeOK, TypeOK
<1>2. CASE Reverse(v)
  <2> DEFINE p == undo[v].payment
             l == pay[p].loan
  <2>1. undo[v].at = "read" /\ p \in Cashiers /\ pay[p].at \in {"applied", "reversed"}
    BY <1>2, <1>t DEF Reverse, ServicingTypeOK
  <2>2. pay[p] \in PayState /\ l \in Loans /\ pay[p].share \in Nat
    BY <1>t, <2>1 DEF ServicingTypeOK, PayState
  <2>3. accrued' \in [Loans -> Nat] /\ paid' \in [Loans -> Int] /\ twice' \subseteq Loans
    BY <1>2, <2>2 DEF Reverse, ServicingTypeOK, TypeOK
  <2>4. [pay[p] EXCEPT !.at = "reversed"] \in PayState /\ [pay[p] EXCEPT !.at = "reversed"].loan = l
        /\ [pay[p] EXCEPT !.at = "reversed"].at = "reversed"
    BY <2>2 DEF PayState
  <2>5. pay' = [pay EXCEPT ![p] = [pay[p] EXCEPT !.at = "reversed"]]
        /\ undo' = [undo EXCEPT ![v] = [at |-> "done"]]
    BY <1>2 DEF Reverse
  <2>6. /\ pay' \in [Cashiers -> PayState]
        /\ \A q \in Cashiers : pay'[q].at # "idle" => pay'[q].loan \in Loans
        /\ \A q \in Cashiers : pay[q].at \in {"applied", "reversed"}
                                 => pay'[q].at \in {"applied", "reversed"}
    BY <2>1, <2>2, <2>4, <2>5 DEF ServicingTypeOK
  <2>7. undo' \in [Reversers -> UndoState]
    BY <1>t, <1>d, <2>5
  <2>8. \A x \in Reversers :
          undo'[x].at = "read" => pay'[undo'[x].payment].at \in {"applied", "reversed"}
    <3> SUFFICES ASSUME NEW x \in Reversers, undo'[x].at = "read"
                 PROVE  pay'[undo'[x].payment].at \in {"applied", "reversed"}
      OBVIOUS
    <3>1. undo'[x] = undo[x]
      BY <1>t, <2>5
    <3>2. undo[x].payment \in Cashiers /\ pay[undo[x].payment].at \in {"applied", "reversed"}
      BY <1>t, <3>1 DEF ServicingTypeOK
    <3> QED
      BY <2>6, <3>1, <3>2
  <2>9. missed' \in [Readers -> SUBSET Writers]
    BY <1>2, HeardType DEF Reverse, Writers
  <2> QED
    BY <1>2, <2>3, <2>6, <2>7, <2>8, <2>9 DEF Reverse
<1>3. CASE GiveUpReversal(v)
  <2>1. undo' = [undo EXCEPT ![v] = [at |-> "done"]]
    BY <1>3 DEF GiveUpReversal
  <2>2. UNCHANGED <<accrued, status, pay, missed, paid, lost, clamped, twice>>
    BY <1>3 DEF GiveUpReversal, loanHist
  <2>3. undo' \in [Reversers -> UndoState]
    BY <1>t, <1>d, <2>1
  <2>4. \A x \in Reversers :
          undo'[x].at = "read" => pay'[undo'[x].payment].at \in {"applied", "reversed"}
    BY <1>t, <2>1, <2>2 DEF ServicingTypeOK
  <2> QED
    BY <2>2, <2>3, <2>4 DEF ServicingTypeOK, TypeOK
<1> QED
  BY <1>1, <1>2, <1>3 DEF ReverserStep

(* Every step of the engine, of a saver and of the sessions that pay and    *)
(* reverse keeps types and ledger.                                          *)
LEMMA ServicingStep ==
  ServicingTypeOK /\ LedgerInv /\ [ServicingNext]_svars => (ServicingTypeOK /\ LedgerInv)'
<1> SUFFICES ASSUME ServicingTypeOK, LedgerInv, [ServicingNext]_svars
             PROVE  ServicingTypeOK' /\ LedgerInv'
  OBVIOUS
<1>0. TypeOK
  BY DEF ServicingTypeOK
<1>s. ASSUME StillActive PROVE steady' \in [Nightly -> SUBSET Loans]
  BY <1>s DEF StillActive, ServicingTypeOK
<1>e. ASSUME UNCHANGED engine, accrued' \in [Loans -> Nat], status' \in [Loans -> Statuses]
      PROVE  TypeOK' /\ LedgerInv'
  <2>1. TypeOK'
    BY <1>0, <1>e, EntitiesStay DEF TypeOK, engine, local, hist
  <2>2. LedgerInv'
    BY <1>0, <1>e, QuietStep DEF engine, local, hist, Harmless, TypeOK
  <2> QED
    BY <2>1, <2>2
<1>1. ASSUME NEW p \in Cashiers, CashierStep(p), StillActive PROVE ServicingTypeOK' /\ LedgerInv'
  <2>1. UNCHANGED engine
    BY <1>1 DEF CashierStep, ReadLoan, Apply, RollBack
  <2>2. TypeOK' /\ LedgerInv'
    BY <1>1, <1>e, <2>1, CashierType
  <2>3. ServicingTypeOK'
    BY <1>1, <1>s, <2>2, CashierType DEF ServicingTypeOK
  <2> QED
    BY <2>2, <2>3
<1>2. ASSUME NEW v \in Reversers, ReverserStep(v), StillActive PROVE ServicingTypeOK' /\ LedgerInv'
  <2>1. UNCHANGED engine
    BY <1>2 DEF ReverserStep, ReadPayment, Reverse, GiveUpReversal
  <2>2. TypeOK' /\ LedgerInv'
    BY <1>0, <1>2, <1>e, <2>1, ReverserType DEF TypeOK
  <2>3. ServicingTypeOK'
    BY <1>2, <1>s, <2>2, ReverserType DEF ServicingTypeOK
  <2> QED
    BY <2>2, <2>3
<1>3. ASSUME NEW r \in Runs, EngineStep(r), StillActive PROVE ServicingTypeOK' /\ LedgerInv'
  <2>1. TypeOK' /\ LedgerInv'
    BY <1>0, <1>3, TypeStep, LedgerStep DEF EngineStep, Next
  <2>2. missed' \in [Readers -> SUBSET Writers]
    BY <1>3, HeardType DEF EngineStep, ServicingTypeOK, Writers
  <2> QED
    BY <1>3, <1>s, <2>1, <2>2 DEF EngineStep, ServicingTypeOK, loanHist
<1>4. ASSUME NEW q \in Savers, SaverStep(q), StillActive PROVE ServicingTypeOK' /\ LedgerInv'
  <2>1. TypeOK' /\ LedgerInv'
    BY <1>0, <1>4, TypeStep, LedgerStep DEF SaverStep, Next
  <2>2. missed' \in [Readers -> SUBSET Writers]
    <3>1. Heard(entity[q].loan, "save") \in [Readers -> SUBSET Writers]
      BY HeardType DEF Writers
    <3>2. missed \in [Readers -> SUBSET Writers] /\ {} \in SUBSET Writers
      BY DEF ServicingTypeOK
    <3> QED
      BY <1>4, <3>1, <3>2 DEF SaverStep
  <2>3. lost' \in [Loans -> SUBSET Writers]
    <3>1. q \in Readers
      BY DEF Readers
    <3> QED
      BY <1>4, <3>1 DEF SaverStep, ServicingTypeOK
  <2> QED
    BY <1>4, <1>s, <2>1, <2>2, <2>3 DEF SaverStep, ServicingTypeOK
<1>5. ASSUME DayPasses, StillActive PROVE ServicingTypeOK' /\ LedgerInv'
  <2>1. TypeOK' /\ LedgerInv'
    BY <1>0, <1>5, TypeStep, LedgerStep DEF DayPasses, Next
  <2> QED
    BY <1>5, <1>s, <2>1 DEF DayPasses, payVars, loanHist, ServicingTypeOK
<1>6. ASSUME UNCHANGED svars PROVE ServicingTypeOK' /\ LedgerInv'
  <2>1. TypeOK' /\ LedgerInv'
    BY <1>0, <1>6, TypeStep, LedgerStep DEF svars
  <2> QED
    BY <1>6, <2>1 DEF svars, payVars, loanHist, ServicingTypeOK
<1> QED
  BY <1>1, <1>2, <1>3, <1>4, <1>5, <1>6 DEF ServicingNext, CashierStep, ReverserStep

(* Types and the ledger invariant hold while payments, reversals and saves  *)
(* of the same loans run: nothing a session does can make the engine charge a day  *)
(* twice, lose a row, or leave interest missing without a cause.            *)
THEOREM LedgerSurvivesPayments == ServicingSpec => [](ServicingTypeOK /\ LedgerInv)
<1>1. ServicingInit => ServicingTypeOK /\ LedgerInv
  BY InitServicingType, InitLedger DEF ServicingInit
<1> QED
  BY <1>1, ServicingStep, PTL DEF ServicingSpec

(* The types, by themselves. *)
THEOREM ServicingTypes == ServicingSpec => []ServicingTypeOK
<1>1. ServicingTypeOK /\ LedgerInv => ServicingTypeOK
  OBVIOUS
<1> QED
  BY <1>1, LedgerSurvivesPayments, PTL

(* Nobody is charged twice for a day, payments or not. *)
THEOREM StillNeverChargedTwice == ServicingSpec => []NoDoubleCredit
<1>1. ServicingTypeOK /\ LedgerInv => NoDoubleCredit
  BY DEF LedgerInv
<1> QED
  BY <1>1, LedgerSurvivesPayments, PTL

----------------------------------------------------------------------------
(* The loans that stay ACTIVE *)

(* While nothing fails, a loan that stayed ACTIVE since the execution began *)
(* has been listed, or its tenant's turn is still to come; no tenant is     *)
(* left when the execution ends.                                            *)
Night(r) ==
  /\ pc[r] = "done" => tenantsLeft[r] = {}
  /\ pc[r] # "idle" /\ faults = 0 =>
       \A l \in steady[r] : l \in listed[r] \/ TenantOf[l] \in tenantsLeft[r]

NightInv == \A r \in Nightly : Night(r)

(* At the beginning nobody has started. *)
LEMMA InitNight == ServicingInit => WorkInv /\ NightInv
<1> SUFFICES ASSUME ServicingInit PROVE WorkInv /\ NightInv
  OBVIOUS
<1>1. WorkInv
  BY InitWork DEF ServicingInit
<1>2. \A r \in Nightly : pc[r] = "idle"
  BY DEF ServicingInit, Init, Runs
<1> QED
  BY <1>1, <1>2 DEF NightInv, Night

(* Payments and reversals touch no variable of the engine but the columns   *)
(* accrued_interest and status.                                             *)
LEMMA SessionsOnly ==
  (\E p \in Cashiers : CashierStep(p)) \/ (\E v \in Reversers : ReverserStep(v))
    => UNCHANGED engine
BY DEF CashierStep, ReadLoan, Apply, RollBack, ReverserStep, ReadPayment, Reverse, GiveUpReversal

(* The loans in hand and the lists of an execution are nobody else's: a     *)
(* payment cannot take a loan from them.                                    *)
LEMMA WorkSurvives ==
  ServicingTypeOK /\ LedgerInv /\ WorkInv /\ [ServicingNext]_svars => WorkInv'
<1> SUFFICES ASSUME ServicingTypeOK, LedgerInv, WorkInv, [ServicingNext]_svars PROVE WorkInv'
  OBVIOUS
<1>0. TypeOK
  BY DEF ServicingTypeOK
<1>1. ASSUME (\E p \in Cashiers : CashierStep(p)) \/ (\E v \in Reversers : ReverserStep(v))
      PROVE  WorkInv'
  <2>1. UNCHANGED engine
    BY <1>1, SessionsOnly
  <2> QED
    BY <2>1 DEF engine, local, hist, WorkInv, Settled, RowsOf
<1>2. ASSUME NEW r \in Runs, EngineStep(r) PROVE WorkInv'
  BY <1>0, <1>2, WorkStep DEF EngineStep, Next
<1>3. ASSUME NEW q \in Savers, SaverStep(q) PROVE WorkInv'
  BY <1>0, <1>3, WorkStep DEF SaverStep, Next
<1>4. ASSUME DayPasses PROVE WorkInv'
  BY <1>0, <1>4, WorkStep DEF DayPasses, Next
<1>5. ASSUME UNCHANGED svars PROVE WorkInv'
  BY <1>0, <1>5, WorkStep DEF svars
<1> QED
  BY <1>1, <1>2, <1>3, <1>4, <1>5 DEF ServicingNext, CashierStep, ReverserStep

(* A loan that is still ACTIVE was ACTIVE when the execution listed its     *)
(* tenant.                                                                  *)
LEMMA NightStep ==
  ServicingTypeOK /\ WorkInv /\ NightInv /\ [ServicingNext]_svars => NightInv'
<1> SUFFICES ASSUME ServicingTypeOK, WorkInv, NightInv, [ServicingNext]_svars,
                    NEW x \in Nightly
             PROVE  Night(x)'
  BY DEF NightInv
<1>t. /\ x \in Runs /\ Night(x)
      /\ pc \in [Runs -> Labels] /\ tenantsLeft \in [Runs -> SUBSET Tenants]
      /\ listed \in [Runs -> SUBSET Loans] /\ faults \in Nat
      /\ steady \in [Nightly -> SUBSET Loans]
  BY AccrualConstants DEF ServicingTypeOK, TypeOK, NightInv, Runs
<1>s. ASSUME StillActive, pc[x] # "idle"
      PROVE  \A l \in steady'[x] : l \in steady[x] /\ status'[l] = "ACTIVE"
  BY <1>s DEF StillActive
(* a step in which the execution lists nothing *)
<1>q. ASSUME StillActive, pc[x] = "idle" => pc'[x] = "idle",
             pc'[x] = "done" => pc[x] = "done" \/ tenantsLeft[x] = {},
             tenantsLeft'[x] = tenantsLeft[x] \/ (faults' # 0 /\ pc'[x] # "done"),
             listed'[x] = listed[x], faults' = faults \/ faults' # 0
      PROVE  Night(x)'
  <2>1. CASE pc[x] = "idle"
    BY <1>q, <2>1 DEF Night
  <2>2. CASE pc[x] # "idle"
    <3>1. ASSUME faults' = 0, NEW l \in steady'[x]
          PROVE  l \in listed'[x] \/ TenantOf[l] \in tenantsLeft'[x]
      <4>1. l \in steady[x]
        BY <1>q, <1>s, <2>2, <3>1
      <4> QED
        BY <1>q, <1>t, <2>2, <3>1, <4>1 DEF Night
    <3>2. pc'[x] = "done" => tenantsLeft'[x] = {}
      BY <1>q, <1>t DEF Night
    <3> QED
      BY <3>1, <3>2 DEF Night
  <2> QED
    BY <2>1, <2>2
<1>1. ASSUME (\E p \in Cashiers : CashierStep(p)) \/ (\E v \in Reversers : ReverserStep(v)),
             StillActive
      PROVE  Night(x)'
  <2>1. UNCHANGED engine
    BY <1>1, SessionsOnly
  <2> QED
    BY <1>1, <1>q, <2>1 DEF engine, local, hist
<1>2. ASSUME NEW r \in Runs, Start(r), StillActive PROVE Night(x)'
  <2>1. CASE x = r
    <3>1. Trigger(r)
      BY <1>2, <2>1, AccrualConstants DEF Start, StartBackfill
    <3>2. tenantsLeft'[x] = Tenants /\ pc'[x] = "tenant" /\ pc[x] = "idle"
      BY <1>t, <2>1, <3>1 DEF Trigger, Goto
    <3>3. \A l \in steady'[x] : l \in Loans
      BY <1>2, <3>2 DEF StillActive
    <3> QED
      BY <3>2, <3>3, AccrualConstants DEF Night
  <2>2. CASE x # r
    <3>1. /\ pc'[x] = pc[x] /\ tenantsLeft'[x] = tenantsLeft[x] /\ listed'[x] = listed[x]
          /\ faults' = faults
      BY <1>2, <1>t, <2>2 DEF Start, Trigger, StartBackfill, Goto, hist
    <3> QED
      BY <1>2, <1>q, <3>1
  <2> QED
    BY <2>1, <2>2
<1>3. ASSUME NEW r \in Runs, ListTenant(r), StillActive PROVE Night(x)'
  <2>1. CASE x # r
    <3>1. /\ pc'[x] = pc[x] /\ tenantsLeft'[x] = tenantsLeft[x] /\ listed'[x] = listed[x]
          /\ faults' = faults
      BY <1>3, <1>t, <2>1 DEF ListTenant, Goto
    <3> QED
      BY <1>3, <1>q, <3>1
  <2>2. CASE x = r
    <3>1. PICK t \in tenantsLeft[r] :
            LET active == {l \in Loans : TenantOf[l] = t /\ status[l] = "ACTIVE"} IN
            /\ tenantsLeft' = [tenantsLeft EXCEPT ![r] = @ \ {t}]
            /\ loansLeft' = [loansLeft EXCEPT ![r] = active]
            /\ listed' = [listed EXCEPT ![r] = @ \cup active]
      BY <1>3 DEF ListTenant
    <3>2. /\ pc[x] = "tenant" /\ pc'[x] = "loan" /\ faults' = faults /\ status' = status
      BY <1>3, <1>t, <2>2 DEF ListTenant, Goto, db
    <3>3. /\ tenantsLeft'[x] = tenantsLeft[x] \ {t}
          /\ listed'[x] = listed[x] \cup {l \in Loans : TenantOf[l] = t /\ status[l] = "ACTIVE"}
      BY <1>t, <2>2, <3>1
    <3>4. ASSUME faults' = 0, NEW l \in steady'[x]
          PROVE  l \in listed'[x] \/ TenantOf[l] \in tenantsLeft'[x]
      <4>1. l \in steady[x] /\ status[l] = "ACTIVE" /\ l \in Loans
        BY <1>3, <1>s, <1>t, <3>2
      <4>2. l \in listed[x] \/ TenantOf[l] \in tenantsLeft[x]
        BY <1>t, <3>2, <3>4, <4>1 DEF Night
      <4> QED
        BY <3>3, <4>1, <4>2
    <3> QED
      BY <3>2, <3>4 DEF Night
  <2> QED
    BY <2>1, <2>2
<1>4. ASSUME NEW r \in Runs, Step(r), ~ListTenant(r), StillActive PROVE Night(x)'
  <2>1. /\ tenantsLeft'[x] = tenantsLeft[x] /\ listed'[x] = listed[x] /\ faults' = faults
    BY <1>4 DEF Step, LastTenant, NextLoan, LastLoan, CheckExisting, ReadBalance,
         ResolveFixed, ResolveFloating, NoIndexRate, InsertRow, InsertRefused, CreditLoan,
         StampLoan, local, hist
  <2>2. CASE x # r
    <3>1. pc'[x] = pc[x]
      BY <1>4, <1>t, <2>2, ReturnType DEF Step, LastTenant, NextLoan, LastLoan, CheckExisting,
           ReadBalance, ResolveFixed, ResolveFloating, NoIndexRate, InsertRow, InsertRefused,
           CreditLoan, StampLoan, Throw, Goto, ServicingTypeOK
    <3> QED
      BY <1>4, <1>q, <2>1, <3>1
  <2>3. CASE x = r /\ LastTenant(r)
    <3>1. pc[x] = "tenant" /\ tenantsLeft[x] = {}
      BY <2>3 DEF LastTenant
    <3> QED
      BY <1>4, <1>q, <2>1, <3>1
  <2>4. CASE x = r /\ ~LastTenant(r)
    <3>1. pc[x] # "idle" /\ pc'[x] # "done"
      BY <1>4, <1>t, <2>4, ReturnType DEF Step, NextLoan, LastLoan, CheckExisting,
           ReadBalance, ResolveFixed, ResolveFloating, NoIndexRate, InsertRow, InsertRefused,
           CreditLoan, StampLoan, Throw, Goto, ServicingTypeOK
    <3> QED
      BY <1>4, <1>q, <2>1, <3>1
  <2> QED
    BY <2>2, <2>3, <2>4
<1>5. ASSUME NEW r \in Runs, Fault(r), StillActive PROVE Night(x)'
  <2>1. faults' # 0 /\ listed'[x] = listed[x]
    BY <1>5, <1>t DEF Fault, StatementFails, ListFails, Crash
  <2>2. pc[x] = "idle" => pc'[x] = "idle"
    BY <1>5, <1>t DEF Fault, StatementFails, ListFails, Crash, Throw, Goto, StatementPoints
  <2>3. pc'[x] = "done" => pc[x] = "done"
    BY <1>5, <1>t DEF Fault, StatementFails, ListFails, Crash, Throw, Goto
  <2>4. tenantsLeft'[x] = tenantsLeft[x] \/ pc'[x] # "done"
    BY <1>5, <1>t DEF Fault, StatementFails, ListFails, Crash, local
  <2> QED
    BY <1>5, <1>q, <2>1, <2>2, <2>3, <2>4
<1>6. ASSUME DayPasses \/ (\E q \in Savers : SaverStep(q)), StillActive PROVE Night(x)'
  <2>1. UNCHANGED <<pc, tenantsLeft, listed, faults>>
    BY <1>6 DEF DayPasses, Midnight, SaverStep, EntityStep, EntityReads, LoadForActivation,
       LoadForModification, Load, Compare, Save, Abandon, local, hist
  <2> QED
    BY <1>6, <1>q, <2>1
<1>7. CASE UNCHANGED svars
  BY <1>7, <1>t DEF svars, vars, local, hist, Night
<1> QED
  BY <1>1, <1>2, <1>3, <1>4, <1>5, <1>6, <1>7
  DEF ServicingNext, EngineStep, CashierStep, ReverserStep

(* The nightly job selects ACTIVE loans only and every payment takes a loan *)
(* out of that status; but no loan that stays ACTIVE through an execution   *)
(* without a fault is passed over, whatever the payments of other loans,    *)
(* the other replicas and the activations do meanwhile.                     *)
THEOREM NightsCoverActiveLoans == ServicingSpec => []NightCoversActiveLoans
<1> DEFINE All == ServicingTypeOK /\ LedgerInv /\ WorkInv /\ NightInv
<1>1. ServicingInit => All
  BY InitServicingType, InitLedger, InitNight DEF ServicingInit
<1>2. All /\ [ServicingNext]_svars => All'
  BY ServicingStep, WorkSurvives, NightStep
<1>3. All => NightCoversActiveLoans
  <2> SUFFICES ASSUME All, NEW r \in Nightly, pc[r] = "done", faults = 0, NEW l \in steady[r]
               PROVE  Settled(r, l)
    BY DEF NightCoversActiveLoans
  <2>1. l \in listed[r]
    BY DEF NightInv, Night
  <2> QED
    BY <2>1 DEF WorkInv, StatementPoints
<1> QED
  BY <1>1, <1>2, <1>3, PTL DEF ServicingSpec

----------------------------------------------------------------------------
(* The balance of the interest *)

(* An increment on its way is the amount of the row it belongs to. *)
PendingAmounts ==
  \A r \in Runs :
    pc[r] = "credit" =>
      \E a \in RowsOf(loan[r], date[r]) : a.amount = Actual360(principal[r], rate[r])

(* What a session read of the column. *)
Known(q) == IF q \in Cashiers THEN pay[q].owed ELSE entity[q].row.accrued

(* What a session holds of a loan is still what the loan owes, unless it     *)
(* missed a write; and not more than the books say, unless a payment was     *)
(* missed, by it or by an earlier write, or the books of the loan are off.   *)
HoldsRecent(q, l) ==
  Reading(q, l) =>
    /\ missed[q] = {} => Known(q) = accrued[l]
    /\ "payment" \notin missed[q] \cup lost[l] /\ l \notin clamped \cup twice
         => Known(q) <= Credited(l) - paid[l]

(* Who reads nothing has missed nothing; and a saver that missed nothing     *)
(* does not write the column.                                                *)
HeardOnlyWhileReading(q) ==
  /\ (\A l \in Loans : ~Reading(q, l)) => missed[q] = {}
  /\ q \in Savers /\ missed[q] = {} => "accrued" \notin entity[q].cols

Recent(q) == HeardOnlyWhileReading(q) /\ \A l \in Loans : HoldsRecent(q, l)

ReadsAreRecent == \A q \in Readers : Recent(q)

BooksInv == IsFiniteSet(rows) /\ PendingAmounts

BalanceInv ==
  /\ ReadsAreRecent
  /\ InterestBalances
  /\ OverwritesFavourTheBorrower

(* What the ledger charged is a number. *)
LEMMA CreditedInt ==
  ASSUME TypeOK, BooksInv, NEW l
  PROVE  /\ Credited(l) \in Int /\ IsFiniteSet(CreditedRows(l))
         /\ \A a \in CreditedRows(l) : [b \in rows |-> b.amount][a] \in Int
<1>1. CreditedRows(l) \subseteq rows
  BY DEF CreditedRows
<1>2. IsFiniteSet(CreditedRows(l))
  BY <1>1, FS_Subset DEF BooksInv
<1>3. \A a \in CreditedRows(l) : [b \in rows |-> b.amount][a] \in Int
  BY <1>1 DEF TypeOK
<1>4. SumFunctionOnSet([b \in rows |-> b.amount], CreditedRows(l)) \in Int
  BY <1>2, <1>3, SumInt
<1> QED
  BY <1>2, <1>3, <1>4 DEF Credited

(* New rows do not count before their interest is added. *)
LEMMA CreditedSame ==
  ASSUME TypeOK, BooksInv, rows \subseteq rows', NEW l, CreditedRows(l)' = CreditedRows(l)
  PROVE  Credited(l)' = Credited(l)
<1> DEFINE f == [b \in rows |-> b.amount]
           g == [b \in rows' |-> b.amount]
           S == CreditedRows(l)
<1>1. S \subseteq rows
  BY DEF CreditedRows
<1>2. IsFiniteSet(S) /\ \A a \in S : f[a] \in Int
  BY CreditedInt
<1>3. \A a \in S : g[a] = f[a]
  BY <1>1
<1> HIDE DEF f, g, S
<1>4. SumFunctionOnSet(f, S) = SumFunctionOnSet(g, S)
  BY <1>2, <1>3, SumSame
<1> QED
  BY <1>4 DEF Credited, f, g, S

(* The increment adds the amount of its row to the sum, once. *)
LEMMA CreditedMore ==
  ASSUME TypeOK, LedgerInv, BooksInv, NEW r \in Runs, CreditLoan(r)
  PROVE  /\ loan[r] \in Loans /\ Actual360(principal[r], rate[r]) \in Nat
         /\ Credited(loan[r])' = Credited(loan[r]) + Actual360(principal[r], rate[r])
         /\ \A l \in Loans : l # loan[r] => Credited(l)' = Credited(l)
<1> DEFINE k == loan[r]
           d == date[r]
           A == Actual360(principal[r], rate[r])
<1>t. /\ k \in Loans /\ d \in Days /\ A \in Nat /\ pc[r] = "credit" /\ rows' = rows /\ loan' = loan
      /\ credits' = [credits EXCEPT ![k][d] = @ + 1] /\ credits \in [Loans -> [Days -> Nat]]
  BY Actual360Nat DEF CreditLoan, TypeOK, StatementPoints, local
<1>1. PICK a \in rows : a.loan = k /\ a.date = d /\ a.amount = A
  BY <1>t DEF BooksInv, PendingAmounts, RowsOf
<1>2. credits[k][d] = 0
  BY <1>t DEF LedgerInv, OwnerOfPendingCredit
<1>3. credits'[k][d] = 1
  BY <1>t, <1>2
<1>4. \A b \in rows : b.loan \in Loans /\ b.date \in Days
  BY DEF TypeOK
<1>5. ASSUME NEW b \in rows, b # a PROVE credits'[b.loan][b.date] = credits[b.loan][b.date]
  <2>1. b.loan # k \/ b.date # d
    BY <1>1, <1>5 DEF LedgerInv, OneRowPerLoanDay
  <2> QED
    BY <1>t, <1>4, <2>1
<1>6. a \notin CreditedRows(k)
  BY <1>1, <1>2 DEF CreditedRows
<1>7. CreditedRows(k)' = CreditedRows(k) \cup {a}
  <2>1. ASSUME NEW b \in rows, b # a PROVE b \in CreditedRows(k)' <=> b \in CreditedRows(k)
    BY <1>t, <1>5, <2>1 DEF CreditedRows
  <2>2. a \in CreditedRows(k)'
    BY <1>t, <1>1, <1>3 DEF CreditedRows
  <2>3. CreditedRows(k)' \subseteq rows /\ CreditedRows(k) \subseteq rows
    BY <1>t DEF CreditedRows
  <2> QED
    BY <2>1, <2>2, <2>3
<1>8. Credited(k)' = Credited(k) + A
  <2> DEFINE f == [b \in rows |-> b.amount]
             S == CreditedRows(k)
  <2>1. IsFiniteSet(S) /\ \A b \in S : f[b] \in Int
    BY CreditedInt
  <2>2. a \notin S /\ f[a] = A /\ f[a] \in Int
    BY <1>t, <1>1, <1>6
  <2>3. Credited(k) = SumFunctionOnSet(f, S)
    BY DEF Credited
  <2>4. Credited(k)' = SumFunctionOnSet(f, S \cup {a})
    BY <1>t, <1>7 DEF Credited
  <2> HIDE DEF f, S
  <2>5. SumFunctionOnSet(f, S \cup {a}) = SumFunctionOnSet(f, S) + f[a]
    BY <2>1, <2>2, SumAdd
  <2> QED
    BY <2>2, <2>3, <2>4, <2>5
<1>9. ASSUME NEW l \in Loans, l # k PROVE Credited(l)' = Credited(l)
  <2>1. ASSUME NEW b \in rows PROVE b \in CreditedRows(l)' <=> b \in CreditedRows(l)
    BY <1>t, <1>1, <1>5, <1>9, <2>1 DEF CreditedRows
  <2>2. CreditedRows(l)' \subseteq rows /\ CreditedRows(l) \subseteq rows
    BY <1>t DEF CreditedRows
  <2>3. CreditedRows(l)' = CreditedRows(l)
    BY <2>1, <2>2
  <2> QED
    BY <1>t, <2>3, CreditedSame
<1> QED
  BY <1>t, <1>8, <1>9

(* A row enters the ledger for a day nobody was charged for. *)
LEMMA InsertedLater ==
  ASSUME TypeOK, LedgerInv, BooksInv, NEW r \in Runs, InsertRow(r), NEW l \in Loans
  PROVE  Credited(l)' = Credited(l)
<1> DEFINE new == [run |-> r, loan |-> loan[r], date |-> date[r],
                   amount |-> Actual360(principal[r], rate[r])]
<1>1. /\ rows' = rows \cup {new} /\ credits' = credits
      /\ RowsOf(loan[r], date[r]) = {} /\ loan[r] \in Loans /\ date[r] \in Days
  BY DEF InsertRow, Refused, hist, TypeOK, StatementPoints
<1>2. ~ (credits[loan[r]][date[r]] > 0)
  BY <1>1 DEF LedgerInv, NoDoubleCredit
<1>3. new.loan = loan[r] /\ new.date = date[r]
  OBVIOUS
<1> HIDE DEF new
<1>4. CreditedRows(l)' = CreditedRows(l)
  BY <1>1, <1>2, <1>3 DEF CreditedRows
<1> QED
  BY <1>1, <1>4, CreditedSame

(* What a step of the engine does to the books: it adds nothing, or to one  *)
(* loan the same amount in its column and in the sum of its credited rows.  *)
LEMMA EngineBooks ==
  ASSUME TypeOK, LedgerInv, BooksInv, NEW r \in Runs, Start(r) \/ Step(r) \/ Fault(r)
  PROVE  /\ BooksInv'
         /\ \/ /\ accrued' = accrued
               /\ \A l \in Loans : Credited(l)' = Credited(l)
            \/ CreditLoan(r)
<1>t. /\ pc \in [Runs -> Labels] /\ date \in [Runs -> Days]
      /\ loan \in [Runs -> Loans \cup {NoLoan}] /\ principal \in [Runs -> Nat]
      /\ rate \in [Runs -> Nat \cup {NotANumber}]
  BY DEF TypeOK
<1>p. ASSUME rows \subseteq rows', NEW x \in Runs, pc'[x] = pc[x], loan'[x] = loan[x],
             date'[x] = date[x], principal'[x] = principal[x], rate'[x] = rate[x], pc[x] = "credit"
      PROVE  \E a \in RowsOf(loan[x], date[x])' : a.amount = Actual360(principal[x], rate[x])'
  <2>1. PICK a \in RowsOf(loan[x], date[x]) : a.amount = Actual360(principal[x], rate[x])
    BY <1>p DEF BooksInv, PendingAmounts
  <2>2. a \in RowsOf(loan[x], date[x])' /\ a.amount = Actual360(principal[x], rate[x])'
    BY <1>p, <2>1 DEF RowsOf, Actual360
  <2> QED
    BY <2>2
<1>o. ASSUME NEW x \in Runs, x # r
      PROVE  /\ pc'[x] = pc[x] /\ loan'[x] = loan[x] /\ date'[x] = date[x]
             /\ principal'[x] = principal[x] /\ rate'[x] = rate[x]
  <2>1. CASE Start(r)
    BY <1>t, <1>o, <2>1 DEF Start, Trigger, StartBackfill, Goto
  <2>2. CASE Step(r)
    <3>1. loan'[x] = loan[x] /\ principal'[x] = principal[x] /\ rate'[x] = rate[x]
      BY <1>t, <1>o, <2>2 DEF Step, ListTenant, LastTenant, NextLoan, LastLoan, CheckExisting,
           ReadBalance, ResolveFixed, ResolveFloating, NoIndexRate, InsertRow, InsertRefused,
           CreditLoan, StampLoan, local
    <3>2. pc'[x] = pc[x] /\ date'[x] = date[x]
      BY <1>t, <1>o, <2>2, ReturnType DEF Step, ListTenant, LastTenant, NextLoan, LastLoan,
           CheckExisting, ReadBalance, ResolveFixed, ResolveFloating, NoIndexRate, InsertRow,
           InsertRefused, CreditLoan, StampLoan, Throw, Goto, local
    <3> QED
      BY <3>1, <3>2
  <2>3. CASE Fault(r)
    BY <1>t, <1>o, <2>3 DEF Fault, StatementFails, ListFails, Crash, Throw, Goto, local
  <2> QED
    BY <2>1, <2>2, <2>3
<1>1. CASE InsertRow(r)
  <2> DEFINE new == [run |-> r, loan |-> loan[r], date |-> date[r],
                     amount |-> Actual360(principal[r], rate[r])]
  <2>1. rows' = rows \cup {new}
    BY <1>1 DEF InsertRow
  <2>2. IsFiniteSet(rows')
    BY <2>1, FS_AddElement DEF BooksInv
  <2>3. loan' = loan /\ date' = date /\ principal' = principal /\ rate' = rate
    BY <1>1 DEF InsertRow, local
  <2>4. new \in RowsOf(loan[r], date[r])' /\ new.amount = Actual360(principal[r], rate[r])'
    BY <2>1, <2>3 DEF RowsOf, Actual360
  <2>5. PendingAmounts'
    <3> SUFFICES ASSUME NEW x \in Runs, pc'[x] = "credit"
                 PROVE  \E a \in RowsOf(loan[x], date[x])' : a.amount = Actual360(principal[x], rate[x])'
      BY DEF PendingAmounts
    <3>1. CASE x = r
      BY <2>4, <3>1
    <3>2. CASE x # r
      BY <1>o, <1>p, <2>1, <3>2
    <3> QED
      BY <3>1, <3>2
  <2>6. accrued' = accrued
    BY <1>1 DEF InsertRow
  <2> QED
    BY <1>1, <2>2, <2>5, <2>6, InsertedLater DEF BooksInv
<1>2. CASE ~InsertRow(r)
  <2>1. rows' = rows
    BY <1>2 DEF Start, Trigger, StartBackfill, Fault, StatementFails, ListFails, Crash,
         Step, ListTenant, LastTenant, NextLoan, LastLoan, CheckExisting, ReadBalance,
         ResolveFixed, ResolveFloating, NoIndexRate, InsertRefused, CreditLoan, StampLoan, db
  <2>2. pc'[r] # "credit"
    <3>1. CASE Start(r) \/ Fault(r)
      BY <1>t, <3>1 DEF Start, Trigger, StartBackfill, Fault, StatementFails, ListFails, Crash,
           Throw, Goto
    <3>2. CASE Step(r)
      BY <1>t, <1>2, <3>2, ReturnType DEF Step, ListTenant, LastTenant, NextLoan, LastLoan,
           CheckExisting, ReadBalance, ResolveFixed, ResolveFloating, NoIndexRate,
           InsertRefused, CreditLoan, StampLoan, Throw, Goto
    <3> QED
      BY <3>1, <3>2
  <2>3. PendingAmounts'
    <3> SUFFICES ASSUME NEW x \in Runs, pc'[x] = "credit"
                 PROVE  \E a \in RowsOf(loan[x], date[x])' : a.amount = Actual360(principal[x], rate[x])'
      BY DEF PendingAmounts
    <3>1. x # r
      BY <2>2
    <3> QED
      BY <1>o, <1>p, <2>1, <3>1
  <2>4. CASE ~CreditLoan(r)
    <3>1. accrued' = accrued /\ credits' = credits
      BY <1>2, <2>4 DEF Start, Trigger, StartBackfill, Fault, StatementFails, ListFails, Crash,
           Step, ListTenant, LastTenant, NextLoan, LastLoan, CheckExisting, ReadBalance,
           ResolveFixed, ResolveFloating, NoIndexRate, InsertRefused, StampLoan, db, hist
    <3>2. \A l \in Loans : Credited(l)' = Credited(l)
      BY <2>1, <3>1 DEF Credited, CreditedRows
    <3> QED
      BY <2>1, <2>3, <3>1, <3>2 DEF BooksInv
  <2> QED
    BY <2>1, <2>3, <2>4 DEF BooksInv
<1> QED
  BY <1>1, <1>2

(* One loan's part of the invariant. *)
LoanBalances(l) ==
  /\ lost[l] = {} /\ l \notin clamped \cup twice => accrued[l] = Credited(l) - paid[l]
  /\ "payment" \notin lost[l] /\ l \notin clamped \cup twice
       => accrued[l] <= Credited(l) - paid[l]

(* The invariant is what holds of each loan and each session. *)
LEMMA BalanceParts ==
  BalanceInv <=> (\A l \in Loans : LoanBalances(l)) /\ (\A q \in Readers : Recent(q))
BY DEF BalanceInv, InterestBalances, OverwritesFavourTheBorrower, ReadsAreRecent, LoanBalances

(* The same of the next state. *)
LEMMA BalancePartsNext ==
  (\A l \in Loans : LoanBalances(l)') /\ (\A q \in Readers : Recent(q)') => BalanceInv'
BY DEF BalanceInv, InterestBalances, OverwritesFavourTheBorrower, ReadsAreRecent, LoanBalances

(* A session reads one loan at a time, and what it holds is a number.        *)
LEMMA ReadingFacts ==
  ASSUME ServicingTypeOK, NEW q \in Readers
  PROVE  /\ missed[q] \in SUBSET Writers
         /\ \A l \in Loans : Reading(q, l) => Known(q) \in Nat
         /\ \A k, l \in Loans : Reading(q, k) /\ Reading(q, l) => k = l
         /\ q \in Cashiers => q \notin Savers
<1>1. q \in Cashiers => pay[q] \in PayState
  BY DEF ServicingTypeOK
<1>2. q \in Savers => entity[q] \in EntityType
  BY DEF ServicingTypeOK, TypeOK
<1> QED
  BY <1>1, <1>2, ServicingConstants DEF Readers, Reading, Known, PayState, EntityType, ServicingTypeOK

(* q is as before: it reads what it read, and heard what it had heard.       *)
SameReader(q) ==
  /\ \A l \in Loans : Reading(q, l)' <=> Reading(q, l)
  /\ (\E l \in Loans : Reading(q, l)) => Known(q)' = Known(q)
  /\ q \in Savers => entity'[q].cols = entity[q].cols

(* q has ended, having written or given up.                                  *)
Leaves(q) ==
  /\ \A l \in Loans : ~Reading(q, l)'
  /\ missed'[q] = {}
  /\ q \in Savers => entity'[q].cols = {}

(* A session whose own variables are as before is the same reader.           *)
LEMMA SamePayment ==
  ASSUME NEW q \in Readers, ServicingTypeOK,
         q \in Cashiers => (pay'[q] = pay[q] \/ (pay[q].at # "read" /\ pay'[q].at # "read")),
         q \in Savers => entity'[q] = entity[q]
  PROVE  SameReader(q)
BY ServicingConstants DEF SameReader, Reading, Known, Readers, Holds

(* A write of the column of loan k: who else reads k hears of it.  Unless a  *)
(* payment was written over or the books of k are off, it leaves the books   *)
(* where they were, or adds to them; only a payment takes from them.         *)
LEMMA WriteBalances ==
  ASSUME ServicingTypeOK, BalanceInv, NEW k \in Loans, NEW w \in Writers,
         \A l \in Loans : l # k => /\ accrued'[l] = accrued[l] /\ Credited(l)' = Credited(l)
                                  /\ paid'[l] = paid[l] /\ lost'[l] = lost[l]
                                  /\ (l \in clamped' \cup twice' <=> l \in clamped \cup twice),
         LoanBalances(k)', lost[k] \subseteq lost'[k],
         k \in clamped \cup twice => k \in clamped' \cup twice',
         Credited(k) \in Int, Credited(k)' \in Int, paid[k] \in Int, paid'[k] \in Int,
         w = "payment" \/ k \in clamped' \cup twice' \/ Credited(k) - paid[k] <= Credited(k)' - paid'[k],
         \A q \in Readers : Leaves(q) \/ (SameReader(q) /\ missed'[q] = Heard(k, w)[q])
  PROVE  BalanceInv'
<1>b. (\A l \in Loans : LoanBalances(l)) /\ (\A q \in Readers : Recent(q))
  BY BalanceParts
<1>1. ASSUME NEW l \in Loans PROVE LoanBalances(l)'
  <2>1. CASE l # k
    <3>1. LoanBalances(l)
      BY <1>b
    <3>2. /\ accrued'[l] = accrued[l] /\ Credited(l)' = Credited(l)
          /\ paid'[l] = paid[l] /\ lost'[l] = lost[l]
          /\ (l \in clamped' \cup twice' <=> l \in clamped \cup twice)
      BY <2>1
    <3> QED
      BY <3>1, <3>2 DEF LoanBalances
  <2> QED
    BY <2>1
<1>2. ASSUME NEW q \in Readers PROVE Recent(q)'
  <2>1. CASE Leaves(q)
    BY <2>1 DEF Leaves, Recent, HeardOnlyWhileReading, HoldsRecent
  <2>2. CASE SameReader(q) /\ missed'[q] = Heard(k, w)[q]
    <3>r. Recent(q)
      BY <1>b
    <3>h. missed'[q] = IF Reading(q, k) THEN missed[q] \cup {w} ELSE missed[q]
      BY <2>2 DEF Heard
    <3>1. HeardOnlyWhileReading(q)'
      <4>1. (\A l \in Loans : ~Reading(q, l)') => missed'[q] = {}
        BY <2>2, <3>r, <3>h DEF Recent, HeardOnlyWhileReading, SameReader
      <4>2. q \in Savers /\ missed'[q] = {} => "accrued" \notin entity'[q].cols
        BY <2>2, <3>r, <3>h DEF Recent, HeardOnlyWhileReading, SameReader
      <4> QED
        BY <4>1, <4>2 DEF HeardOnlyWhileReading
    <3>2. ASSUME NEW l \in Loans PROVE HoldsRecent(q, l)'
      <4> SUFFICES ASSUME Reading(q, l)' PROVE HoldsRecent(q, l)'
        BY DEF HoldsRecent
      <4>1. Reading(q, l) /\ Known(q)' = Known(q) /\ HoldsRecent(q, l) /\ Known(q) \in Nat
        BY <2>2, <3>r, ReadingFacts DEF SameReader, Recent
      <4>2. CASE l = k
        <5>1. missed'[q] = missed[q] \cup {w}
          BY <3>h, <4>1, <4>2
        <5>2. ASSUME "payment" \notin missed'[q] \cup lost'[k], k \notin clamped' \cup twice'
              PROVE  Known(q) <= Credited(k)' - paid'[k]
          <6>1. Known(q) <= Credited(k) - paid[k]
            BY <4>1, <4>2, <5>1, <5>2 DEF HoldsRecent
          <6>2. Credited(k) - paid[k] <= Credited(k)' - paid'[k]
            BY <5>1, <5>2
          <6> QED
            BY <4>1, <6>1, <6>2
        <5> QED
          BY <4>1, <4>2, <5>1, <5>2 DEF HoldsRecent
      <4>3. CASE l # k
        <5>1. missed'[q] = missed[q]
          BY <3>h, <4>1, <4>3, ReadingFacts
        <5>2. /\ accrued'[l] = accrued[l] /\ Credited(l)' = Credited(l)
              /\ paid'[l] = paid[l] /\ lost'[l] = lost[l]
              /\ (l \in clamped' \cup twice' <=> l \in clamped \cup twice)
          BY <4>3
        <5> QED
          BY <4>1, <5>1, <5>2 DEF HoldsRecent
      <4> QED
        BY <4>2, <4>3
    <3> QED
      BY <3>1, <3>2 DEF Recent
  <2> QED
    BY <2>1, <2>2
<1> QED
  BY <1>1, <1>2, BalancePartsNext

(* q reads a loan, or learns which columns of it have changed.               *)
Opens(q) ==
  /\ missed'[q] = {}
  /\ \E k \in Loans : /\ Reading(q, k)'
                      /\ \A l \in Loans : Reading(q, l)' => l = k
                      /\ Known(q)' = accrued[k]
  /\ q \in Savers => entity'[q].cols = {}

Compares(q) ==
  /\ q \in Savers /\ missed'[q] = missed[q]
  /\ \A l \in Loans : Reading(q, l)' <=> Reading(q, l)
  /\ Known(q)' = Known(q)
  /\ "accrued" \in entity'[q].cols => \E l \in Loans : Reading(q, l) /\ Known(q) # accrued[l]

(* A step that writes no column and moves no book.                           *)
LEMMA QuietBalances ==
  ASSUME ServicingTypeOK, BalanceInv, \A l \in Loans : Credited(l)' = Credited(l),
         UNCHANGED <<accrued, paid, lost, clamped, twice>>,
         \A q \in Readers :
           \/ Leaves(q) \/ Opens(q) \/ Compares(q)
           \/ SameReader(q) /\ missed'[q] = missed[q]
  PROVE  BalanceInv'
<1>b. (\A l \in Loans : LoanBalances(l)) /\ (\A q \in Readers : Recent(q))
  BY BalanceParts
<1>1. ASSUME NEW l \in Loans PROVE LoanBalances(l)'
  <2>1. LoanBalances(l) /\ Credited(l)' = Credited(l)
    BY <1>b
  <2> QED
    BY <2>1 DEF LoanBalances
<1>2. ASSUME NEW q \in Readers PROVE Recent(q)'
  <2>r. Recent(q)
    BY <1>b
  <2>1. CASE Leaves(q)
    BY <2>1 DEF Leaves, Recent, HeardOnlyWhileReading, HoldsRecent
  <2>2. CASE Opens(q)
    <3>1. PICK k \in Loans : Reading(q, k)' /\ (\A l \in Loans : Reading(q, l)' => l = k)
                             /\ Known(q)' = accrued[k]
      BY <2>2 DEF Opens
    <3>2. /\ "payment" \notin lost[k] /\ k \notin clamped \cup twice
               => accrued[k] <= Credited(k) - paid[k]
          /\ Credited(k)' = Credited(k)
      BY <1>b DEF LoanBalances
    <3>3. HeardOnlyWhileReading(q)'
      BY <2>2 DEF Opens, HeardOnlyWhileReading
    <3>4. ASSUME NEW l \in Loans PROVE HoldsRecent(q, l)'
      BY <2>2, <3>1, <3>2 DEF Opens, HoldsRecent
    <3> QED
      BY <3>3, <3>4 DEF Recent
  <2>3. CASE Compares(q)
    <3>1. HeardOnlyWhileReading(q)'
      <4>1. (\A l \in Loans : ~Reading(q, l)') => missed'[q] = {}
        BY <2>3, <2>r DEF Compares, Recent, HeardOnlyWhileReading
      <4>2. missed'[q] = {} => "accrued" \notin entity'[q].cols
        BY <2>3, <2>r DEF Compares, Recent, HoldsRecent
      <4> QED
        BY <4>1, <4>2 DEF HeardOnlyWhileReading
    <3>2. ASSUME NEW l \in Loans PROVE HoldsRecent(q, l)'
      <4>1. Credited(l)' = Credited(l) /\ HoldsRecent(q, l)
        BY <2>r DEF Recent
      <4> QED
        BY <2>3, <4>1 DEF Compares, HoldsRecent
    <3> QED
      BY <3>1, <3>2 DEF Recent
  <2>4. CASE SameReader(q) /\ missed'[q] = missed[q]
    <3>1. HeardOnlyWhileReading(q)'
      BY <2>4, <2>r DEF SameReader, Recent, HeardOnlyWhileReading
    <3>2. ASSUME NEW l \in Loans PROVE HoldsRecent(q, l)'
      <4>1. Credited(l)' = Credited(l) /\ HoldsRecent(q, l)
        BY <2>r DEF Recent
      <4> QED
        BY <2>4, <4>1 DEF SameReader, HoldsRecent
    <3> QED
      BY <3>1, <3>2 DEF Recent
  <2> QED
    BY <2>1, <2>2, <2>3, <2>4
<1> QED
  BY <1>1, <1>2, BalancePartsNext

(* Steps of the sessions leave the rows and the increments of the engine.    *)
LEMMA SameBooks ==
  ASSUME BooksInv, UNCHANGED <<rows, credits, pc, loan, date, principal, rate>>
  PROVE  BooksInv' /\ \A l \in Loans : Credited(l)' = Credited(l)
BY DEF BooksInv, PendingAmounts, RowsOf, Actual360, Credited, CreditedRows

(* The steps of a payment: what it writes is what it read less its share.   *)
LEMMA CashierBalances ==
  ASSUME ServicingTypeOK, BooksInv, BalanceInv, NEW p \in Cashiers, CashierStep(p)
  PROVE  BooksInv' /\ BalanceInv'
<1>t. /\ pay \in [Cashiers -> PayState] /\ pay[p] \in PayState /\ p \in Readers /\ p \notin Savers
      /\ accrued \in [Loans -> Nat] /\ paid \in [Loans -> Int] /\ missed \in [Readers -> SUBSET Writers]
      /\ lost \in [Loans -> SUBSET Writers] /\ TypeOK /\ \A l \in Loans : Credited(l) \in Int
  BY ServicingConstants, CreditedInt DEF ServicingTypeOK, TypeOK, Readers
<1>b. (\A l \in Loans : LoanBalances(l)) /\ (\A q \in Readers : Recent(q))
  BY BalanceParts
<1>e. UNCHANGED engine
  BY SessionsOnly
<1>1. BooksInv' /\ \A l \in Loans : Credited(l)' = Credited(l)
  BY <1>e, SameBooks DEF engine, local, hist
<1>2. entity' = entity
  BY <1>e DEF engine
<1>o. ASSUME NEW q \in Readers, q # p, \A x \in Cashiers : x # p => pay'[x] = pay[x]
      PROVE  SameReader(q)
  BY <1>o, <1>2, SamePayment
<1>3. CASE ReadLoan(p)
  <2>1. PICK k \in Loans, s \in Shares :
          pay' = [pay EXCEPT ![p] = [at |-> "read", loan |-> k, owed |-> accrued[k],
                                     was |-> status[k], share |-> s]]
    BY <1>3 DEF ReadLoan
  <2>2. /\ \A x \in Cashiers : x # p => pay'[x] = pay[x]
        /\ pay'[p].at = "read" /\ pay'[p].loan = k /\ pay'[p].owed = accrued[k]
    BY <1>t, <2>1
  <2>3. UNCHANGED <<accrued, missed, paid, lost, clamped, twice>> /\ pay[p].at = "idle"
    BY <1>3 DEF ReadLoan, loanHist
  <2>4. \A l \in Loans : ~Reading(p, l)
    BY <1>t, <2>3 DEF Reading
  <2>5. missed[p] = {}
    BY <1>b, <1>t, <2>4 DEF Recent, HeardOnlyWhileReading
  <2>6. Opens(p)
    BY <1>t, <2>2, <2>3, <2>5 DEF Opens, Reading, Known
  <2> QED
    BY <1>1, <1>o, <2>2, <2>3, <2>6, QuietBalances
<1>4. CASE Apply(p)
  <2>1. PICK k \in Loans : pay[p].loan = k
    BY <1>4 DEF Apply, ServicingTypeOK
  <2>2. /\ pay[p].owed \in Nat /\ pay[p].share \in Nat /\ pay[p].at = "read"
    BY <1>4, <1>t DEF Apply, PayState
  <2>3. /\ accrued'[k] = NewAccrued(p) /\ paid'[k] = paid[k] + pay[p].share
        /\ lost'[k] = lost[k] \cup missed[p] /\ twice' = twice
        /\ k \notin clamped' => pay[p].share <= pay[p].owed
        /\ k \in clamped => k \in clamped'
    BY <1>4, <1>t, <2>1, <2>2 DEF Apply
  <2>4. \A l \in Loans : l # k => /\ accrued'[l] = accrued[l] /\ Credited(l)' = Credited(l)
                                  /\ paid'[l] = paid[l] /\ lost'[l] = lost[l]
                                  /\ (l \in clamped' \cup twice' <=> l \in clamped \cup twice)
    BY <1>4, <1>t, <1>1, <2>1 DEF Apply
  <2>5. HoldsRecent(p, k) /\ Reading(p, k) /\ Known(p) = pay[p].owed /\ LoanBalances(k)
    BY <1>b, <1>t, <2>1, <2>2 DEF Recent, Reading, Known
  <2>6. k \notin clamped' => accrued'[k] = pay[p].owed - pay[p].share
    BY <2>2, <2>3 DEF NewAccrued
  <2>7. LoanBalances(k)'
    <3>1. ASSUME lost'[k] = {}, k \notin clamped' \cup twice' PROVE accrued'[k] = Credited(k) - paid'[k]
      <4>1. pay[p].owed = accrued[k] /\ accrued[k] = Credited(k) - paid[k]
        BY <2>3, <2>5, <3>1 DEF HoldsRecent, LoanBalances
      <4> QED
        BY <1>t, <2>2, <2>3, <2>6, <3>1, <4>1
    <3>2. ASSUME "payment" \notin lost'[k], k \notin clamped' \cup twice'
          PROVE  accrued'[k] <= Credited(k) - paid'[k]
      <4>1. pay[p].owed <= Credited(k) - paid[k]
        BY <2>3, <2>5, <3>2 DEF HoldsRecent
      <4> QED
        BY <1>t, <2>2, <2>3, <2>6, <3>2, <4>1
    <3>3. Credited(k)' = Credited(k)
      BY <1>1
    <3> QED
      BY <3>1, <3>2, <3>3 DEF LoanBalances
  <2>8. \A x \in Cashiers : x # p => pay'[x] = pay[x]
    BY <1>4, <1>t DEF Apply
  <2>9. \A q \in Readers : q # p => missed'[q] = Heard(k, "payment")[q]
    BY <1>4, <2>1 DEF Apply, Heard
  <2>10. Leaves(p)
    <3>1. pay'[p].at = "applied"
      BY <1>4, <1>t DEF Apply, PayState
    <3>2. missed'[p] = {}
      BY <1>4, <1>t DEF Apply, Heard
    <3> QED
      BY <1>t, <3>1, <3>2 DEF Leaves, Reading
  <2>11. \A q \in Readers : Leaves(q) \/ (SameReader(q) /\ missed'[q] = Heard(k, "payment")[q])
    BY <1>o, <2>8, <2>9, <2>10
  <2>12. "payment" \in Writers /\ Credited(k) \in Int /\ Credited(k)' \in Int /\ paid[k] \in Int
         /\ paid'[k] \in Int
    BY <1>t, <1>1, <2>2, <2>3 DEF Writers
  <2> QED
    BY <1>1, <2>3, <2>4, <2>7, <2>11, <2>12, WriteBalances
<1>5. CASE RollBack(p)
  <2>1. UNCHANGED <<accrued, paid, lost, clamped, twice>>
    BY <1>5 DEF RollBack, loanHist
  <2>2. pay'[p].at = "rolledback" /\ missed'[p] = {}
        /\ (\A x \in Cashiers : x # p => pay'[x] = pay[x])
        /\ \A q \in Readers : q # p => missed'[q] = missed[q]
    BY <1>5, <1>t DEF RollBack, PayState
  <2>3. Leaves(p)
    BY <1>t, <2>2 DEF Leaves, Reading
  <2> QED
    BY <1>1, <1>o, <2>1, <2>2, <2>3, QuietBalances
<1> QED
  BY <1>3, <1>4, <1>5 DEF CashierStep

(* The steps of a reversal: it adds to the column the share that it takes    *)
(* off what was paid, or marks the loan.                                     *)
LEMMA ReverserBalances ==
  ASSUME ServicingTypeOK, BooksInv, BalanceInv, NEW v \in Reversers, ReverserStep(v)
  PROVE  BooksInv' /\ BalanceInv'
<1>t. /\ pay \in [Cashiers -> PayState] /\ accrued \in [Loans -> Nat] /\ paid \in [Loans -> Int]
      /\ missed \in [Readers -> SUBSET Writers] /\ TypeOK /\ \A l \in Loans : Credited(l) \in Int
  BY CreditedInt DEF ServicingTypeOK, TypeOK
<1>e. UNCHANGED engine
  BY SessionsOnly
<1>1. BooksInv' /\ \A l \in Loans : Credited(l)' = Credited(l)
  BY <1>e, SameBooks DEF engine, local, hist
<1>2. entity' = entity
  BY <1>e DEF engine
<1>3. CASE ReadPayment(v) \/ GiveUpReversal(v)
  <2>1. UNCHANGED <<accrued, pay, missed, paid, lost, clamped, twice>>
    BY <1>3 DEF ReadPayment, GiveUpReversal, loanHist
  <2>2. \A q \in Readers : SameReader(q)
    BY <1>2, <2>1, SamePayment
  <2> QED
    BY <1>1, <2>1, <2>2, QuietBalances
<1>4. CASE Reverse(v)
  <2> DEFINE p == undo[v].payment
  <2>1. p \in Cashiers /\ pay[p].at \in {"applied", "reversed"} /\ undo[v].at = "read"
    BY <1>4 DEF Reverse, ServicingTypeOK
  <2> HIDE DEF p
  <2>2. PICK k \in Loans : pay[p].loan = k
    BY <2>1 DEF ServicingTypeOK
  <2>3. PICK A \in Nat : pay[p].share = A
    BY <1>t, <2>1 DEF PayState
  <2>4. /\ accrued' = [accrued EXCEPT ![k] = @ + A] /\ lost' = lost /\ clamped' = clamped
        /\ pay' = [pay EXCEPT ![p].at = "reversed"] /\ missed' = Heard(k, "reversal")
        /\ \/ twice' = twice \cup {k} /\ paid' = paid
           \/ twice' = twice /\ paid' = [paid EXCEPT ![k] = @ - A]
    BY <1>4, <2>2, <2>3 DEF Reverse, p
  <2>5. \A l \in Loans : l # k => /\ accrued'[l] = accrued[l] /\ Credited(l)' = Credited(l)
                                  /\ paid'[l] = paid[l] /\ lost'[l] = lost[l]
                                  /\ (l \in clamped' \cup twice' <=> l \in clamped \cup twice)
    BY <1>t, <1>1, <2>4
  <2>6. /\ accrued'[k] = accrued[k] + A /\ accrued[k] \in Nat /\ paid[k] \in Int
        /\ \/ k \in twice' /\ paid'[k] = paid[k]
           \/ twice' = twice /\ paid'[k] = paid[k] - A
    BY <1>t, <2>4
  <2>7. Credited(k)' = Credited(k) /\ Credited(k) \in Int /\ LoanBalances(k)
    BY <1>t, <1>1, BalanceParts
  <2>8. LoanBalances(k)'
    <3>1. CASE k \in twice'
      BY <3>1 DEF LoanBalances
    <3>2. CASE twice' = twice /\ paid'[k] = paid[k] - A
      <4>1. accrued[k] = Credited(k) - paid[k] => accrued'[k] = Credited(k) - paid'[k]
        BY <2>6, <2>7, <3>2
      <4>2. accrued[k] <= Credited(k) - paid[k] => accrued'[k] <= Credited(k) - paid'[k]
        BY <2>6, <2>7, <3>2
      <4> QED
        BY <2>4, <2>7, <3>2, <4>1, <4>2 DEF LoanBalances
    <3> QED
      BY <2>6, <3>1, <3>2
  <2>9. k \in twice' \/ Credited(k) - paid[k] <= Credited(k)' - paid'[k]
    BY <2>6, <2>7
  <2>10. \A q \in Readers : SameReader(q)
    <3>1. pay'[p].at = "reversed" /\ \A x \in Cashiers : x # p => pay'[x] = pay[x]
      BY <1>t, <2>1, <2>4 DEF PayState
    <3> QED
      BY <1>2, <2>1, <3>1, SamePayment
  <2>11. "reversal" \in Writers /\ paid'[k] \in Int /\ Credited(k)' \in Int
    BY <2>6, <2>7 DEF Writers
  <2> QED
    BY <1>1, <2>4, <2>5, <2>6, <2>7, <2>8, <2>9, <2>10, <2>11, WriteBalances
<1> QED
  BY <1>3, <1>4 DEF ReverserStep

(* The steps of a saver: what it writes is what it read.                     *)
LEMMA SaverBalances ==
  ASSUME ServicingTypeOK, BooksInv, BalanceInv, NEW s \in Savers, SaverStep(s)
  PROVE  BooksInv' /\ BalanceInv'
<1>t. /\ entity \in [Savers -> EntityType] /\ entity[s] \in EntityType /\ s \in Readers
      /\ s \notin Cashiers /\ accrued \in [Loans -> Nat] /\ paid \in [Loans -> Int]
      /\ missed \in [Readers -> SUBSET Writers] /\ lost \in [Loans -> SUBSET Writers]
      /\ TypeOK /\ \A l \in Loans : Credited(l) \in Int
  BY ServicingConstants, CreditedInt DEF ServicingTypeOK, TypeOK, Readers
<1>b. (\A l \in Loans : LoanBalances(l)) /\ (\A q \in Readers : Recent(q))
  BY BalanceParts
<1>e. UNCHANGED <<rows, credits, pc, loan, date, principal, rate>> /\ EntityStep(s)
      /\ UNCHANGED <<pay, paid, clamped, twice>>
  BY DEF SaverStep, EntityStep, EntityReads, LoadForActivation, LoadForModification, Load,
     Compare, Save, Abandon, db, local, hist
<1>1. BooksInv' /\ \A l \in Loans : Credited(l)' = Credited(l)
  BY <1>e, SameBooks
<1>2. \A x \in Savers : x # s => entity'[x] = entity[x]
  BY <1>e, <1>t DEF EntityStep, EntityReads, LoadForActivation, LoadForModification, Load,
     Compare, Save, Abandon
<1>o. \A q \in Readers : q # s => SameReader(q)
  BY <1>2, <1>e, SamePayment
<1>3. ASSUME NEW k \in Loans, NEW row, Load(s, k, row), row.accrued = accrued[k], EntityReads(s)
      PROVE  BooksInv' /\ BalanceInv'
  <2>1. UNCHANGED <<accrued, missed, lost>> /\ entity[s].at = "idle"
    BY <1>3 DEF Load, db, SaverStep, Save
  <2>2. /\ entity'[s].at = "loaded" /\ entity'[s].loan = k /\ entity'[s].row = row
        /\ entity'[s].cols = {}
    BY <1>3, <1>t DEF Load
  <2>3. missed[s] = {}
    BY <1>b, <1>t, <2>1 DEF Recent, HeardOnlyWhileReading, Reading, Holds
  <2>4. Opens(s)
    BY <1>3, <1>t, <2>1, <2>2, <2>3 DEF Opens, Reading, Known, Holds
  <2> QED
    BY <1>1, <1>e, <1>o, <2>1, <2>4, QuietBalances
<1>4. CASE LoadForActivation(s)
  <2>1. PICK k \in Loans : Load(s, k, [Stored(k) EXCEPT !.status = "ACTIVE",
                                                       !.lastAccrualDate = Origination[k]])
    BY <1>4 DEF LoadForActivation
  <2> DEFINE row == [Stored(k) EXCEPT !.status = "ACTIVE", !.lastAccrualDate = Origination[k]]
  <2>2. row.accrued = accrued[k]
    BY DEF Stored
  <2>3. Load(s, k, row)
    BY <2>1
  <2> HIDE DEF row
  <2> QED
    BY <1>3, <1>4, <2>2, <2>3 DEF EntityReads
<1>5. CASE LoadForModification(s)
  <2>1. PICK k \in Loans : Load(s, k, Stored(k))
    BY <1>5 DEF LoadForModification
  <2>2. Stored(k).accrued = accrued[k]
    BY DEF Stored
  <2> QED
    BY <1>3, <1>5, <2>1, <2>2 DEF EntityReads
<1>6. CASE Compare(s)
  <2>1. UNCHANGED <<accrued, missed, lost>> /\ entity[s].at = "loaded"
    BY <1>6, <1>t DEF Compare, db, SaverStep, EntityReads, Save
  <2>2. PICK k \in Loans : entity[s].loan = k
    BY <1>t, <2>1 DEF TypeOK, Holds
  <2> DEFINE cols == {c \in Columns : entity[s].row[c] # Stored(k)[c]}
  <2>3. entity' = [entity EXCEPT ![s].at = "compared", ![s].cols = cols]
    BY <1>6, <2>2 DEF Compare
  <2>4. "accrued" \in cols => entity[s].row.accrued # accrued[k]
    BY DEF Stored
  <2> HIDE DEF cols
  <2>5. /\ entity'[s].at = "compared" /\ entity'[s].loan = entity[s].loan
        /\ entity'[s].row = entity[s].row /\ entity'[s].cols = cols
    BY <1>t, <2>3 DEF EntityType
  <2>6. Compares(s)
    BY <1>t, <2>1, <2>2, <2>4, <2>5 DEF Compares, Reading, Known, Holds
  <2> QED
    BY <1>1, <1>e, <1>o, <2>1, <2>6, QuietBalances
<1>7. CASE Save(s) \/ Abandon(s)
  <2>1. PICK k \in Loans : entity[s].loan = k
    BY <1>7, <1>t DEF Save, Abandon, TypeOK, Holds
  <2>2. Reading(s, k)
    BY <1>7, <1>t, <2>1 DEF Save, Abandon, Reading, Holds
  <2>3. /\ entity'[s].at = "done" /\ entity'[s].cols = {}
        /\ entity[s].at # "idle" /\ ~EntityReads(s)
    BY <1>7, <1>t DEF Save, Abandon, NoEntity, EntityReads, LoadForActivation,
       LoadForModification, Load, Compare
  <2>4. missed'[s] = {}
    BY <1>t, <2>3 DEF SaverStep, Heard
  <2>5. Leaves(s)
    BY <1>t, <2>3, <2>4 DEF Leaves, Reading, Holds
  <2>6. CASE Save(s) /\ "accrued" \in entity[s].cols
    <3>1. /\ accrued' = [accrued EXCEPT ![k] = entity[s].row.accrued]
          /\ lost' = [lost EXCEPT ![k] = @ \cup missed[s]]
          /\ \A q \in Readers : q # s => missed'[q] = Heard(k, "save")[q]
      BY <2>1, <2>3, <2>6 DEF Save, SaverStep, Heard
    <3>2. \A l \in Loans : l # k => /\ accrued'[l] = accrued[l] /\ Credited(l)' = Credited(l)
                                    /\ paid'[l] = paid[l] /\ lost'[l] = lost[l]
                                    /\ (l \in clamped' \cup twice' <=> l \in clamped \cup twice)
      BY <1>t, <1>1, <1>e, <3>1
    <3>3. Recent(s) /\ HoldsRecent(s, k) /\ Known(s) = entity[s].row.accrued /\ LoanBalances(k)
      BY <1>b, <1>t DEF Recent, Known
    <3>4. missed[s] # {}
      BY <1>t, <2>6, <3>3 DEF Recent, HeardOnlyWhileReading
    <3>5. accrued'[k] = Known(s) /\ lost'[k] = lost[k] \cup missed[s] /\ lost'[k] # {}
      BY <1>t, <3>1, <3>3, <3>4
    <3>6. LoanBalances(k)'
      <4>1. "payment" \notin lost'[k] /\ k \notin clamped \cup twice
              => accrued'[k] <= Credited(k) - paid[k]
        BY <2>2, <3>3, <3>5 DEF HoldsRecent
      <4>2. Credited(k)' = Credited(k)
        BY <1>1
      <4> QED
        BY <1>e, <3>5, <4>1, <4>2 DEF LoanBalances
    <3>7. \A q \in Readers : Leaves(q) \/ (SameReader(q) /\ missed'[q] = Heard(k, "save")[q])
      BY <1>o, <2>5, <3>1
    <3>8. "save" \in Writers /\ Credited(k) \in Int /\ Credited(k)' = Credited(k) /\ paid[k] \in Int
      BY <1>t, <1>1 DEF Writers
    <3> QED
      BY <1>1, <1>e, <3>2, <3>5, <3>6, <3>7, <3>8, WriteBalances
  <2>7. CASE ~(Save(s) /\ "accrued" \in entity[s].cols)
    <3>1. /\ accrued' = accrued /\ lost' = lost
          /\ \A q \in Readers : q # s => missed'[q] = missed[q]
      BY <1>7, <1>t, <2>3, <2>7 DEF Save, Abandon, SaverStep, db
    <3> QED
      BY <1>1, <1>e, <1>o, <2>5, <3>1, QuietBalances
  <2> QED
    BY <2>6, <2>7
<1> QED
  BY <1>e, <1>4, <1>5, <1>6, <1>7 DEF EntityStep, EntityReads

(* The steps of the engine: an increment adds as much to the column as to    *)
(* the books.                                                                *)
LEMMA EngineBalances ==
  ASSUME ServicingTypeOK, LedgerInv, BooksInv, BalanceInv, NEW r \in Runs, EngineStep(r)
  PROVE  BooksInv' /\ BalanceInv'
<1>t. /\ accrued \in [Loans -> Nat] /\ paid \in [Loans -> Int]
      /\ TypeOK /\ \A l \in Loans : Credited(l) \in Int
  BY CreditedInt DEF ServicingTypeOK, TypeOK
<1>0. UNCHANGED <<pay, paid, lost, clamped, twice>>
  BY DEF EngineStep, loanHist
<1>1. /\ BooksInv'
      /\ \/ accrued' = accrued /\ \A l \in Loans : Credited(l)' = Credited(l)
         \/ CreditLoan(r)
  BY <1>t, EngineBooks DEF EngineStep
<1>2. entity' = entity
  BY DEF EngineStep, Start, Trigger, StartBackfill, Fault, StatementFails, ListFails, Crash,
     Step, ListTenant, LastTenant, NextLoan, LastLoan, CheckExisting, ReadBalance, ResolveFixed,
     ResolveFloating, NoIndexRate, InsertRow, InsertRefused, CreditLoan, StampLoan
<1>s. \A q \in Readers : SameReader(q)
  BY <1>0, <1>2, SamePayment
<1>3. CASE accrued' = accrued /\ \A l \in Loans : Credited(l)' = Credited(l)
  <2>1. missed' = missed
    BY <1>3 DEF EngineStep
  <2> QED
    BY <1>0, <1>1, <1>3, <1>s, <2>1, QuietBalances
<1>4. CASE CreditLoan(r) /\ ~(accrued' = accrued /\ \A l \in Loans : Credited(l)' = Credited(l))
  <2> DEFINE A == Actual360(principal[r], rate[r])
  <2>1. PICK k \in Loans : loan[r] = k
    BY <1>t, <1>4, CreditedMore
  <2>2. /\ A \in Nat /\ loan' = loan
        /\ Credited(loan[r])' = Credited(loan[r]) + A
        /\ \A l \in Loans : l # k => Credited(l)' = Credited(l)
    BY <1>t, <1>4, <2>1, CreditedMore DEF CreditLoan, local
  <2>3. Credited(k)' = Credited(k) + A
    BY <2>1, <2>2 DEF Credited, CreditedRows
  <2>4. accrued' = [accrued EXCEPT ![k] = @ + A]
    BY <1>4, <2>1 DEF CreditLoan
  <2> HIDE DEF A
  <2>5. /\ accrued'[k] = accrued[k] + A /\ accrued[k] \in Nat /\ Credited(k) \in Int
        /\ paid[k] \in Int /\ \A l \in Loans : l # k => accrued'[l] = accrued[l]
    BY <1>t, <2>4
  <2>6. accrued' # accrued
    <3>1. ASSUME accrued' = accrued PROVE \A l \in Loans : Credited(l)' = Credited(l)
      <4>1. A = 0
        BY <2>2, <2>5, <3>1
      <4>2. Credited(k)' = Credited(k)
        BY <2>3, <2>5, <4>1
      <4> QED
        BY <2>2, <4>2
    <3> QED
      BY <1>4, <3>1
  <2>7. missed' = Heard(k, "accrual")
    BY <2>1, <2>6 DEF EngineStep
  <2>8. LoanBalances(k)'
    <3>1. LoanBalances(k)
      BY BalanceParts
    <3>2. accrued[k] = Credited(k) - paid[k] => accrued'[k] = Credited(k)' - paid[k]
      BY <2>2, <2>3, <2>5
    <3>3. accrued[k] <= Credited(k) - paid[k] => accrued'[k] <= Credited(k)' - paid[k]
      BY <2>2, <2>3, <2>5
    <3> QED
      BY <1>0, <3>1, <3>2, <3>3 DEF LoanBalances
  <2>9. Credited(k)' \in Int /\ Credited(k) - paid[k] <= Credited(k)' - paid[k] /\ "accrual" \in Writers
    BY <2>2, <2>3, <2>5 DEF Writers
  <2> QED
    BY <1>0, <1>1, <1>s, <2>2, <2>5, <2>7, <2>8, <2>9, WriteBalances
<1> QED
  BY <1>1, <1>3, <1>4

(* Every step of the composition keeps the books and the balance. *)
LEMMA BalanceStep ==
  ServicingTypeOK /\ LedgerInv /\ BooksInv /\ BalanceInv /\ [ServicingNext]_svars
    => BooksInv' /\ BalanceInv'
<1> SUFFICES ASSUME ServicingTypeOK, LedgerInv, BooksInv, BalanceInv, [ServicingNext]_svars
             PROVE  BooksInv' /\ BalanceInv'
  OBVIOUS
<1>1. ASSUME NEW p \in Cashiers, CashierStep(p) PROVE BooksInv' /\ BalanceInv'
  BY <1>1, CashierBalances
<1>2. ASSUME NEW v \in Reversers, ReverserStep(v) PROVE BooksInv' /\ BalanceInv'
  BY <1>2, ReverserBalances
<1>3. ASSUME NEW q \in Savers, SaverStep(q) PROVE BooksInv' /\ BalanceInv'
  BY <1>3, SaverBalances
<1>4. ASSUME NEW r \in Runs, EngineStep(r) PROVE BooksInv' /\ BalanceInv'
  BY <1>4, EngineBalances
<1>5. ASSUME DayPasses \/ UNCHANGED svars PROVE BooksInv' /\ BalanceInv'
  <2>1. UNCHANGED <<rows, credits, pc, loan, date, principal, rate, accrued, entity, pay, missed,
                    paid, lost, clamped, twice>>
    BY <1>5 DEF DayPasses, Midnight, svars, vars, payVars, loanHist, db, local, hist
  <2>2. BooksInv' /\ \A l \in Loans : Credited(l)' = Credited(l)
    BY <2>1, SameBooks
  <2>3. \A q \in Readers : SameReader(q) /\ missed'[q] = missed[q]
    BY <2>1, SamePayment
  <2> QED
    BY <2>1, <2>2, <2>3, QuietBalances
<1> QED
  BY <1>1, <1>2, <1>3, <1>4, <1>5 DEF ServicingNext, CashierStep, ReverserStep

(* At the beginning nothing was charged and nothing paid. *)
LEMMA InitBalance == ServicingInit => BooksInv /\ BalanceInv
<1> SUFFICES ASSUME ServicingInit PROVE BooksInv /\ BalanceInv
  OBVIOUS
<1>1. BooksInv
  BY FS_EmptySet DEF ServicingInit, Init, BooksInv, PendingAmounts
<1>2. ASSUME NEW l \in Loans PROVE accrued[l] = 0 /\ Credited(l) = 0 /\ paid[l] = 0
  <2>1. CreditedRows(l) = {}
    BY DEF ServicingInit, Init, CreditedRows
  <2> QED
    BY <2>1, SumEmpty DEF ServicingInit, Init, Credited
<1>3. ReadsAreRecent
  BY DEF ServicingInit, Init, ReadsAreRecent, Recent, HeardOnlyWhileReading, HoldsRecent, Reading,
     Holds, NoEntity
<1>4. InterestBalances /\ OverwritesFavourTheBorrower
  BY <1>2 DEF InterestBalances, OverwritesFavourTheBorrower
<1> QED
  BY <1>1, <1>3, <1>4 DEF BalanceInv

(* The inductive invariant of the interest: ledger, rows on their way, what *)
(* payments and savers have read, and balances.                             *)
THEOREM InterestInductive ==
  ServicingSpec => [](ServicingTypeOK /\ LedgerInv /\ BooksInv /\ BalanceInv)
<1> DEFINE All == ServicingTypeOK /\ LedgerInv /\ BooksInv /\ BalanceInv
<1>1. ServicingInit => All
  BY InitServicingType, InitLedger, InitBalance DEF ServicingInit
<1>2. All /\ [ServicingNext]_svars => All'
  BY ServicingStep, BalanceStep
<1> QED
  BY <1>1, <1>2, PTL DEF ServicingSpec

(* accrued_interest is exactly what the ledger charged less the shares of   *)
(* the payments in force, for any number of loans, executions and sessions, *)
(* unless a payment or a save wrote over something it had not read, a       *)
(* payment took more interest than the loan owed, or two reversals gave the *)
(* same payment back.                                                       *)
THEOREM InterestIsBalanced == ServicingSpec => []InterestBalances
<1>1. BalanceInv => InterestBalances
  BY DEF BalanceInv
<1> QED
  BY <1>1, InterestInductive, PTL

(* A payment or a save that overwrites a night, a reversal or a save costs  *)
(* the lender: the borrower owes more than the ledger says only after a     *)
(* payment was overwritten, overpaid or given back twice.                   *)
THEOREM OverwritesCostTheLender == ServicingSpec => []OverwritesFavourTheBorrower
<1>1. BalanceInv => OverwritesFavourTheBorrower
  BY DEF BalanceInv
<1> QED
  BY <1>1, InterestInductive, PTL
=============================================================================
