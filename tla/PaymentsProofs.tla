--------------------------- MODULE PaymentsProofs ---------------------------
(***************************************************************************)
(* For any sessions, loans, installments, fees and requests: the types, the*)
(* numbers of the payments, the book of payments the sessions implement,   *)
(* and what a loan, an installment and a fee say of the money received; at *)
(* the end, all of it for clients that post what a preview suggested.      *)
(*                                                                         *)
(* The invariant says, of a session in the middle of its transaction, what *)
(* it holds (the rows it wrote, the number it took, the entity it is about *)
(* to save); the database changes at a commit only, or when a fee is       *)
(* assessed, so most of the steps concern one session.                     *)
(***************************************************************************)
EXTENDS Preview, SumTheorems

RowOf(r) == IF r \in Loans THEN LoanRow
            ELSE IF r \in Items THEN Item
            ELSE IF r \in Fees THEN FeeRow ELSE PaymentRow

Columns == {"principal", "interest", "fees", "status", "paid"}

WellFormed(q) == q.loan \in Loans /\ q.allocations \in Seq(Allocation)

\* the statements of the loop over the allocations, and after the insert of the payment
Loop    == {"alloc", "readItem", "readFee", "diff", "save", "next"}
Holding == Loop \cup {"loan", "refresh", "commit"}

\* the statements of each kind of session
Labels(s) ==
  {"idle", "commit"} \cup Ended \cup
  (IF s \in Applies THEN Loop \cup {"number", "insert", "loan", "refresh"}
   ELSE IF s \in Reverses THEN (Loop \ {"readFee"}) \cup {"payment"}
   ELSE {"diff", "save"})

Shapes ==
  /\ DOMAIN db = Rows /\ DOMAIN own = Sessions /\ DOMAIN pc = Sessions
  /\ DOMAIN req = Sessions /\ DOMAIN snap = Sessions /\ DOMAIN num = Sessions
  /\ DOMAIN k = Sessions /\ DOMAIN target = Sessions /\ DOMAIN ent = Sessions
  /\ DOMAIN cols = Sessions
  /\ num \in [Sessions -> 0 .. Cardinality(Applies) + 1]   \* only applyPayment takes one
  /\ reversals \in [Applies -> Nat]

Database ==
  /\ \A r \in Rows : db[r] \in RowOf(r) \cup {None}
  /\ \A r \in Loans \cup Items : db[r] # None
  /\ NumbersDense

(* What a session in the middle of its transaction holds.                   *)
Working(s) ==
  /\ pc[s] \in Labels(s)
  /\ \A r \in DOMAIN own[s] : r \in Rows /\ own[s][r] \in RowOf(r) /\ (r \in Fees => db[r] # None)
  /\ pc[s] \in {"idle", "number", "insert"} \cup Ended => DOMAIN own[s] = {}
  /\ cols[s] \subseteq Columns
  /\ pc[s] \in {"idle", "number", "insert"} => k[s] = 1
  /\ s \notin Waives /\ pc[s] # "idle" => WellFormed(req[s])
  /\ s \notin Waives /\ pc[s] \notin {"idle", "rejected"} =>
       k[s] \in 1 .. Len(Allocations(s))
  /\ pc[s] = "readItem" => Alloc(s).item \in Items
  /\ pc[s] = "readFee" => Alloc(s).fee \in Fees /\ Alloc(s).bucket = "FEE"
  /\ pc[s] \in {"diff", "save"} =>
       /\ target[s] \in Items \cup Fees
       /\ ent[s] \in RowOf(target[s]) /\ db[target[s]] # None
       /\ s \in Waives => target[s] \in Fees
       /\ s \notin Waives /\ target[s] \in Items => target[s] = Alloc(s).item
       /\ s \notin Waives /\ target[s] \in Fees =>
            s \in Applies /\ target[s] = Alloc(s).fee /\ Alloc(s).bucket = "FEE"

(* A payment is uncommitted exactly while its session is past the insert,   *)
(* under a number between 1 and the next one that no committed payment has. *)
Paying(s) ==
  /\ DOMAIN own[s] \cap Applies \subseteq {s}
  /\ s \in DOMAIN own[s] <=> pc[s] \in Holding
  /\ pc[s] \notin {"idle", "rejected"} => snap[s] \in LoanRow
  /\ pc[s] \in Holding \cup {"insert"} =>
       num[s] \in 1 .. Cardinality(PaymentsOf(req[s].loan)) + 1
  /\ s \in DOMAIN own[s] =>
       /\ own[s][s] = [loan |-> req[s].loan, number |-> num[s], status |-> "APPLIED",
                       allocations |-> Allocations(s)]
       /\ num[s] \notin NumbersOf(req[s].loan)
  /\ db[s] # None => pc[s] = "committed"

(* A reversal has read a committed payment and changes nothing but its      *)
(* status.                                                                  *)
Reversing(s) ==
  /\ pc[s] # "idle" => /\ req[s].payment \in Applies /\ db[req[s].payment] # None
                       /\ Allocations(s) = db[req[s].payment].allocations
                       /\ req[s].loan = db[req[s].payment].loan
  /\ \A p \in DOMAIN own[s] \cap Applies :
       p = req[s].payment /\ own[s][p] = [db[p] EXCEPT !.status = "REVERSED"]

(* No two uncommitted payments of a loan have the same number.              *)
KeysApart ==
  \A s, t \in Applies :
    s # t /\ s \in DOMAIN own[s] /\ t \in DOMAIN own[t] /\ own[s][s].loan = own[t][t].loan
      => own[s][s].number # own[t][t].number

SessionOK(s) ==
  /\ Working(s)
  /\ s \in Applies => Paying(s)
  /\ s \in Reverses => Reversing(s)
  /\ s \in Waives => DOMAIN own[s] \subseteq Fees

PaymentsInv ==
  /\ Shapes /\ Database /\ KeysApart
  /\ \A s \in Sessions : SessionOK(s)

----------------------------------------------------------------------------
(* Max and Min of two numbers, as the service uses Math.max and Math.min.   *)
LEMMA MaxOfTwo ==
  ASSUME NEW x \in Int
  PROVE  Max({0, x}) \in Nat /\ Max({0, x}) >= x /\ Max({0, x}) \in {0, x}
<1>1. \E m \in {0, x} : \A y \in {0, x} : m >= y
  <2>1. CASE x >= 0 BY <2>1
  <2>2. CASE ~ (x >= 0) BY <2>2
  <2> QED BY <2>1, <2>2
<1>2. Max({0, x}) \in {0, x} /\ \A y \in {0, x} : Max({0, x}) >= y
  BY <1>1 DEF Max
<1> QED BY <1>2

(* Math.min of two amounts is one of them and exceeds neither.              *)
LEMMA MinOfTwo ==
  ASSUME NEW x \in Int, NEW y \in Int
  PROVE  Min({x, y}) \in Int /\ Min({x, y}) <= y /\ Min({x, y}) <= x
         /\ Min({x, y}) \in {x, y}
<1>1. \E m \in {x, y} : \A z \in {x, y} : m <= z
  <2>1. CASE x <= y BY <2>1
  <2>2. CASE ~ (x <= y) BY <2>2
  <2> QED BY <2>1, <2>2
<1>2. Min({x, y}) \in {x, y} /\ \A z \in {x, y} : Min({x, y}) <= z
  BY <1>1 DEF Min
<1> QED BY <1>2

(* The payments of a loan are finitely many, and when their numbers are     *)
(* dense, MAX + 1 is their count plus one.                                  *)
LEMMA PaymentsFinite ==
  ASSUME NEW l
  PROVE  /\ IsFiniteSet(PaymentsOf(l)) /\ Cardinality(PaymentsOf(l)) \in Nat
         /\ Cardinality(PaymentsOf(l)) <= Cardinality(Applies)
         /\ Cardinality(Applies) \in Nat
<1>1. PaymentsOf(l) \subseteq Applies BY DEF PaymentsOf
<1>2. IsFiniteSet(Applies) BY PaymentsConstants
<1> QED BY <1>1, <1>2, FS_Subset, FS_CardinalityType

(* Numbers given one by one to as many payments are 1, 2, ...: the          *)
(* greatest plus one is the count plus one.                                 *)
LEMMA NextIsCountPlusOne ==
  ASSUME NumbersDense, NEW l \in Loans
  PROVE  NextNumber(l) = Cardinality(PaymentsOf(l)) + 1
<1> DEFINE n == Cardinality(PaymentsOf(l))
<1>1. n \in Nat BY PaymentsFinite
<1>2. NumbersOf(l) = 1 .. n BY DEF NumbersDense
<1> HIDE DEF n
<1>3. CASE n = 0
  <2>1. NumbersOf(l) = {} BY <1>2, <1>3
  <2> QED BY <2>1, <1>3 DEF NextNumber, n
<1>4. CASE n # 0
  <2>1. n \in 1 .. n /\ \A y \in 1 .. n : n >= y BY <1>1, <1>4
  <2>2. Max(1 .. n) \in 1 .. n /\ \A y \in 1 .. n : Max(1 .. n) >= y
    BY <2>1 DEF Max
  <2>3. Max(1 .. n) = n BY <2>1, <2>2, <1>1
  <2>4. NumbersOf(l) # {} BY <2>1, <1>2
  <2> QED BY <2>3, <2>4, <1>2 DEF NextNumber, n
<1> QED BY <1>3, <1>4

(* Sums over the allocations of a request.                                  *)
LEMMA AllocationSums ==
  ASSUME NEW allocs \in Seq(Allocation), NEW T \in SUBSET (DOMAIN allocs)
  PROVE  /\ IsFiniteSet(DOMAIN allocs) /\ IsFiniteSet(T)
         /\ \A n \in DOMAIN allocs :
              [m \in DOMAIN allocs |-> allocs[m].amount][n] \in Nat
         /\ SumFunctionOnSet([m \in DOMAIN allocs |-> allocs[m].amount], T) \in Nat
<1>1. DOMAIN allocs = 1 .. Len(allocs) /\ Len(allocs) \in Nat OBVIOUS
<1>2. IsFiniteSet(DOMAIN allocs) BY <1>1, FS_Interval
<1>3. IsFiniteSet(T) BY <1>2, FS_Subset
<1>4. \A n \in DOMAIN allocs : allocs[n] \in Allocation BY <1>1
<1>5. \A n \in DOMAIN allocs : [m \in DOMAIN allocs |-> allocs[m].amount][n] \in Nat
  BY <1>4 DEF Allocation
<1>6. SumFunctionOnSet([m \in DOMAIN allocs |-> allocs[m].amount], T) \in Nat
  BY <1>3, <1>5, SumNat
<1> QED BY <1>2, <1>3, <1>5, <1>6

(* Summing amounts row by row stays in the amounts.                         *)
LEMMA SumOfNat ==
  ASSUME NEW allocs \in Seq(Allocation), NEW buckets
  PROVE  SumOf(allocs, buckets) \in Nat
BY AllocationSums DEF SumOf

(* Writing a row.                                                           *)
LEMMA PutFacts ==
  ASSUME DOMAIN own = Sessions, NEW s \in Sessions, NEW row, NEW val, Put(s, row, val)
  PROVE  /\ DOMAIN own' = Sessions
         /\ \A t \in Sessions \ {s} : own'[t] = own[t]
         /\ DOMAIN own'[s] = DOMAIN own[s] \cup {row}
         /\ own'[s][row] = val
         /\ \A r \in DOMAIN own[s] : r # row => own'[s][r] = own[s][r]
<1>1. own' = [own EXCEPT ![s] = Over([r \in {row} |-> val], own[s])] BY DEF Put
<1>2. own'[s] = Over([r \in {row} |-> val], own[s]) BY <1>1
<1>3. DOMAIN [r \in {row} |-> val] = {row} /\ [r \in {row} |-> val][row] = val OBVIOUS
<1> QED BY <1>1, <1>2, <1>3 DEF Over

(* What a session sees of a row there is.                                   *)
LEMMA SeeTyped ==
  ASSUME Database, NEW s \in Sessions, Working(s), NEW r \in Rows,
         db[r] # None \/ r \in DOMAIN own[s]
  PROVE  See(s, r) \in RowOf(r)
BY DEF See, Database, Working

(* The row types.                                                           *)
LEMMA RowKinds ==
  /\ \A r \in Loans : r \in Rows /\ RowOf(r) = LoanRow
  /\ \A r \in Items : r \in Rows /\ RowOf(r) = Item
  /\ \A r \in Fees : r \in Rows /\ RowOf(r) = FeeRow
  /\ \A r \in Applies : r \in Rows /\ RowOf(r) = PaymentRow
  /\ \A r \in Rows : None \notin RowOf(r)
BY PaymentsConstants DEF RowOf, Rows

\* s takes a step of its own, which leaves the database as it is
Own(s) ==
  /\ Shapes' /\ db' = db
  /\ \A t \in Sessions \ {s} :
       /\ own'[t] = own[t] /\ pc'[t] = pc[t] /\ req'[t] = req[t] /\ snap'[t] = snap[t]
       /\ num'[t] = num[t] /\ k'[t] = k[t] /\ target'[t] = target[t] /\ ent'[t] = ent[t]
       /\ cols'[t] = cols[t]

(* What a session knows of the database stays true while that stays.        *)
LEMMA SameDatabase ==
  ASSUME db' = db
  PROVE  /\ \A l : PaymentsOf(l)' = PaymentsOf(l) /\ NumbersOf(l)' = NumbersOf(l)
         /\ NumbersDense' = NumbersDense
         /\ Database' = Database
<1>1. \A l : PaymentsOf(l)' = PaymentsOf(l) BY DEF PaymentsOf
<1>2. \A l : NumbersOf(l)' = NumbersOf(l) BY <1>1 DEF NumbersOf
<1>3. NumbersDense' = NumbersDense BY <1>1, <1>2 DEF NumbersDense
<1> QED BY <1>1, <1>2, <1>3 DEF Database

(* So a step of s is about s, and about the key it inserts.                 *)
LEMMA OwnStep ==
  ASSUME PaymentsInv, NEW s \in Sessions, Own(s), SessionOK(s)',
         s \in Applies /\ s \in DOMAIN own'[s] =>
           \/ s \in DOMAIN own[s] /\ own'[s][s] = own[s][s]
           \/ \A t \in Applies \ {s} :
                t \in DOMAIN own[t] /\ own[t][t].loan = own'[s][s].loan
                  => own[t][t].number # own'[s][s].number
  PROVE  PaymentsInv'
<1>1. Shapes' BY DEF Own
<1>2. Database' BY SameDatabase DEF PaymentsInv, Own
<1>3. ASSUME NEW t \in Sessions, t # s PROVE SessionOK(t)'
  <2>0. db' = db BY DEF Own
  <2>1. SessionOK(t) BY DEF PaymentsInv
  <2>2. /\ own'[t] = own[t] /\ pc'[t] = pc[t] /\ req'[t] = req[t] /\ snap'[t] = snap[t]
        /\ num'[t] = num[t] /\ k'[t] = k[t] /\ target'[t] = target[t] /\ ent'[t] = ent[t]
        /\ cols'[t] = cols[t]
    BY <1>3 DEF Own
  <2>3. Working(t)' BY <2>0, <2>1, <2>2 DEF SessionOK, Working, Alloc, Allocations
  <2>4. t \in Applies => Paying(t)'
    BY <2>0, <2>1, <2>2, SameDatabase DEF SessionOK, Paying, Allocations
  <2>5. t \in Reverses => Reversing(t)'
    BY <2>0, <2>1, <2>2 DEF SessionOK, Reversing, Allocations
  <2> QED BY <2>1, <2>2, <2>3, <2>4, <2>5 DEF SessionOK
<1>4. KeysApart'
  <2> SUFFICES ASSUME NEW u \in Applies, NEW t \in Applies, u # t,
                      u \in DOMAIN own'[u], t \in DOMAIN own'[t],
                      own'[u][u].loan = own'[t][t].loan
               PROVE  own'[u][u].number # own'[t][t].number
    BY DEF KeysApart
  <2>1. u \in Sessions /\ t \in Sessions BY DEF Sessions
  <2>2. KeysApart BY DEF PaymentsInv
  <2>3. CASE u # s /\ t # s BY <2>1, <2>2, <2>3 DEF Own, KeysApart
  <2>4. CASE u = s BY <2>1, <2>2, <2>4 DEF Own, KeysApart
  <2>5. CASE t = s BY <2>1, <2>2, <2>5 DEF Own, KeysApart
  <2> QED BY <2>3, <2>4, <2>5
<1> QED BY <1>1, <1>2, <1>3, <1>4 DEF PaymentsInv

----------------------------------------------------------------------------
(* The initial state, and one lemma per statement.                          *)

(* The initial states satisfy the invariant.                                *)
LEMMA InitInv == Init => PaymentsInv
<1> SUFFICES ASSUME Init PROVE PaymentsInv OBVIOUS
<1> USE DEF Init
<1>1. Shapes
  <2>1. Cardinality(Applies) \in Nat BY PaymentsConstants, FS_CardinalityType
  <2> QED BY <2>1 DEF Shapes
<1>2. \A s \in Sessions : DOMAIN own[s] = {} OBVIOUS
<1>3. \A p \in Applies : db[p] = None
  BY PaymentsConstants, RowKinds
<1>4. NumbersDense
  <2> SUFFICES ASSUME NEW l \in Loans PROVE NumbersOf(l) = 1 .. Cardinality(PaymentsOf(l))
    BY DEF NumbersDense
  <2>1. PaymentsOf(l) = {} BY <1>3 DEF PaymentsOf
  <2>2. NumbersOf(l) = {} BY <2>1 DEF NumbersOf
  <2>3. Cardinality(PaymentsOf(l)) = 0 BY <2>1, FS_EmptySet
  <2> QED BY <2>2, <2>3
<1>5. ASSUME NEW r \in Rows PROVE db[r] \in RowOf(r) \cup {None}
  <2>1. CASE r \in Loans BY <2>1, PaymentsConstants DEF RowOf
  <2>2. CASE r \in Items
    <3>1. db[r] = [principal |-> 0, interest |-> 0, fees |-> 0, status |-> "PENDING"]
      BY <2>2, PaymentsConstants, RowKinds
    <3> HIDE DEF Init
    <3>2. db[r] \in Item BY <3>1 DEF Item
    <3> QED BY <3>2, <2>2, RowKinds
  <2>3. CASE r \in Fees
    <3>1. db[r] = NewFee \/ db[r] = None BY <2>3, PaymentsConstants, RowKinds
    <3> HIDE DEF Init
    <3>2. NewFee \in FeeRow BY DEF FeeRow, NewFee
    <3> QED BY <3>1, <3>2, <2>3, RowKinds
  <2>4. CASE r \in Applies BY <1>3, <2>4
  <2> QED BY <2>1, <2>2, <2>3, <2>4 DEF Rows
<1>6. ASSUME NEW r \in Loans \cup Items PROVE db[r] # None
  <2>1. CASE r \in Loans BY <2>1, PaymentsConstants, RowKinds
  <2>2. CASE r \in Items
    <3>1. db[r] = [principal |-> 0, interest |-> 0, fees |-> 0, status |-> "PENDING"]
      BY <2>2, PaymentsConstants, RowKinds
    <3>2. db[r] \in Item BY <3>1 DEF Item
    <3> QED BY <3>2, <2>2, RowKinds
  <2> QED BY <2>1, <2>2
<1>7. KeysApart BY <1>2 DEF KeysApart, Sessions
<1>8. ASSUME NEW s \in Sessions PROVE SessionOK(s)
  <2>1. Working(s) BY <1>2 DEF Working, Labels, Ended
  <2>2. s \in Applies => Paying(s)
    BY <1>2, <1>3 DEF Paying, Holding, Loop
  <2>3. Reversing(s) BY <1>2 DEF Reversing
  <2> QED BY <1>2, <2>1, <2>2, <2>3 DEF SessionOK
<1> QED BY <1>1, <1>4, <1>5, <1>6, <1>7, <1>8 DEF PaymentsInv, Database

(* applyPayment starts, whatever well-formed request it is given.           *)
LEMMA LoadStep ==
  ASSUME PaymentsInv, NEW s \in Sessions, NEW q, WellFormed(q), Load(s, q)
  PROVE  PaymentsInv'
<1> USE DEF Load, Goto
<1>0. Shapes /\ Database /\ SessionOK(s) BY DEF PaymentsInv
<1>1. Own(s) BY <1>0 DEF Own, Shapes
<1>2. s \in Applies /\ s \notin Reverses /\ s \notin Waives BY PaymentsConstants
<1>3. req'[s] = q /\ snap'[s] = db[q.loan] /\ own'[s] = own[s] /\ k'[s] = 1 /\ num'[s] = num[s]
  BY <1>0, <1>2 DEF Shapes, SessionOK, Working
<1>4. /\ pc'[s] \in {"number", "rejected"}
      /\ pc'[s] = "number" => q.allocations # << >>
  BY <1>0 DEF Shapes, Valid
<1>5. snap'[s] \in LoanRow
  BY <1>3, <1>0, RowKinds DEF Database, WellFormed
<1>6. s \notin DOMAIN own[s] /\ db[s] = None BY <1>0, <1>2 DEF SessionOK, Paying, Holding, Loop
<1>7. Working(s)'
  <2>1. pc'[s] \in Labels(s) BY <1>2, <1>4 DEF Labels, Ended
  <2>2. pc'[s] = "number" => 1 \in 1 .. Len(q.allocations)
    BY <1>4 DEF WellFormed
  <2> QED BY <2>1, <2>2, <1>0, <1>2, <1>3, <1>4 DEF Working, Shapes, SessionOK, Allocations, WellFormed
<1>8. Paying(s)'
  BY <1>0, <1>2, <1>3, <1>4, <1>5, <1>6 DEF Paying, SessionOK, Holding, Loop
<1>9. SessionOK(s)' BY <1>2, <1>7, <1>8 DEF SessionOK
<1> QED BY <1>1, <1>3, <1>6, <1>9, OwnStep

(* nextPaymentNumber reads the greatest committed number.                   *)
LEMMA ReadNumberStep ==
  ASSUME PaymentsInv, NEW s \in Sessions, ReadNumber(s)
  PROVE  PaymentsInv'
<1> USE DEF ReadNumber, Goto
<1>0. Shapes /\ Database /\ SessionOK(s) BY DEF PaymentsInv
<1>2. s \in Applies /\ s \notin Reverses /\ s \notin Waives
  BY <1>0, PaymentsConstants DEF SessionOK, Working, Labels, Loop, Sessions, Ended
<1> DEFINE l == req[s].loan
<1>3. l \in Loans BY <1>0, <1>2 DEF SessionOK, Working, WellFormed
<1>4. num'[s] = Cardinality(PaymentsOf(l)) + 1
  <2>1. num'[s] = NextNumber(l) BY <1>0 DEF Shapes
  <2> HIDE DEF l
  <2> QED BY <2>1, <1>0, <1>3, NextIsCountPlusOne DEF Database
<1>1. Own(s)
  <2>1. num'[s] \in 0 .. Cardinality(Applies) + 1
    <3> HIDE DEF l
    <3> QED BY <1>4, PaymentsFinite
  <2>2. num' \in [Sessions -> 0 .. Cardinality(Applies) + 1] BY <1>0, <2>1 DEF Shapes
  <2> QED BY <1>0, <2>2 DEF Own, Shapes
<1>5. /\ pc'[s] = "insert" /\ req'[s] = req[s] /\ snap'[s] = snap[s] /\ k'[s] = k[s]
      /\ own'[s] = own[s] /\ cols'[s] = cols[s] /\ db' = db
  BY <1>0 DEF Shapes
<1>6. Working(s)'
  BY <1>0, <1>2, <1>5 DEF Working, SessionOK, Labels, Loop, Ended, Allocations, WellFormed, Alloc
<1>7. s \notin DOMAIN own[s] /\ db[s] = None
  BY <1>0, <1>2 DEF SessionOK, Paying, Holding, Loop
<1>8. Paying(s)'
  <2> HIDE DEF l
  <2>1. num'[s] \in 1 .. Cardinality(PaymentsOf(l)) + 1
    BY <1>4, PaymentsFinite
  <2>2. Cardinality(PaymentsOf(req[s].loan))' = Cardinality(PaymentsOf(l))
    BY <1>5 DEF PaymentsOf, l
  <2> QED BY <1>0, <1>2, <1>5, <1>7, <2>1, <2>2 DEF Paying, SessionOK, Holding, Loop
<1>9. SessionOK(s)' BY <1>2, <1>6, <1>8 DEF SessionOK
<1> QED BY <1>1, <1>5, <1>7, <1>9, OwnStep

(* A session ends without a commit and gives up its rows.                   *)
LEMMA EndedKeeps ==
  ASSUME PaymentsInv, NEW s \in Sessions, Own(s),
         pc'[s] \in {"aborted", "rejected"}, pc[s] # "idle",
         DOMAIN own'[s] = {}, req'[s] = req[s], snap'[s] = snap[s], num'[s] = num[s],
         k'[s] = k[s], cols'[s] = cols[s], pc[s] \notin Ended
  PROVE  PaymentsInv'
<1>0. Shapes /\ Database /\ SessionOK(s) /\ db' = db BY DEF PaymentsInv, Own
<1>1. Working(s)'
  BY <1>0 DEF Working, SessionOK, Labels, Ended, Allocations, WellFormed
<1>2. s \in Applies => Paying(s)'
  BY <1>0 DEF Paying, SessionOK, Ended, Holding, Loop
<1>3. s \in Reverses => Reversing(s)'
  BY <1>0 DEF Reversing, SessionOK, Ended, Allocations
<1>4. SessionOK(s)' BY <1>0, <1>1, <1>2, <1>3 DEF SessionOK
<1> QED BY <1>4, OwnStep

(* A rollback, on a rejected request or a refused insertion.                *)
LEMMA AbortStep ==
  ASSUME PaymentsInv, NEW s \in Sessions, Abort(s), pc[s] \notin Ended \cup {"idle"}
  PROVE  PaymentsInv'
<1>0. Shapes BY DEF PaymentsInv
<1>1. Own(s) BY <1>0 DEF Abort, Discard, Goto, Own, Shapes, locals
<1>2. DOMAIN own'[s] = {} /\ pc'[s] = "aborted" BY <1>0 DEF Abort, Discard, Goto, Shapes
<1> QED BY <1>1, <1>2, EndedKeeps DEF Abort, locals

(* The payment row takes its number, or the unique key refuses it.          *)
LEMMA InsertPaymentStep ==
  ASSUME PaymentsInv, NEW s \in Sessions, InsertPayment(s)
  PROVE  PaymentsInv'
<1> USE DEF InsertPayment, Goto
<1>0. Shapes /\ Database /\ SessionOK(s) BY DEF PaymentsInv
<1>2. s \in Applies /\ s \notin Reverses /\ s \notin Waives
  BY <1>0, PaymentsConstants DEF SessionOK, Working, Labels, Loop, Sessions, Ended
<1>3. CASE num[s] \in NumbersOf(req[s].loan)
  <2>1. Own(s) BY <1>0, <1>3 DEF Discard, Own, Shapes, locals
  <2>2. DOMAIN own'[s] = {} /\ pc'[s] = "aborted" BY <1>0, <1>3 DEF Discard, Shapes
  <2> QED BY <2>1, <2>2, EndedKeeps DEF locals, Ended
<1>4. CASE num[s] \notin NumbersOf(req[s].loan)
  <2> DEFINE row == [loan |-> req[s].loan, number |-> num[s], status |-> "APPLIED",
                     allocations |-> Allocations(s)]
  <2>1. Put(s, s, row) /\ db' = db /\ UNCHANGED <<req, snap, num, k, target, ent, cols, reversals>>
        /\ pc' = [pc EXCEPT ![s] = "alloc"]
    BY <1>4 DEF locals
  <2>2. pc'[s] = "alloc" /\ DOMAIN pc' = Sessions /\ \A t \in Sessions \ {s} : pc'[t] = pc[t]
    BY <2>1, <1>0 DEF Shapes
  <2> HIDE DEF InsertPayment
  <2>3. /\ DOMAIN own' = Sessions
        /\ \A t \in Sessions \ {s} : own'[t] = own[t]
        /\ DOMAIN own'[s] = DOMAIN own[s] \cup {s}
        /\ own'[s][s] = row
        /\ \A r \in DOMAIN own[s] : r # s => own'[s][r] = own[s][r]
    BY <2>1, <1>0, PutFacts DEF Shapes
  <2>4. Own(s) BY <2>1, <2>2, <2>3, <1>0 DEF Own, Shapes
  <2>5. s \notin DOMAIN own[s] /\ db[s] = None /\ pc[s] = "insert"
    BY <1>0, <1>2 DEF SessionOK, Paying, Holding, Loop, InsertPayment
  <2>6. num[s] \in Nat \ {0} /\ num[s] \in 1 .. Cardinality(PaymentsOf(req[s].loan)) + 1
    BY <1>0, <1>2, <2>5, PaymentsFinite DEF SessionOK, Paying
  <2>7. WellFormed(req[s]) /\ k[s] \in 1 .. Len(Allocations(s))
    BY <1>0, <1>2, <2>5 DEF SessionOK, Working, Ended
  <2>8. row \in PaymentRow /\ row \in RowOf(s)
    <3>1. Allocations(s) \in Seq(Allocation) \ {<< >>} BY <2>7 DEF WellFormed, Allocations
    <3>2. req[s].loan \in Loans BY <2>7 DEF WellFormed
    <3>3. row \in PaymentRow BY <3>1, <3>2, <2>6 DEF PaymentRow
    <3> QED BY <3>3, <1>2, RowKinds
  <2> HIDE DEF row
  <2>9. Working(s)'
    <3>1. pc'[s] \in Labels(s) BY <2>2, <1>2 DEF Labels, Loop
    <3>2. \A r \in DOMAIN own'[s] : /\ r \in Rows /\ own'[s][r] \in RowOf(r)
                                    /\ (r \in Fees => db'[r] # None)
      BY <2>1, <2>3, <2>8, <1>0, <1>2, PaymentsConstants DEF SessionOK, Working, Rows
    <3> QED BY <3>1, <3>2, <2>1, <2>2, <2>7, <1>0, <1>2
            DEF Working, SessionOK, Allocations, WellFormed, Ended
  <2>10. Paying(s)'
    <3>1. Cardinality(PaymentsOf(req[s].loan))' = Cardinality(PaymentsOf(req[s].loan))
      BY <2>1 DEF PaymentsOf
    <3>2. NumbersOf(req[s].loan)' = NumbersOf(req[s].loan)
      BY <2>1 DEF PaymentsOf, NumbersOf
    <3>3. s \in DOMAIN own'[s] /\ DOMAIN own'[s] \cap Applies \subseteq {s}
      BY <2>3, <1>0, <1>2 DEF SessionOK, Paying
    <3>4. own'[s][s] = [loan |-> req[s].loan, number |-> num[s], status |-> "APPLIED",
                        allocations |-> Allocations(s)]'
      BY <2>1, <2>3 DEF row, Allocations
    <3>5. snap[s] \in LoanRow
      BY <1>0, <1>2, <2>5 DEF SessionOK, Paying
    <3> QED BY <3>1, <3>2, <3>3, <3>4, <3>5, <2>1, <2>2, <2>5, <2>6, <1>4
            DEF Paying, Holding, Loop
  <2>11. SessionOK(s)' BY <1>2, <2>9, <2>10 DEF SessionOK
  <2>12. ASSUME NEW t \in Applies \ {s}, t \in DOMAIN own[t], own[t][t].loan = own'[s][s].loan
         PROVE  own[t][t].number # own'[s][s].number
    <3>1. KeyHolders(s) = {} BY DEF InsertPayment
    <3> QED BY <3>1, <2>3, <2>12 DEF KeyHolders, row
  <2> QED BY <2>4, <2>11, <2>12, OwnStep
<1> QED BY <1>3, <1>4

(* A step of a session inside its transaction that takes or gives up no     *)
(* key.                                                                     *)
LEMMA WithinTransaction ==
  ASSUME PaymentsInv, NEW s \in Sessions, Own(s), Working(s)',
         req'[s] = req[s], snap'[s] = snap[s], num'[s] = num[s], pc[s] \notin Ended \cup {"idle"},
         pc'[s] \notin {"insert", "idle", "number", "committed"},
         DOMAIN own'[s] \cap Applies = DOMAIN own[s] \cap Applies,
         \A p \in DOMAIN own[s] \cap Applies : own'[s][p] = own[s][p],
         s \in Applies => pc[s] \in Holding /\ pc'[s] \in Holding,
         s \in Waives => DOMAIN own'[s] \subseteq Fees
  PROVE  PaymentsInv'
<1>0. Shapes /\ Database /\ SessionOK(s) /\ db' = db BY DEF PaymentsInv, Own
<1>1. s \in Applies => Paying(s)'
  <2> SUFFICES ASSUME s \in Applies PROVE Paying(s)' OBVIOUS
  <2>1. Cardinality(PaymentsOf(req[s].loan))' = Cardinality(PaymentsOf(req[s].loan))
    BY <1>0 DEF PaymentsOf
  <2>2. NumbersOf(req[s].loan)' = NumbersOf(req[s].loan)
    BY <1>0 DEF PaymentsOf, NumbersOf
  <2>3. Paying(s) BY <1>0 DEF SessionOK
  <2>4. s \in DOMAIN own[s] /\ s \in DOMAIN own'[s] /\ own'[s][s] = own[s][s]
    BY <2>3 DEF Paying
  <2>5. pc[s] \notin {"idle", "rejected", "committed"} /\ pc'[s] \in Holding BY DEF Ended
  <2> QED BY <2>1, <2>2, <2>3, <2>4, <2>5, <1>0 DEF Paying, Allocations
<1>2. s \in Reverses => Reversing(s)'
  BY <1>0 DEF SessionOK, Reversing, Ended, Allocations
<1>3. SessionOK(s)' BY <1>1, <1>2 DEF SessionOK
<1>4. s \in Applies => s \in DOMAIN own[s] /\ own'[s][s] = own[s][s]
  BY <1>0 DEF SessionOK, Paying
<1> QED BY <1>3, <1>4, OwnStep

(* An allocation row is written.                                            *)
LEMMA InsertAllocationStep ==
  ASSUME PaymentsInv, NEW s \in Sessions, InsertAllocation(s)
  PROVE  PaymentsInv'
<1> USE DEF InsertAllocation, Goto
<1>0. Shapes /\ Database /\ SessionOK(s) BY DEF PaymentsInv
<1>1. Own(s) BY <1>0 DEF Own, Shapes, locals
<1>2. s \notin Reverses /\ s \notin Waives BY PaymentsConstants
<1>3. /\ req'[s] = req[s] /\ snap'[s] = snap[s] /\ num'[s] = num[s] /\ k'[s] = k[s]
      /\ cols'[s] = cols[s] /\ own'[s] = own[s] /\ db' = db
  BY DEF locals
<1>4. Alloc(s) \in Allocation
  BY <1>0, <1>2 DEF SessionOK, Working, WellFormed, Alloc, Allocations, Ended
<1>5. /\ pc'[s] \in {"readItem", "readFee", "next"}
      /\ pc'[s] = "readItem" => Alloc(s).item \in Items
      /\ pc'[s] = "readFee" => Alloc(s).fee \in Fees /\ Alloc(s).bucket = "FEE"
  BY <1>0, <1>4 DEF Shapes, AfterItem, Allocation
<1>6. Working(s)'
  BY <1>0, <1>2, <1>3, <1>5
  DEF SessionOK, Working, Labels, Loop, Ended, WellFormed, Alloc, Allocations
<1> QED BY <1>0, <1>1, <1>2, <1>3, <1>5, <1>6, WithinTransaction DEF Ended, Holding, Loop

(* The waterfall goes on to the next line.                                  *)
LEMMA NextAllocationStep ==
  ASSUME PaymentsInv, NEW s \in Sessions, NextAllocation(s)
  PROVE  PaymentsInv'
<1> USE DEF NextAllocation, Goto
<1>0. Shapes /\ Database /\ SessionOK(s) BY DEF PaymentsInv
<1>1. Own(s) BY <1>0 DEF Own, Shapes
<1>2. s \notin Waives /\ (s \in Applies => s \notin Reverses)
  BY <1>0, PaymentsConstants DEF SessionOK, Working, Labels, Ended
<1>3. /\ req'[s] = req[s] /\ snap'[s] = snap[s] /\ num'[s] = num[s]
      /\ cols'[s] = cols[s] /\ own'[s] = own[s] /\ db' = db
  OBVIOUS
<1>4. k[s] \in 1 .. Len(Allocations(s)) /\ Len(Allocations(s)) \in Nat
  BY <1>0, <1>2 DEF SessionOK, Working, WellFormed, Allocations, Ended
<1>5. k'[s] \in 1 .. Len(Allocations(s))
  BY <1>0, <1>4 DEF Shapes
<1>6. /\ pc'[s] \in {"alloc", "loan", "payment"}
      /\ s \in Applies => pc'[s] \in {"alloc", "loan"}
      /\ s \notin Applies => pc'[s] \in {"alloc", "payment"}
  BY <1>0 DEF Shapes
<1>7. Working(s)'
  BY <1>0, <1>2, <1>3, <1>5, <1>6
  DEF SessionOK, Working, Labels, Loop, Ended, WellFormed, Allocations, Sessions
<1> QED BY <1>0, <1>1, <1>2, <1>3, <1>6, <1>7, WithinTransaction DEF Ended, Holding, Loop

(* The loan a session reads inside its transaction is a loan row.           *)
LEMMA LoanRead ==
  ASSUME PaymentsInv, NEW s \in Sessions, s \notin Waives, pc[s] # "idle"
  PROVE  req[s].loan \in Loans /\ See(s, req[s].loan) \in LoanRow
<1>0. Shapes /\ Database /\ SessionOK(s) BY DEF PaymentsInv
<1>1. req[s].loan \in Loans BY <1>0 DEF SessionOK, Working, WellFormed
<1>2. db[req[s].loan] # None BY <1>0, <1>1 DEF Database
<1> QED BY <1>0, <1>1, <1>2, SeeTyped, RowKinds DEF SessionOK

(* Writing a loan, an installment or a fee inside the transaction.          *)
LEMMA WriteStep ==
  ASSUME PaymentsInv, NEW s \in Sessions, NEW r \in Rows, NEW val \in RowOf(r),
         r \notin Applies, Put(s, r, val), db' = db, db[r] # None,
         req' = req, snap' = snap, num' = num, k' = k, target' = target, ent' = ent,
         cols' = cols, reversals' = reversals, NEW label, pc' = [pc EXCEPT ![s] = label],
         pc[s] \notin Ended \cup {"idle", "number", "insert"},
         label \in Labels(s) \ ({"idle", "number", "insert", "diff", "save"} \cup Ended),
         label = "readItem" => Alloc(s).item \in Items,
         label = "readFee" => Alloc(s).fee \in Fees /\ Alloc(s).bucket = "FEE",
         s \in Applies => pc[s] \in Holding,
         s \in Waives => r \in Fees
  PROVE  PaymentsInv'
<1>0. Shapes /\ Database /\ SessionOK(s) BY DEF PaymentsInv
<1>1. /\ DOMAIN own' = Sessions
      /\ \A t \in Sessions \ {s} : own'[t] = own[t]
      /\ DOMAIN own'[s] = DOMAIN own[s] \cup {r}
      /\ own'[s][r] = val
      /\ \A x \in DOMAIN own[s] : x # r => own'[s][x] = own[s][x]
  BY <1>0, PutFacts DEF Shapes
<1>2. Own(s) BY <1>0, <1>1 DEF Own, Shapes
<1>3. pc'[s] = label BY <1>0 DEF Shapes
<1>4. Working(s)'
  <2>1. \A x \in DOMAIN own'[s] : /\ x \in Rows /\ own'[s][x] \in RowOf(x)
                                  /\ (x \in Fees => db'[x] # None)
    BY <1>0, <1>1 DEF SessionOK, Working
  <2> QED BY <1>0, <1>3, <2>1
          DEF SessionOK, Working, Ended, WellFormed, Alloc, Allocations
<1>5. s \in Applies => label \in Holding
  BY PaymentsConstants DEF Labels, Holding, Loop
<1>6. label # "committed" BY DEF Ended
<1> QED BY <1>0, <1>1, <1>2, <1>3, <1>4, <1>5, <1>6, WithinTransaction DEF SessionOK

(* updateLoanBalances saves the loan.                                       *)
LEMMA UpdateLoanStep ==
  ASSUME PaymentsInv, NEW s \in Sessions, UpdateLoan(s)
  PROVE  PaymentsInv'
<1>0. Shapes /\ Database /\ SessionOK(s) BY DEF PaymentsInv
<1>1. pc[s] = "loan" BY DEF UpdateLoan
<1>2. s \in Applies /\ s \notin Reverses /\ s \notin Waives
  BY <1>0, <1>1, PaymentsConstants DEF SessionOK, Working, Labels, Loop, Sessions, Ended
<1> DEFINE l == req[s].loan
           x == snap[s].outstanding - SumOf(Allocations(s), {"PRINCIPAL", "PREPAYMENT"})
           y == snap[s].accrued - SumOf(Allocations(s), {"INTEREST"})
           val == [See(s, l) EXCEPT !.outstanding = Max({0, x}), !.accrued = Max({0, y}),
                     !.status = IF Max({0, x}) <= 0 THEN "PAID_OFF" ELSE snap[s].status]
<1>3. l \in Loans /\ See(s, l) \in LoanRow BY <1>1, <1>2, LoanRead
<1>4. snap[s] \in LoanRow /\ Allocations(s) \in Seq(Allocation)
  BY <1>0, <1>1, <1>2 DEF SessionOK, Paying, Working, WellFormed, Allocations
<1>5. Max({0, x}) \in Nat /\ Max({0, y}) \in Nat
  <2>1. x \in Int /\ y \in Int BY <1>4, SumOfNat DEF LoanRow
  <2> HIDE DEF x, y
  <2> QED BY <2>1, MaxOfTwo
<1>6. Put(s, l, val) /\ db' = db /\ pc' = [pc EXCEPT ![s] = "refresh"]
      /\ UNCHANGED <<req, snap, num, k, target, ent, cols, reversals>>
  BY DEF UpdateLoan, Goto, locals
<1> HIDE DEF x, y
<1>7. val \in LoanRow BY <1>3, <1>4, <1>5 DEF LoanRow, OpenStatuses
<1>8. l \in Rows /\ LoanRow = RowOf(l) /\ l \notin Applies /\ db[l] # None
  BY <1>0, <1>3, RowKinds, PaymentsConstants DEF Database
<1>9. "refresh" \in Labels(s) BY <1>2 DEF Labels
<1> HIDE DEF l, val
<1> QED BY <1>1, <1>2, <1>6, <1>7, <1>8, <1>9, WriteStep DEF Ended, Holding, Loop

(* refreshDelinquency saves the loan.                                       *)
LEMMA RefreshDelinquencyStep ==
  ASSUME PaymentsInv, NEW s \in Sessions, RefreshDelinquency(s)
  PROVE  PaymentsInv'
<1>0. Shapes /\ Database /\ SessionOK(s) BY DEF PaymentsInv
<1>1. pc[s] = "refresh" BY DEF RefreshDelinquency
<1>2. s \in Applies /\ s \notin Reverses /\ s \notin Waives
  BY <1>0, <1>1, PaymentsConstants DEF SessionOK, Working, Labels, Loop, Sessions, Ended
<1> DEFINE l == req[s].loan
           val == [See(s, l) EXCEPT !.status = "CURRENT"]
<1>3. l \in Loans /\ See(s, l) \in LoanRow BY <1>1, <1>2, LoanRead
<1>4. Put(s, l, val) \/ own' = own BY DEF RefreshDelinquency
<1>5. db' = db /\ pc' = [pc EXCEPT ![s] = "commit"]
      /\ UNCHANGED <<req, snap, num, k, target, ent, cols, reversals>>
  BY DEF RefreshDelinquency, Goto, locals
<1>6. "commit" \in Labels(s) BY DEF Labels
<1>7. CASE Put(s, l, val)
  <2>1. val \in LoanRow BY <1>3 DEF LoanRow, OpenStatuses
  <2>2. l \in Rows /\ LoanRow = RowOf(l) /\ l \notin Applies /\ db[l] # None
    BY <1>0, <1>3, RowKinds, PaymentsConstants DEF Database
  <2> HIDE DEF l, val
  <2> QED BY <1>1, <1>2, <1>5, <1>6, <1>7, <2>1, <2>2, WriteStep DEF Ended, Holding, Loop
<1>8. CASE own' = own
  <2>1. Own(s) BY <1>0, <1>5, <1>8 DEF Own, Shapes
  <2>2. pc'[s] = "commit" BY <1>0, <1>5 DEF Shapes
  <2>3. Working(s)'
    BY <1>0, <1>1, <1>2, <1>5, <1>6, <1>8, <2>2
    DEF SessionOK, Working, Ended, WellFormed, Alloc, Allocations
  <2> QED BY <1>0, <1>1, <1>2, <1>5, <1>8, <2>1, <2>2, <2>3, WithinTransaction DEF Ended, Holding, Loop
<1> QED BY <1>4, <1>7, <1>8

(* reversePayment loads the payment and its allocations.                    *)
LEMMA LoadPaymentStep ==
  ASSUME PaymentsInv, NEW s \in Sessions, LoadPayment(s)
  PROVE  PaymentsInv'
<1> USE DEF LoadPayment, Goto
<1>0. Shapes /\ Database /\ SessionOK(s) BY DEF PaymentsInv
<1>1. s \in Reverses /\ s \notin Applies /\ s \notin Waives /\ pc[s] = "idle"
  BY PaymentsConstants
<1>2. PICK p \in Applies :
        /\ db[p] # None
        /\ req' = [req EXCEPT ![s] = [payment |-> p, loan |-> db[p].loan,
                                      allocations |-> db[p].allocations]]
        /\ pc' = [pc EXCEPT ![s] = IF db[p].status = "REVERSED" THEN "rejected" ELSE "alloc"]
  OBVIOUS
<1>3. Own(s) BY <1>0, <1>2 DEF Own, Shapes
<1>4. db[p] \in PaymentRow BY <1>0, <1>2, RowKinds DEF Database
<1>5. /\ req'[s] = [payment |-> p, loan |-> db[p].loan, allocations |-> db[p].allocations]
      /\ pc'[s] \in {"rejected", "alloc"}
      /\ own'[s] = own[s] /\ k'[s] = 1 /\ cols'[s] = cols[s] /\ db' = db
  BY <1>0, <1>1, <1>2 DEF Shapes, SessionOK, Working
<1>6. db[p].loan \in Loans /\ db[p].allocations \in Seq(Allocation)
  BY <1>4 DEF PaymentRow
<1>7. 1 \in 1 .. Len(db[p].allocations) BY <1>4 DEF PaymentRow
<1>8. Working(s)'
  BY <1>0, <1>1, <1>5, <1>6, <1>7
  DEF SessionOK, Working, Labels, Loop, Ended, WellFormed, Allocations
<1>9. Reversing(s)'
  BY <1>0, <1>1, <1>2, <1>4, <1>5 DEF SessionOK, Working, Reversing, Allocations
<1>10. SessionOK(s)' BY <1>1, <1>8, <1>9 DEF SessionOK
<1> QED BY <1>1, <1>3, <1>10, OwnStep

(* reversePayment undoes one allocation.                                    *)
LEMMA ReverseAllocationStep ==
  ASSUME PaymentsInv, NEW s \in Sessions, ReverseAllocation(s)
  PROVE  PaymentsInv'
<1>0. Shapes /\ Database /\ SessionOK(s) BY DEF PaymentsInv
<1>1. pc[s] = "alloc" /\ s \in Reverses /\ s \notin Applies /\ s \notin Waives
  BY PaymentsConstants DEF ReverseAllocation
<1> DEFINE l == req[s].loan
           given == [See(s, l) EXCEPT !.outstanding = @ + Alloc(s).amount]
           owed == [See(s, l) EXCEPT !.accrued = @ + Alloc(s).amount]
           label == IF Alloc(s).item # None THEN "readItem" ELSE "next"
<1>2. l \in Loans /\ See(s, l) \in LoanRow BY <1>1, LoanRead
<1>3. Alloc(s) \in Allocation
  BY <1>0, <1>1 DEF SessionOK, Working, WellFormed, Alloc, Allocations, Ended
<1>4. Put(s, l, given) \/ Put(s, l, owed) \/ own' = own BY DEF ReverseAllocation
<1>5. db' = db /\ pc' = [pc EXCEPT ![s] = label]
      /\ UNCHANGED <<req, snap, num, k, target, ent, cols, reversals>>
  BY DEF ReverseAllocation, Goto, locals
<1>6. label \in Labels(s) \ ({"idle", "number", "insert", "diff", "save"} \cup Ended)
      /\ label # "readFee" /\ (label = "readItem" => Alloc(s).item \in Items)
  BY <1>1, <1>3 DEF Labels, Loop, Ended, Allocation
<1>7. given \in LoanRow /\ owed \in LoanRow BY <1>2, <1>3 DEF LoanRow, Allocation
<1>8. l \in Rows /\ LoanRow = RowOf(l) /\ l \notin Applies /\ db[l] # None
  BY <1>0, <1>2, RowKinds, PaymentsConstants DEF Database
<1> HIDE DEF l, given, owed, label
<1>9. CASE Put(s, l, given)
  BY <1>1, <1>5, <1>6, <1>7, <1>8, <1>9, WriteStep DEF Ended
<1>10. CASE Put(s, l, owed)
  BY <1>1, <1>5, <1>6, <1>7, <1>8, <1>10, WriteStep DEF Ended
<1>11. CASE own' = own
  <2>1. Own(s) BY <1>0, <1>5, <1>11 DEF Own, Shapes
  <2>2. pc'[s] = label BY <1>0, <1>5 DEF Shapes
  <2>3. Working(s)'
    BY <1>0, <1>1, <1>5, <1>6, <1>11, <2>2
    DEF SessionOK, Working, Ended, WellFormed, Alloc, Allocations
  <2> QED BY <1>0, <1>1, <1>5, <1>6, <1>11, <2>1, <2>2, <2>3, WithinTransaction DEF Ended
<1> QED BY <1>4, <1>9, <1>10, <1>11

(* reversePayment marks the payment.                                        *)
LEMMA MarkReversedStep ==
  ASSUME PaymentsInv, NEW s \in Sessions, MarkReversed(s)
  PROVE  PaymentsInv'
<1>0. Shapes /\ Database /\ SessionOK(s) BY DEF PaymentsInv
<1>1. pc[s] = "payment" /\ s \in Reverses /\ s \notin Applies /\ s \notin Waives
  BY <1>0, PaymentsConstants
  DEF MarkReversed, SessionOK, Working, Labels, Loop, Ended, Sessions
<1> DEFINE p == req[s].payment
           val == [See(s, p) EXCEPT !.status = "REVERSED"]
<1>2. p \in Applies /\ db[p] # None /\ db[p] \in PaymentRow
  BY <1>0, <1>1, RowKinds DEF SessionOK, Reversing, Database
<1>3. See(s, p) \in PaymentRow /\ val = [db[p] EXCEPT !.status = "REVERSED"]
  <2>1. p \notin DOMAIN own[s] \/ own[s][p] = [db[p] EXCEPT !.status = "REVERSED"]
    BY <1>0, <1>1, <1>2 DEF SessionOK, Reversing
  <2> QED BY <2>1, <1>2 DEF See, PaymentRow
<1>4. val \in PaymentRow BY <1>3 DEF PaymentRow
<1>5. Put(s, p, val) /\ db' = db /\ pc' = [pc EXCEPT ![s] = "commit"]
      /\ UNCHANGED <<req, snap, num, k, target, ent, cols, reversals>>
  BY DEF MarkReversed, Goto, locals
<1> HIDE DEF val
<1>6. /\ DOMAIN own' = Sessions
      /\ \A t \in Sessions \ {s} : own'[t] = own[t]
      /\ DOMAIN own'[s] = DOMAIN own[s] \cup {p}
      /\ own'[s][p] = val
      /\ \A x \in DOMAIN own[s] : x # p => own'[s][x] = own[s][x]
  BY <1>0, <1>5, PutFacts DEF Shapes
<1>7. Own(s) BY <1>0, <1>5, <1>6 DEF Own, Shapes
<1>8. pc'[s] = "commit" BY <1>0, <1>5 DEF Shapes
<1>9. Working(s)'
  <2>1. \A x \in DOMAIN own'[s] : /\ x \in Rows /\ own'[s][x] \in RowOf(x)
                                  /\ (x \in Fees => db'[x] # None)
    BY <1>0, <1>2, <1>4, <1>5, <1>6, RowKinds DEF SessionOK, Working
  <2> QED BY <1>0, <1>1, <1>5, <1>8, <2>1
          DEF SessionOK, Working, Labels, Ended, WellFormed, Allocations
<1>10. Reversing(s)'
  BY <1>0, <1>1, <1>3, <1>5, <1>6, <1>8 DEF SessionOK, Reversing, Allocations
<1>11. SessionOK(s)' BY <1>1, <1>9, <1>10 DEF SessionOK
<1> QED BY <1>1, <1>7, <1>11, OwnStep

(* What the service computes of an installment and of a fee.                *)
LEMMA ComputedTypes ==
  ASSUME NEW a \in Allocation
  PROVE  /\ \A i \in Items, it \in Item : PayItem(i, it, a) \in Item
         /\ \A it \in Item : UnpayItem(it, a) \in Item
         /\ \A f \in Fees, fee \in FeeRow : PayFee(f, fee, a) \in FeeRow
<1>0. a.amount \in Nat BY DEF Allocation
<1>1. ASSUME NEW i \in Items, NEW it \in Item PROVE PayItem(i, it, a) \in Item
  BY <1>0 DEF PayItem, Item
<1>2. ASSUME NEW it \in Item PROVE UnpayItem(it, a) \in Item
  <2>1. \A x \in Int : Max({0, x - a.amount}) \in Int BY <1>0, MaxOfTwo
  <2>2. /\ Max({0, it.principal - a.amount}) \in Int
        /\ Max({0, it.interest - a.amount}) \in Int
        /\ Max({0, it.fees - a.amount}) \in Int
    BY <2>1 DEF Item
  <2> QED BY <2>2 DEF UnpayItem, Item
<1>3. ASSUME NEW f \in Fees, NEW fee \in FeeRow PROVE PayFee(f, fee, a) \in FeeRow
  <2>1. FeeAmount[f] \in Int /\ fee.paid + a.amount \in Int
    BY <1>0, PaymentsConstants DEF FeeRow
  <2>2. Min({FeeAmount[f], fee.paid + a.amount}) \in Int BY <2>1, MinOfTwo
  <2> QED BY <2>2 DEF PayFee, FeeRow
<1> QED BY <1>1, <1>2, <1>3

(* Reading an installment or a fee to change it: the entity is of the type  *)
(* of its row, whatever was read.                                           *)
LEMMA ReadItemStep ==
  ASSUME PaymentsInv, NEW s \in Sessions, ReadItem(s)
  PROVE  PaymentsInv'
<1> USE DEF ReadItem, Goto
<1>0. Shapes /\ Database /\ SessionOK(s) BY DEF PaymentsInv
<1>1. Own(s) BY <1>0 DEF Own, Shapes
<1>2. s \notin Waives /\ (s \in Applies => s \notin Reverses)
  BY <1>0, PaymentsConstants DEF SessionOK, Working, Labels, Ended
<1>3. /\ req'[s] = req[s] /\ snap'[s] = snap[s] /\ num'[s] = num[s] /\ k'[s] = k[s]
      /\ cols'[s] = cols[s] /\ own'[s] = own[s] /\ db' = db /\ pc'[s] = "diff"
  BY <1>0 DEF Shapes
<1> DEFINE i == Alloc(s).item
<1>4. i \in Items /\ db[i] # None /\ i \in Rows /\ RowOf(i) = Item
  BY <1>0, RowKinds DEF SessionOK, Working, Database
<1>5. See(s, i) \in Item BY <1>0, <1>4, SeeTyped DEF SessionOK
<1>6. Alloc(s) \in Allocation
  BY <1>0, <1>2 DEF SessionOK, Working, WellFormed, Alloc, Allocations, Ended
<1>7. target'[s] = i /\ ent'[s] \in Item
  <2>1. PayItem(i, See(s, i), Alloc(s)) \in Item /\ UnpayItem(See(s, i), Alloc(s)) \in Item
    BY <1>4, <1>5, <1>6, ComputedTypes
  <2> QED BY <2>1, <1>0 DEF Shapes
<1>8. i \notin Fees BY <1>4, PaymentsConstants
<1>9. Working(s)'
  BY <1>0, <1>2, <1>3, <1>4, <1>7, <1>8
  DEF SessionOK, Working, Labels, Loop, Ended, WellFormed, Alloc, Allocations, Sessions
<1> QED BY <1>0, <1>1, <1>2, <1>3, <1>9, WithinTransaction DEF Ended, Holding, Loop

(* waiveFee loads the fee.                                                  *)
LEMMA ReadFeeStep ==
  ASSUME PaymentsInv, NEW s \in Sessions, ReadFee(s)
  PROVE  PaymentsInv'
<1> USE DEF ReadFee, Goto
<1>0. Shapes /\ Database /\ SessionOK(s) BY DEF PaymentsInv
<1>1. Own(s) BY <1>0 DEF Own, Shapes
<1>2. s \in Applies /\ s \notin Reverses /\ s \notin Waives
  BY <1>0, PaymentsConstants DEF SessionOK, Working, Labels, Loop, Sessions, Ended
<1>3. /\ req'[s] = req[s] /\ snap'[s] = snap[s] /\ num'[s] = num[s] /\ k'[s] = k[s]
      /\ cols'[s] = cols[s] /\ own'[s] = own[s] /\ db' = db /\ pc'[s] = "diff"
  BY <1>0 DEF Shapes
<1> DEFINE f == Alloc(s).fee
<1>4. f \in Fees /\ Alloc(s).bucket = "FEE" /\ f \in Rows /\ RowOf(f) = FeeRow
  BY <1>0, RowKinds DEF SessionOK, Working
<1>5. See(s, f) \in FeeRow /\ db[f] # None
  <2>1. db[f] # None
    BY <1>0, <1>4 DEF See, SessionOK, Working
  <2> QED BY <1>0, <1>4, <2>1, SeeTyped DEF SessionOK
<1>6. Alloc(s) \in Allocation
  BY <1>0, <1>2 DEF SessionOK, Working, WellFormed, Alloc, Allocations, Ended
<1>7. target'[s] = f /\ ent'[s] \in FeeRow
  <2>1. PayFee(f, See(s, f), Alloc(s)) \in FeeRow
    BY <1>4, <1>5, <1>6, ComputedTypes
  <2> QED BY <2>1, <1>0 DEF Shapes
<1>8. f \notin Items BY <1>4, PaymentsConstants
<1>9. Working(s)'
  BY <1>0, <1>2, <1>3, <1>4, <1>5, <1>7, <1>8
  DEF SessionOK, Working, Labels, Loop, Ended, WellFormed, Alloc, Allocations
<1> QED BY <1>0, <1>1, <1>2, <1>3, <1>9, WithinTransaction DEF Ended, Holding, Loop

(* waiveFee finds no fee.                                                   *)
LEMMA NoFeeStep ==
  ASSUME PaymentsInv, NEW s \in Sessions, NoFee(s)
  PROVE  PaymentsInv'
<1> USE DEF NoFee, Goto
<1>0. Shapes /\ Database /\ SessionOK(s) BY DEF PaymentsInv
<1>1. Own(s) BY <1>0 DEF Own, Shapes, locals
<1>2. s \in Applies /\ s \notin Reverses /\ s \notin Waives
  BY <1>0, PaymentsConstants DEF SessionOK, Working, Labels, Loop, Sessions, Ended
<1>3. /\ req'[s] = req[s] /\ snap'[s] = snap[s] /\ num'[s] = num[s] /\ k'[s] = k[s]
      /\ cols'[s] = cols[s] /\ own'[s] = own[s] /\ db' = db /\ pc'[s] = "next"
  BY <1>0 DEF Shapes, locals
<1>4. Working(s)'
  BY <1>0, <1>2, <1>3
  DEF SessionOK, Working, Labels, Loop, Ended, WellFormed, Alloc, Allocations
<1> QED BY <1>0, <1>1, <1>2, <1>3, <1>4, WithinTransaction DEF Ended, Holding, Loop

(* waiveFee changes the entity it loaded.                                   *)
LEMMA WaiveFeeStep ==
  ASSUME PaymentsInv, NEW s \in Sessions, WaiveFee(s)
  PROVE  PaymentsInv'
<1> USE DEF WaiveFee, Goto
<1>0. Shapes /\ Database /\ SessionOK(s) BY DEF PaymentsInv
<1>1. s \in Waives /\ s \notin Applies /\ s \notin Reverses BY PaymentsConstants
<1>2. PICK f \in Fees :
        /\ db[f] # None
        /\ target' = [target EXCEPT ![s] = f]
        /\ ent' = [ent EXCEPT ![s] = [db[f] EXCEPT !.status = "WAIVED"]]
        /\ pc' = [pc EXCEPT ![s] = IF db[f].status = "OUTSTANDING" THEN "diff" ELSE "rejected"]
  OBVIOUS
<1>3. Own(s) BY <1>0, <1>2 DEF Own, Shapes
<1>4. /\ target'[s] = f /\ ent'[s] = [db[f] EXCEPT !.status = "WAIVED"]
      /\ pc'[s] \in {"diff", "rejected"}
      /\ own'[s] = own[s] /\ DOMAIN own'[s] = {} /\ cols'[s] = cols[s] /\ db' = db
  BY <1>0, <1>2 DEF Shapes, SessionOK, Working
<1>5. f \in Rows /\ RowOf(f) = FeeRow /\ db[f] \in FeeRow
  BY <1>0, <1>2, RowKinds DEF Database
<1>6. ent'[s] \in FeeRow BY <1>4, <1>5 DEF FeeRow
<1>7. Working(s)'
  BY <1>0, <1>1, <1>2, <1>4, <1>5, <1>6
  DEF SessionOK, Working, Labels, Ended
<1>8. SessionOK(s)' BY <1>1, <1>4, <1>7 DEF SessionOK
<1> QED BY <1>1, <1>3, <1>8, OwnStep

(* save() finds the changed columns, and updates them one by one.           *)
LEMMA ColumnsOfRows ==
  /\ \A it \in Item : DOMAIN it = {"principal", "interest", "fees", "status"}
  /\ \A fee \in FeeRow : DOMAIN fee = {"paid", "status"}
  /\ \A it \in Item \cup FeeRow : DOMAIN it \subseteq Columns
<1>1. \A it \in Item : DOMAIN it = {"principal", "interest", "fees", "status"} BY DEF Item
<1>2. \A fee \in FeeRow : DOMAIN fee = {"paid", "status"} BY DEF FeeRow
<1> QED BY <1>1, <1>2 DEF Columns

(* A row saved column by column, some from the entity and some from the     *)
(* database, is a row.                                                      *)
LEMMA MixedRow ==
  ASSUME NEW r \in Items \cup Fees, NEW old \in RowOf(r), NEW new \in RowOf(r), NEW C
  PROVE  [c \in DOMAIN old |-> IF c \in C THEN new[c] ELSE old[c]] \in RowOf(r)
<1> DEFINE mixed == [c \in DOMAIN old |-> IF c \in C THEN new[c] ELSE old[c]]
<1>1. CASE r \in Items
  <2>1. old \in Item /\ new \in Item /\ RowOf(r) = Item BY <1>1, RowKinds
  <2>2. DOMAIN old = {"principal", "interest", "fees", "status"} BY <2>1, ColumnsOfRows
  <2>3. mixed = [principal |-> mixed.principal, interest |-> mixed.interest,
                 fees |-> mixed.fees, status |-> mixed.status]
    BY <2>2
  <2>4. /\ mixed.principal \in Int /\ mixed.interest \in Int /\ mixed.fees \in Int
        /\ mixed.status \in {"PENDING", "PARTIAL", "PAID", "OVERDUE", "WAIVED"}
    BY <2>1, <2>2 DEF Item
  <2> HIDE DEF mixed
  <2>5. mixed \in Item BY <2>3, <2>4 DEF Item
  <2> QED BY <2>1, <2>5 DEF mixed
<1>2. CASE r \in Fees
  <2>1. old \in FeeRow /\ new \in FeeRow /\ RowOf(r) = FeeRow BY <1>2, RowKinds
  <2>2. DOMAIN old = {"paid", "status"} BY <2>1, ColumnsOfRows
  <2>3. mixed = [paid |-> mixed.paid, status |-> mixed.status] BY <2>2
  <2>4. mixed.paid \in Int /\ mixed.status \in {"OUTSTANDING", "PARTIAL", "PAID", "WAIVED"}
    BY <2>1, <2>2 DEF FeeRow
  <2> HIDE DEF mixed
  <2>5. mixed \in FeeRow BY <2>3, <2>4 DEF FeeRow
  <2> QED BY <2>1, <2>5 DEF mixed
<1> QED BY <1>1, <1>2

(* save() selects the row again and compares the columns.                   *)
LEMMA CompareColumnsStep ==
  ASSUME PaymentsInv, NEW s \in Sessions, CompareColumns(s)
  PROVE  PaymentsInv'
<1> USE DEF CompareColumns, Goto
<1>0. Shapes /\ Database /\ SessionOK(s) BY DEF PaymentsInv
<1>1. Own(s) BY <1>0 DEF Own, Shapes
<1>2. /\ req'[s] = req[s] /\ snap'[s] = snap[s] /\ num'[s] = num[s] /\ k'[s] = k[s]
      /\ target'[s] = target[s] /\ ent'[s] = ent[s]
      /\ own'[s] = own[s] /\ db' = db /\ pc'[s] = "save"
  BY <1>0 DEF Shapes
<1> DEFINE r == target[s]
<1>3. r \in Items \cup Fees /\ db[r] # None /\ r \in Rows
  BY <1>0, RowKinds DEF SessionOK, Working
<1>4. See(s, r) \in RowOf(r) BY <1>0, <1>3, SeeTyped DEF SessionOK
<1>5. RowOf(r) = Item \/ RowOf(r) = FeeRow BY <1>3, RowKinds
<1>6. DOMAIN See(s, r) \subseteq Columns BY <1>4, <1>5, ColumnsOfRows
<1>7. Computed(s) \subseteq Columns BY DEF Computed, Columns
<1>8. cols'[s] \subseteq Columns BY <1>0, <1>6, <1>7 DEF Shapes
<1>9. "save" \in Labels(s) BY <1>0 DEF SessionOK, Working, Labels, Loop, Ended
<1>10. Working(s)'
  BY <1>0, <1>2, <1>8, <1>9 DEF SessionOK, Working, Ended, WellFormed, Alloc, Allocations
<1> QED BY <1>0, <1>1, <1>2, <1>10, WithinTransaction DEF SessionOK, Ended, Holding, Loop

(* save() updates the columns that differ.                                  *)
LEMMA SaveColumnsStep ==
  ASSUME PaymentsInv, NEW s \in Sessions, SaveColumns(s)
  PROVE  PaymentsInv'
<1>0. Shapes /\ Database /\ SessionOK(s) BY DEF PaymentsInv
<1>1. pc[s] = "save" BY DEF SaveColumns
<1> DEFINE r == target[s]
           label == AfterSave(s)
           val == [c \in DOMAIN See(s, r) |-> IF c \in cols[s] THEN ent[s][c] ELSE See(s, r)[c]]
<1>2. r \in Items \cup Fees /\ db[r] # None /\ r \in Rows /\ ent[s] \in RowOf(r) /\ r \notin Applies
  BY <1>0, <1>1, RowKinds, PaymentsConstants DEF SessionOK, Working
<1>3. See(s, r) \in RowOf(r) BY <1>0, <1>2, SeeTyped DEF SessionOK
<1>4. val \in RowOf(r) BY <1>2, <1>3, MixedRow
<1>5. Put(s, r, val) \/ own' = own BY DEF SaveColumns
<1>6. db' = db /\ pc' = [pc EXCEPT ![s] = label]
      /\ UNCHANGED <<req, snap, num, k, target, ent, cols, reversals>>
  BY DEF SaveColumns, Goto, locals
<1>7. s \notin Waives => Alloc(s) \in Allocation
  BY <1>0, <1>1 DEF SessionOK, Working, WellFormed, Alloc, Allocations, Ended
<1>8. /\ label \in {"commit", "next", "readFee"}
      /\ label = "readFee" => /\ s \in Applies
                              /\ Alloc(s).fee \in Fees /\ Alloc(s).bucket = "FEE"
      /\ label = "commit" <=> s \in Waives
  BY <1>7 DEF AfterSave, AfterItem, Allocation
<1>9. s \in Waives => s \notin Applies /\ s \notin Reverses BY PaymentsConstants
<1>10. label \in Labels(s) \ ({"idle", "number", "insert", "diff", "save"} \cup Ended)
  BY <1>8, <1>9 DEF Labels, Loop, Ended, Sessions
<1>11. s \in Waives => r \in Fees BY <1>0, <1>1 DEF SessionOK, Working
<1> HIDE DEF r, val, label
<1>12. CASE Put(s, r, val)
  BY <1>1, <1>2, <1>4, <1>6, <1>8, <1>10, <1>11, <1>12, WriteStep DEF Ended, Holding, Loop
<1>13. CASE own' = own
  <2>1. Own(s) BY <1>0, <1>6, <1>13 DEF Own, Shapes
  <2>2. pc'[s] = label BY <1>0, <1>6 DEF Shapes
  <2>3. Working(s)'
    BY <1>0, <1>1, <1>6, <1>8, <1>10, <1>13, <2>2
    DEF SessionOK, Working, Ended, WellFormed, Alloc, Allocations
  <2> QED BY <1>0, <1>1, <1>6, <1>8, <1>9, <1>10, <1>13, <2>1, <2>2, <2>3, WithinTransaction
          DEF SessionOK, Ended, Holding, Loop
<1> QED BY <1>5, <1>12, <1>13

----------------------------------------------------------------------------
(* A commit.                                                                *)

(* The rows the session wrote replace the committed ones.                   *)
LEMMA CommittedRows ==
  ASSUME PaymentsInv, NEW s \in Sessions, Commit(s)
  PROVE  /\ DOMAIN db' = Rows
         /\ \A r \in DOMAIN own[s] : r \in Rows /\ db'[r] = own[s][r]
         /\ \A r \in Rows \ DOMAIN own[s] : db'[r] = db[r]
         /\ DOMAIN own'[s] = {} /\ pc'[s] = "committed" /\ pc[s] = "commit"
         /\ \A t \in Sessions \ {s} : own'[t] = own[t] /\ pc'[t] = pc[t]
         /\ Shapes'
<1>0. Shapes /\ Database /\ SessionOK(s) BY DEF PaymentsInv
<1>1. db' = Over(own[s], db) BY DEF Commit
<1>2. DOMAIN own[s] \subseteq Rows BY <1>0 DEF SessionOK, Working
<1>3. DOMAIN db' = Rows BY <1>0, <1>1, <1>2 DEF Over, Shapes
<1>4. \A r \in DOMAIN own[s] : r \in Rows /\ db'[r] = own[s][r]
  BY <1>0, <1>1, <1>2 DEF Over, Shapes
<1>5. \A r \in Rows \ DOMAIN own[s] : db'[r] = db[r]
  BY <1>0, <1>1, <1>2 DEF Over, Shapes
<1>6. /\ DOMAIN own'[s] = {} /\ pc'[s] = "committed" /\ pc[s] = "commit"
      /\ DOMAIN own' = Sessions /\ DOMAIN pc' = Sessions
      /\ \A t \in Sessions \ {s} : own'[t] = own[t] /\ pc'[t] = pc[t]
  BY <1>0 DEF Commit, Discard, Goto, Shapes
<1>7. reversals' \in [Applies -> Nat]
  <2>1. CASE s \in Reverses
    <3>1. req[s].payment \in Applies BY <1>0, <1>6, <2>1 DEF SessionOK, Reversing
    <3>2. reversals' = [reversals EXCEPT ![req[s].payment] = @ + 1] BY <2>1 DEF Commit
    <3>3. reversals \in [Applies -> Nat] BY <1>0 DEF Shapes
    <3> QED BY <3>1, <3>2, <3>3
  <2>2. CASE s \notin Reverses BY <1>0, <2>2 DEF Commit, Shapes
  <2> QED BY <2>1, <2>2
<1>8. Shapes' BY <1>0, <1>3, <1>6, <1>7 DEF Commit, locals, Shapes
<1> QED BY <1>3, <1>4, <1>5, <1>6, <1>8

(* A payment commits the payment it inserted, a reversal the new status of  *)
(* its payment.                                                             *)
LEMMA CommittedPayments ==
  ASSUME PaymentsInv, NEW s \in Sessions, Commit(s)
  PROVE  /\ s \in Applies =>
              /\ db[s] = None
              /\ db'[s] = [loan |-> req[s].loan, number |-> num[s], status |-> "APPLIED",
                           allocations |-> Allocations(s)]
              /\ \A p \in Applies \ {s} : db'[p] = db[p]
         /\ s \in Reverses => \A p \in Applies \ {req[s].payment} : db'[p] = db[p]
         /\ s \notin Applies => \A p \in Applies :
              /\ db[p] = None => db'[p] = None
              /\ db[p] # None =>
                   db[p] \in PaymentRow /\ db'[p] \in {db[p], [db[p] EXCEPT !.status = "REVERSED"]}
<1>0. Shapes /\ Database /\ SessionOK(s) BY DEF PaymentsInv
<1>1. Applies \subseteq Rows BY DEF Rows
<1>2. CASE s \in Applies
  <2>1. s \in DOMAIN own[s] /\ db[s] = None
    BY <1>0, <1>2, CommittedRows DEF SessionOK, Paying, Holding
  <2>2. DOMAIN own[s] \cap Applies \subseteq {s} BY <1>0, <1>2 DEF SessionOK, Paying
  <2>3. db'[s] = own[s][s] BY <2>1, CommittedRows
  <2>4. \A p \in Applies \ {s} : db'[p] = db[p] BY <2>2, <1>1, CommittedRows
  <2>5. s \notin Reverses BY <1>2, PaymentsConstants
  <2> QED BY <1>0, <1>2, <2>1, <2>3, <2>4, <2>5 DEF SessionOK, Paying
<1>3. CASE s \in Reverses
  <2>1. s \notin Applies BY <1>3, PaymentsConstants
  <2>2. /\ db[req[s].payment] # None
        /\ \A p \in DOMAIN own[s] \cap Applies :
             p = req[s].payment /\ own[s][p] = [db[p] EXCEPT !.status = "REVERSED"]
    BY <1>0, <1>3, CommittedRows DEF SessionOK, Reversing
  <2>3. \A p \in Applies : p \notin DOMAIN own[s] => db'[p] = db[p] BY <1>1, CommittedRows
  <2>4. \A p \in Applies : p \in DOMAIN own[s] =>
           p = req[s].payment /\ db'[p] = [db[p] EXCEPT !.status = "REVERSED"]
    BY <2>2, CommittedRows
  <2>5. \A p \in Applies : db[p] # None => db[p] \in PaymentRow
    BY <1>0, <1>1, RowKinds DEF Database
  <2> QED BY <2>1, <2>2, <2>3, <2>4, <2>5
<1>4. CASE s \in Waives
  <2>1. s \notin Applies /\ s \notin Reverses BY <1>4, PaymentsConstants
  <2>2. DOMAIN own[s] \cap Applies = {} BY <1>0, <1>4, PaymentsConstants DEF SessionOK
  <2>3. \A p \in Applies : db'[p] = db[p] BY <1>1, <2>2, CommittedRows
  <2>4. \A p \in Applies : db[p] # None => db[p] \in PaymentRow
    BY <1>0, <1>1, RowKinds DEF Database
  <2> QED BY <2>1, <2>3, <2>4
<1> QED BY <1>2, <1>3, <1>4 DEF Sessions

(* So a commit adds at most one payment to its loan, under the next number. *)
LEMMA CommittedNumbers ==
  ASSUME PaymentsInv, NEW s \in Sessions, Commit(s)
  PROVE  /\ s \in Applies => req[s].loan \in Loans
         /\ \A l : ~ (s \in Applies /\ l = req[s].loan) =>
              PaymentsOf(l)' = PaymentsOf(l) /\ NumbersOf(l)' = NumbersOf(l)
         /\ \A l : s \in Applies /\ l = req[s].loan =>
              /\ num[s] = Cardinality(PaymentsOf(l)) + 1
              /\ s \notin PaymentsOf(l)
              /\ PaymentsOf(l)' = PaymentsOf(l) \cup {s}
              /\ NumbersOf(l)' = NumbersOf(l) \cup {num[s]}
<1>0. Shapes /\ Database /\ SessionOK(s) BY DEF PaymentsInv
<1>1. CASE s \in Applies
  <2>1. /\ db[s] = None
        /\ db'[s] = [loan |-> req[s].loan, number |-> num[s], status |-> "APPLIED",
                     allocations |-> Allocations(s)]
        /\ \A p \in Applies \ {s} : db'[p] = db[p]
    BY <1>1, CommittedPayments
  <2>2. db'[s] # None
    <3>1. s \in DOMAIN own[s] /\ own[s][s] \in PaymentRow
      BY <1>0, <1>1, CommittedRows, RowKinds DEF SessionOK, Paying, Working, Holding
    <3> QED BY <3>1, CommittedRows, PaymentsConstants
  <2>3. db'[s].loan = req[s].loan /\ db'[s].number = num[s] BY <2>1
  <2>4. ASSUME NEW l, l # req[s].loan PROVE PaymentsOf(l)' = PaymentsOf(l)
    BY <1>1, <2>1, <2>3, <2>4 DEF PaymentsOf
  <2>5. ASSUME NEW l, l # req[s].loan PROVE NumbersOf(l)' = NumbersOf(l)
    <3>1. PaymentsOf(l)' = PaymentsOf(l) BY <2>4, <2>5
    <3>2. \A p \in PaymentsOf(l) : db'[p] = db[p] BY <2>1 DEF PaymentsOf
    <3> QED BY <3>1, <3>2 DEF NumbersOf
  <2>6. ASSUME NEW l, l = req[s].loan
        PROVE  /\ s \notin PaymentsOf(l) /\ PaymentsOf(l)' = PaymentsOf(l) \cup {s}
               /\ NumbersOf(l)' = NumbersOf(l) \cup {num[s]}
    <3>1. s \notin PaymentsOf(l) BY <2>1 DEF PaymentsOf
    <3>2. PaymentsOf(l)' = PaymentsOf(l) \cup {s} BY <1>1, <2>1, <2>2, <2>3, <2>6 DEF PaymentsOf
    <3>3. \A p \in PaymentsOf(l) : db'[p] = db[p] BY <2>1, <3>1 DEF PaymentsOf
    <3>4. NumbersOf(l)' = NumbersOf(l) \cup {num[s]} BY <2>3, <3>2, <3>3 DEF NumbersOf
    <3> QED BY <3>1, <3>2, <3>4
  <2>7. s \in DOMAIN own[s] /\ pc[s] = "commit" /\ s \notin Waives
    BY <1>0, <1>1, CommittedRows, PaymentsConstants DEF SessionOK, Paying, Holding
  <2>8. req[s].loan \in Loans BY <1>0, <1>1, <2>7 DEF SessionOK, Working, WellFormed
  <2>9. ASSUME NEW l, l = req[s].loan PROVE num[s] = Cardinality(PaymentsOf(l)) + 1
    <3>1. num[s] \in 1 .. Cardinality(PaymentsOf(l)) + 1 /\ num[s] \notin NumbersOf(l)
      BY <1>0, <1>1, <2>7, <2>9 DEF SessionOK, Paying, Holding
    <3>2. NumbersOf(l) = 1 .. Cardinality(PaymentsOf(l))
      BY <1>0, <2>8, <2>9 DEF Database, NumbersDense
    <3>3. Cardinality(PaymentsOf(l)) \in Nat BY PaymentsFinite
    <3> QED BY <3>1, <3>2, <3>3
  <2> QED BY <1>1, <2>4, <2>5, <2>6, <2>8, <2>9
<1>2. CASE s \notin Applies
  <2>1. \A p \in Applies :
          /\ db[p] = None => db'[p] = None
          /\ db[p] # None => db'[p] # None /\ db'[p].loan = db[p].loan
                             /\ db'[p].number = db[p].number
    <3>1. \A p \in Applies :
            /\ db[p] = None => db'[p] = None
            /\ db[p] # None =>
                 db[p] \in PaymentRow /\ db'[p] \in {db[p], [db[p] EXCEPT !.status = "REVERSED"]}
      BY <1>2, CommittedPayments
    <3>2. \A row \in PaymentRow :
            /\ [row EXCEPT !.status = "REVERSED"] \in PaymentRow
            /\ [row EXCEPT !.status = "REVERSED"].loan = row.loan
            /\ [row EXCEPT !.status = "REVERSED"].number = row.number
      BY DEF PaymentRow
    <3>3. None \notin PaymentRow BY PaymentsConstants
    <3>4. ASSUME NEW p \in Applies, db[p] # None
          PROVE  db'[p] # None /\ db'[p].loan = db[p].loan /\ db'[p].number = db[p].number
      <4>1. db[p] \in PaymentRow /\ (db'[p] = db[p] \/ db'[p] = [db[p] EXCEPT !.status = "REVERSED"])
        BY <3>1, <3>4
      <4>2. CASE db'[p] = db[p] BY <3>4, <4>2
      <4>3. CASE db'[p] = [db[p] EXCEPT !.status = "REVERSED"] BY <3>2, <3>3, <4>1, <4>3
      <4> QED BY <4>1, <4>2, <4>3
    <3> QED BY <3>1, <3>4
  <2>2. \A l : PaymentsOf(l)' = PaymentsOf(l) BY <2>1 DEF PaymentsOf
  <2>3. \A l : NumbersOf(l)' = NumbersOf(l) BY <2>1, <2>2 DEF NumbersOf, PaymentsOf
  <2> QED BY <1>2, <2>2, <2>3
<1> QED BY <1>1, <1>2

(* The other sessions: all they know of the database still holds.           *)
LEMMA GrownDatabase ==
  ASSUME PaymentsInv, NEW t \in Sessions,
         own'[t] = own[t], pc'[t] = pc[t], req'[t] = req[t], snap'[t] = snap[t],
         num'[t] = num[t], k'[t] = k[t], target'[t] = target[t], ent'[t] = ent[t],
         cols'[t] = cols[t],
         \A r \in Rows : db[r] # None => db'[r] # None,
         \A p \in Applies : db[p] # None =>
           /\ db'[p].loan = db[p].loan /\ db'[p].allocations = db[p].allocations
           /\ [db'[p] EXCEPT !.status = "REVERSED"] = [db[p] EXCEPT !.status = "REVERSED"],
         t \in Applies /\ db[t] = None => db'[t] = None,
         \A l : t \in Applies /\ t \in DOMAIN own[t] /\ l = req[t].loan => num[t] \notin NumbersOf(l)'
  PROVE  SessionOK(t)'
<1>0. SessionOK(t) BY DEF PaymentsInv
<1>1. Working(t)'
  <2>1. \A r \in Fees \cup Items : r \in Rows BY DEF Rows
  <2> QED BY <1>0, <2>1 DEF SessionOK, Working, Alloc, Allocations
<1>2. t \in Applies => Paying(t)'
  <2> DEFINE l == req[t].loan
             P == {p \in Applies : db'[p] # None /\ db'[p].loan = l}
  <2>1. PaymentsOf(l) \subseteq P BY DEF PaymentsOf, Rows
  <2>2. IsFiniteSet(P) BY PaymentsConstants, FS_Subset
  <2>3. Cardinality(PaymentsOf(l)) <= Cardinality(P) /\ Cardinality(P) \in Nat
    BY <2>1, <2>2, FS_Subset, FS_CardinalityType
  <2>4. Cardinality(PaymentsOf(req[t].loan))' = Cardinality(P) BY DEF PaymentsOf
  <2>5. Cardinality(PaymentsOf(l)) \in Nat BY PaymentsFinite
  <2> HIDE DEF P
  <2>6. \A n : n \in 1 .. Cardinality(PaymentsOf(l)) + 1 => n \in 1 .. Cardinality(P) + 1
    BY <2>3, <2>5
  <2>7. t \in Applies /\ t \in DOMAIN own[t] => num[t] \notin NumbersOf(req[t].loan)'
    BY DEF NumbersOf, PaymentsOf
  <2> QED BY <1>0, <2>4, <2>6, <2>7 DEF SessionOK, Paying, Allocations
<1>3. t \in Reverses => Reversing(t)'
  <2>1. Applies \subseteq Rows BY DEF Rows
  <2> SUFFICES ASSUME t \in Reverses PROVE Reversing(t)' OBVIOUS
  <2>2. Reversing(t) BY <1>0 DEF SessionOK
  <2>3. pc[t] = "idle" => DOMAIN own[t] = {} BY <1>0 DEF SessionOK, Working
  <2>4. pc[t] # "idle" => /\ req[t].payment \in Applies /\ db'[req[t].payment] # None
                          /\ Allocations(t)' = db'[req[t].payment].allocations
                          /\ req[t].loan = db'[req[t].payment].loan
    BY <2>1, <2>2 DEF Reversing, Allocations
  <2>5. \A p \in DOMAIN own'[t] \cap Applies :
          p = req[t].payment /\ own'[t][p] = [db'[p] EXCEPT !.status = "REVERSED"]
    <3> SUFFICES ASSUME NEW p \in DOMAIN own[t], p \in Applies
                 PROVE  p = req[t].payment /\ own[t][p] = [db'[p] EXCEPT !.status = "REVERSED"]
      OBVIOUS
    <3>1. p = req[t].payment /\ own[t][p] = [db[p] EXCEPT !.status = "REVERSED"] /\ db[p] # None
      BY <2>2, <2>3 DEF Reversing
    <3> QED BY <3>1
  <2>6. req'[t].payment = req[t].payment /\ req'[t].loan = req[t].loan OBVIOUS
  <2>7. pc'[t] # "idle" => /\ req'[t].payment \in Applies /\ db'[req'[t].payment] # None
                           /\ Allocations(t)' = db'[req'[t].payment].allocations
                           /\ req'[t].loan = db'[req'[t].payment].loan
    BY <2>4, <2>6
  <2>8. \A p \in DOMAIN own'[t] \cap Applies :
          p = req'[t].payment /\ own'[t][p] = [db'[p] EXCEPT !.status = "REVERSED"]
    BY <2>5, <2>6
  <2> QED BY <2>7, <2>8, Zenon DEF Reversing
<1> QED BY <1>0, <1>1, <1>2, <1>3 DEF SessionOK

(* A payment marked reversed keeps its loan, number and allocations.        *)
LEMMA ReversedRow ==
  ASSUME NEW row \in PaymentRow
  PROVE  LET new == [row EXCEPT !.status = "REVERSED"] IN
         /\ new \in PaymentRow /\ new # None
         /\ new.loan = row.loan /\ new.number = row.number /\ new.allocations = row.allocations
         /\ new.status = "REVERSED" /\ [new EXCEPT !.status = "REVERSED"] = new
<1>1. [row EXCEPT !.status = "REVERSED"] \in PaymentRow BY DEF PaymentRow
<1>2. None \notin PaymentRow BY PaymentsConstants
<1> QED BY <1>1, <1>2 DEF PaymentRow

(* A commit publishes what the session wrote.                               *)
LEMMA CommitStep ==
  ASSUME PaymentsInv, NEW s \in Sessions, Commit(s)
  PROVE  PaymentsInv'
<1>0. Shapes /\ Database /\ KeysApart /\ \A t \in Sessions : SessionOK(t) BY DEF PaymentsInv
<1>1. Shapes' BY CommittedRows
<1>2. ASSUME NEW r \in Rows PROVE db'[r] \in RowOf(r) \cup {None} /\ (db[r] # None => db'[r] # None)
  <2>1. CASE r \in DOMAIN own[s]
    BY <1>0, <2>1, CommittedRows, RowKinds DEF SessionOK, Working
  <2>2. CASE r \notin DOMAIN own[s]
    BY <1>0, <2>2, CommittedRows DEF Database
  <2> QED BY <2>1, <2>2
<1>3. NumbersDense'
  <2> SUFFICES ASSUME NEW l \in Loans
               PROVE  NumbersOf(l)' = 1 .. Cardinality(PaymentsOf(l)')
    BY DEF NumbersDense
  <2>1. NumbersOf(l) = 1 .. Cardinality(PaymentsOf(l)) BY <1>0 DEF Database, NumbersDense
  <2>2. CASE s \in Applies /\ l = req[s].loan
    <3> DEFINE n == Cardinality(PaymentsOf(l))
    <3>1. /\ num[s] = n + 1 /\ s \notin PaymentsOf(l)
          /\ PaymentsOf(l)' = PaymentsOf(l) \cup {s}
          /\ NumbersOf(l)' = NumbersOf(l) \cup {num[s]}
      BY <2>2, CommittedNumbers
    <3>2. n \in Nat /\ IsFiniteSet(PaymentsOf(l)) BY PaymentsFinite
    <3>3. Cardinality(PaymentsOf(l)') = n + 1
      BY <3>1, <3>2, FS_AddElement
    <3> HIDE DEF n
    <3>4. (1 .. n) \cup {n + 1} = 1 .. n + 1 BY <3>2
    <3> QED BY <2>1, <3>1, <3>3, <3>4 DEF n
  <2>3. CASE ~ (s \in Applies /\ l = req[s].loan)
    BY <2>1, <2>3, CommittedNumbers
  <2> QED BY <2>2, <2>3
<1>4. Database'
  <2>1. \A r \in Loans \cup Items : r \in Rows BY DEF Rows
  <2> QED BY <1>0, <1>2, <1>3, <2>1 DEF Database
<1>5. KeysApart'
  <2> SUFFICES ASSUME NEW u \in Applies, NEW t \in Applies, u # t,
                      u \in DOMAIN own'[u], t \in DOMAIN own'[t],
                      own'[u][u].loan = own'[t][t].loan
               PROVE  own'[u][u].number # own'[t][t].number
    BY DEF KeysApart
  <2>1. u \in Sessions /\ t \in Sessions /\ u # s /\ t # s BY CommittedRows DEF Sessions
  <2>2. own'[u] = own[u] /\ own'[t] = own[t] BY <2>1, CommittedRows
  <2> QED BY <1>0, <2>2 DEF KeysApart
<1>6. ASSUME NEW p \in Applies, db[p] # None
      PROVE  /\ db'[p].loan = db[p].loan /\ db'[p].allocations = db[p].allocations
             /\ [db'[p] EXCEPT !.status = "REVERSED"] = [db[p] EXCEPT !.status = "REVERSED"]
  <2>1. CASE s \in Applies BY <1>6, <2>1, CommittedPayments
  <2>2. CASE s \notin Applies
    <3>1. db[p] \in PaymentRow /\ db'[p] \in {db[p], [db[p] EXCEPT !.status = "REVERSED"]}
      BY <1>6, <2>2, CommittedPayments
    <3> QED BY <3>1, ReversedRow
  <2> QED BY <2>1, <2>2
<1>7. ASSUME NEW t \in Sessions, t # s PROVE SessionOK(t)'
  <2>1. /\ own'[t] = own[t] /\ pc'[t] = pc[t]
        /\ UNCHANGED <<req, snap, num, k, target, ent, cols>>
    BY <1>7, CommittedRows DEF Commit, locals
  <2>2. t \in Applies /\ db[t] = None => db'[t] = None
    BY <1>7, CommittedPayments
  <2>3. ASSUME t \in Applies, t \in DOMAIN own[t], NEW l, l = req[t].loan
        PROVE  num[t] \notin NumbersOf(l)'
    <3>1. Paying(t) BY <1>0, <2>3 DEF SessionOK
    <3>2. num[t] \notin NumbersOf(l) /\ own[t][t].loan = l /\ own[t][t].number = num[t]
      BY <2>3, <3>1 DEF Paying
    <3>3. CASE s \in Applies /\ l = req[s].loan
      <4>1. NumbersOf(l)' = NumbersOf(l) \cup {num[s]} BY <3>3, CommittedNumbers
      <4>2. Paying(s) /\ s \in DOMAIN own[s]
        BY <1>0, <3>3, CommittedRows DEF SessionOK, Paying, Holding
      <4>3. own[s][s].loan = l /\ own[s][s].number = num[s] BY <3>3, <4>2 DEF Paying
      <4>4. num[t] # num[s] BY <1>0, <1>7, <2>3, <3>2, <3>3, <4>2, <4>3 DEF KeysApart
      <4> QED BY <3>2, <4>1, <4>4
    <3>4. CASE ~ (s \in Applies /\ l = req[s].loan) BY <3>2, <3>4, CommittedNumbers
    <3> QED BY <3>3, <3>4
  <2> QED BY <1>2, <1>6, <2>1, <2>2, <2>3, GrownDatabase
<1>8. SessionOK(s)'
  <2>1. /\ DOMAIN own'[s] = {} /\ pc'[s] = "committed" /\ pc[s] = "commit"
        /\ UNCHANGED <<req, snap, num, k, target, ent, cols>>
    BY CommittedRows DEF Commit, locals
  <2>2. Working(s)'
    BY <1>0, <2>1 DEF SessionOK, Working, Labels, Ended, Allocations, WellFormed
  <2>3. s \in Applies => Paying(s)'
    BY <1>0, <2>1 DEF SessionOK, Paying, Holding, Loop
  <2>4. s \in Reverses => Reversing(s)'
    <3> SUFFICES ASSUME s \in Reverses PROVE Reversing(s)' OBVIOUS
    <3>1. /\ req[s].payment \in Applies /\ db[req[s].payment] # None
          /\ Allocations(s) = db[req[s].payment].allocations
          /\ req[s].loan = db[req[s].payment].loan
      BY <1>0, <2>1 DEF SessionOK, Reversing
    <3>2. Applies \subseteq Rows BY DEF Rows
    <3> QED BY <1>2, <1>6, <2>1, <3>1, <3>2 DEF Reversing, Allocations
  <2> QED BY <2>1, <2>2, <2>3, <2>4 DEF SessionOK
<1> QED BY <1>1, <1>4, <1>5, <1>7, <1>8 DEF PaymentsInv

(* Assessing a fee is a commit of its own.                                  *)
LEMMA CreateFeeStep ==
  ASSUME PaymentsInv, NEW f \in Fees, CreateFee(f)
  PROVE  PaymentsInv'
<1>0. Shapes /\ Database /\ KeysApart /\ \A t \in Sessions : SessionOK(t) BY DEF PaymentsInv
<1>1. /\ db[f] = None /\ db' = [db EXCEPT ![f] = NewFee]
      /\ UNCHANGED <<own, pc, req, snap, num, k, target, ent, cols, faults, reversals>>
  BY DEF CreateFee, locals
<1>2. f \in Rows /\ RowOf(f) = FeeRow /\ f \notin Applies /\ f \notin Loans \cup Items
  BY RowKinds, PaymentsConstants
<1>3. NewFee \in FeeRow /\ NewFee # None
  <2>1. NewFee \in FeeRow BY DEF NewFee, FeeRow
  <2> QED BY <2>1, PaymentsConstants
<1>4. /\ DOMAIN db' = Rows /\ db'[f] = NewFee
      /\ \A r \in Rows \ {f} : db'[r] = db[r]
  BY <1>0, <1>1, <1>2 DEF Shapes
<1>5. \A p \in Applies : p \in Rows /\ db'[p] = db[p] BY <1>2, <1>4 DEF Rows
<1>6. \A l : PaymentsOf(l)' = PaymentsOf(l) BY <1>5 DEF PaymentsOf
<1>7. \A l : NumbersOf(l)' = NumbersOf(l) BY <1>5, <1>6 DEF NumbersOf, PaymentsOf
<1>8. Database'
  <2>1. NumbersDense' BY <1>0, <1>6, <1>7 DEF Database, NumbersDense
  <2>2. \A r \in Rows : db'[r] \in RowOf(r) \cup {None}
    BY <1>0, <1>2, <1>3, <1>4 DEF Database
  <2>3. \A r \in Loans \cup Items : r \in Rows /\ r # f BY <1>2 DEF Rows
  <2>4. \A r \in Loans \cup Items : db'[r] # None BY <1>0, <1>4, <2>3 DEF Database
  <2> QED BY <2>1, <2>2, <2>4 DEF Database
<1>9. Shapes' BY <1>0, <1>1, <1>4 DEF Shapes
<1>10. KeysApart' BY <1>0, <1>1 DEF KeysApart
<1>11. ASSUME NEW t \in Sessions PROVE SessionOK(t)'
  <2>1. \A r \in Rows : db[r] # None => db'[r] # None BY <1>3, <1>4
  <2>2. ASSUME t \in Applies, t \in DOMAIN own[t], NEW l, l = req[t].loan
        PROVE  num[t] \notin NumbersOf(l)'
    <3>1. Paying(t) BY <1>0, <2>2 DEF SessionOK
    <3> QED BY <1>7, <2>2, <3>1 DEF Paying
  <2> QED BY <1>1, <1>5, <2>1, <2>2, GrownDatabase
<1> QED BY <1>8, <1>9, <1>10, <1>11 DEF PaymentsInv

----------------------------------------------------------------------------
(* The invariant is inductive.                                              *)

(* The requests of the constants are well formed.                           *)
LEMMA RequestsWellFormed == \A q \in Requests : WellFormed(q)
BY PaymentsConstants DEF WellFormed

(* A statement fails or the process is killed: the transaction is rolled    *)
(* back.                                                                    *)
LEMMA FailStep ==
  ASSUME PaymentsInv, NEW s \in Sessions, Fail(s) \/ BreakDeadlock(s)
  PROVE  PaymentsInv'
<1>1. Abort(s) BY DEF Fail, BreakDeadlock
<1>2. pc[s] \notin Ended \cup {"idle"}
  <2>1. CASE Fail(s) BY <2>1 DEF Fail
  <2>2. CASE BreakDeadlock(s)
    <3>1. Holders(s) # {} BY <2>2 DEF BreakDeadlock
    <3>2. pc[s] \in {"insert", "loan", "payment", "save", "alloc"} BY <3>1 DEF Holders
    <3> QED BY <3>2 DEF Ended
  <2> QED BY <2>1, <2>2
<1> QED BY <1>1, <1>2, AbortStep

(* A step of a session keeps the invariant.                                 *)
LEMMA StepKeeps ==
  ASSUME PaymentsInv, NEW s \in Sessions, Step(s) \/ Fail(s)
  PROVE  PaymentsInv'
<1>1. CASE LoadLoan(s)
  <2>1. PICK q \in Requests : Load(s, q) BY <1>1 DEF LoadLoan
  <2> QED BY <2>1, RequestsWellFormed, LoadStep
<1>2. CASE ReadNumber(s) BY <1>2, ReadNumberStep
<1>3. CASE InsertPayment(s) BY <1>3, InsertPaymentStep
<1>4. CASE InsertAllocation(s) BY <1>4, InsertAllocationStep
<1>5. CASE NextAllocation(s) BY <1>5, NextAllocationStep
<1>6. CASE UpdateLoan(s) BY <1>6, UpdateLoanStep
<1>7. CASE RefreshDelinquency(s) BY <1>7, RefreshDelinquencyStep
<1>8. CASE LoadPayment(s) BY <1>8, LoadPaymentStep
<1>9. CASE ReverseAllocation(s) BY <1>9, ReverseAllocationStep
<1>10. CASE MarkReversed(s) BY <1>10, MarkReversedStep
<1>11. CASE ReadItem(s) BY <1>11, ReadItemStep
<1>12. CASE ReadFee(s) BY <1>12, ReadFeeStep
<1>13. CASE NoFee(s) BY <1>13, NoFeeStep
<1>14. CASE WaiveFee(s) BY <1>14, WaiveFeeStep
<1>15. CASE CompareColumns(s) BY <1>15, CompareColumnsStep
<1>16. CASE SaveColumns(s) BY <1>16, SaveColumnsStep
<1>17. CASE Commit(s) BY <1>17, CommitStep
<1>18. CASE BreakDeadlock(s) \/ Fail(s) BY <1>18, FailStep
<1> QED BY <1>1, <1>2, <1>3, <1>4, <1>5, <1>6, <1>7, <1>8, <1>9, <1>10, <1>11, <1>12,
           <1>13, <1>14, <1>15, <1>16, <1>17, <1>18 DEF Step

(* A stuttering step keeps the invariant.                                   *)
LEMMA UnchangedKeeps == PaymentsInv /\ UNCHANGED vars => PaymentsInv'
<1> SUFFICES ASSUME PaymentsInv, UNCHANGED vars PROVE PaymentsInv' OBVIOUS
<1>0. Shapes /\ Database /\ KeysApart /\ \A t \in Sessions : SessionOK(t) BY DEF PaymentsInv
<1>1. /\ db' = db /\ own' = own /\ pc' = pc /\ req' = req /\ snap' = snap /\ num' = num
      /\ k' = k /\ target' = target /\ ent' = ent /\ cols' = cols /\ reversals' = reversals
  BY DEF vars, locals
<1>2. Shapes' BY <1>0, <1>1 DEF Shapes
<1>3. Database' BY <1>0, <1>1, SameDatabase
<1>4. KeysApart' BY <1>0, <1>1 DEF KeysApart
<1>5. ASSUME NEW t \in Sessions PROVE SessionOK(t)'
  <2>1. ASSUME t \in Applies, t \in DOMAIN own[t], NEW l, l = req[t].loan
        PROVE  num[t] \notin NumbersOf(l)'
    <3>1. Paying(t) BY <1>0, <2>1 DEF SessionOK
    <3>2. NumbersOf(l)' = NumbersOf(l) BY <1>1, SameDatabase
    <3> QED BY <2>1, <3>1, <3>2 DEF Paying
  <2> QED BY <1>1, <2>1, GrownDatabase
<1> QED BY <1>2, <1>3, <1>4, <1>5 DEF PaymentsInv

(* Every step keeps the invariant.                                          *)
LEMMA NextKeeps == PaymentsInv /\ [Next]_vars => PaymentsInv'
<1> SUFFICES ASSUME PaymentsInv, [Next]_vars PROVE PaymentsInv' OBVIOUS
<1>1. CASE Next
  <2>1. ASSUME NEW s \in Sessions, Step(s) \/ Fail(s) PROVE PaymentsInv' BY <2>1, StepKeeps
  <2>2. ASSUME NEW f \in Fees, CreateFee(f) PROVE PaymentsInv' BY <2>2, CreateFeeStep
  <2> QED BY <1>1, <2>1, <2>2 DEF Next
<1>2. CASE UNCHANGED vars BY <1>2, UnchangedKeeps
<1> QED BY <1>1, <1>2

(* The sessions of Payments, whatever they interleave and whichever of them *)
(* fails, keep the invariant.                                               *)
THEOREM PaymentsInductive == Spec => []PaymentsInv
BY InitInv, NextKeeps, PTL DEF Spec

(* Rows keep their types, and a session stays within the rows and columns   *)
(* there are.                                                               *)
LEMMA InvTypes == PaymentsInv => TypeOK
<1> SUFFICES ASSUME PaymentsInv PROVE TypeOK OBVIOUS
<1>0. Shapes /\ Database /\ \A s \in Sessions : SessionOK(s) BY DEF PaymentsInv
<1>1. \A l \in Loans : db[l] \in LoanRow BY <1>0, RowKinds DEF Database
<1>2. \A i \in Items : db[i] \in Item BY <1>0, RowKinds DEF Database
<1>3. \A f \in Fees : db[f] \in FeeRow \cup {None} BY <1>0, RowKinds DEF Database
<1>4. \A p \in Applies : db[p] \in PaymentRow \cup {None} BY <1>0, RowKinds DEF Database
<1>5. \A s \in Sessions : DOMAIN own[s] \subseteq Rows BY <1>0 DEF SessionOK, Working
<1>6. \A s \in Sessions : cols[s] \subseteq {"principal", "interest", "fees", "status", "paid"}
  BY <1>0 DEF SessionOK, Working, Columns
<1>7. num \in [Sessions -> 0 .. Cardinality(Applies) + 1] BY <1>0 DEF Shapes
<1> QED BY <1>0, <1>1, <1>2, <1>3, <1>4, <1>5, <1>6, <1>7 DEF TypeOK, Shapes

(* Whatever the requests and their order, every row and every entity of     *)
(* the payment service keeps its type: amounts never go below zero, and     *)
(* statuses are those of the code.                                          *)
THEOREM PaymentTypes == Spec => []TypeOK
BY PaymentsInductive, InvTypes, PTL

(* payment_number is MAX + 1 read without a lock; with the unique key it    *)
(* still numbers the payments of a loan 1, 2, 3, ...                        *)
THEOREM PaymentNumbersDense == Spec => []NumbersDense
<1>1. PaymentsInv => NumbersDense BY DEF PaymentsInv, Database
<1> QED BY <1>1, PaymentsInductive, PTL

----------------------------------------------------------------------------
(* The book.                                                                *)

\* the book as the database shows it
Shown == [p \in Applies |-> EntryOf(db[p])]

(* An entry of the book determines its payment.                             *)
LEMMA EntryFacts ==
  /\ EntryOf(None) = None
  /\ \A row \in PaymentRow :
       /\ EntryOf(row) \in Entry /\ EntryOf(row) # None
       /\ EntryOf(row) = [loan |-> row.loan, number |-> row.number, status |-> row.status]
       /\ EntryOf([row EXCEPT !.status = "REVERSED"]) = [EntryOf(row) EXCEPT !.status = "REVERSED"]
<1>1. EntryOf(None) = None BY DEF EntryOf
<1>2. None \notin PaymentRow /\ None \notin Entry BY PaymentsConstants
<1>3. ASSUME NEW row \in PaymentRow
      PROVE  /\ EntryOf(row) = [loan |-> row.loan, number |-> row.number, status |-> row.status]
             /\ EntryOf(row) \in Entry
  BY <1>2 DEF EntryOf, PaymentRow, Entry
<1>4. ASSUME NEW row \in PaymentRow
      PROVE  EntryOf([row EXCEPT !.status = "REVERSED"]) = [EntryOf(row) EXCEPT !.status = "REVERSED"]
  <2> DEFINE new == [row EXCEPT !.status = "REVERSED"]
  <2>1. new \in PaymentRow /\ new.loan = row.loan /\ new.number = row.number /\ new.status = "REVERSED"
    BY ReversedRow
  <2> HIDE DEF new
  <2>2. EntryOf(new) = [loan |-> row.loan, number |-> row.number, status |-> "REVERSED"]
    BY <1>3, <2>1
  <2> QED BY <1>3, <2>2 DEF new
<1> QED BY <1>1, <1>2, <1>3, <1>4

(* The entries of the book are the committed payments.                      *)
LEMMA EntriesArePayments ==
  ASSUME PaymentsInv, NEW l
  PROVE  {p \in Applies : Shown[p] # None /\ Shown[p].loan = l} = PaymentsOf(l)
<1>1. \A p \in Applies : db[p] \in PaymentRow \cup {None} BY RowKinds DEF PaymentsInv, Database
<1>2. ASSUME NEW p \in Applies
      PROVE  (Shown[p] # None <=> db[p] # None) /\ (db[p] # None => Shown[p].loan = db[p].loan)
  <2>1. Shown[p] = EntryOf(db[p]) BY DEF Shown
  <2>2. CASE db[p] = None BY <2>1, <2>2, EntryFacts
  <2>3. CASE db[p] # None
    <3>1. db[p] \in PaymentRow BY <1>1, <2>3
    <3>2. /\ EntryOf(db[p]) # None
          /\ EntryOf(db[p]) = [loan |-> db[p].loan, number |-> db[p].number, status |-> db[p].status]
      BY <3>1, EntryFacts
    <3>3. EntryOf(db[p]).loan = db[p].loan BY <3>2
    <3> QED BY <2>1, <2>3, <3>2, <3>3
  <2> QED BY <2>2, <2>3
<1> QED BY <1>2 DEF PaymentsOf

(* The tables to begin with are an empty book.                              *)
LEMMA InitBook == Init => Book!Init
<1> SUFFICES ASSUME Init PROVE Book!Init OBVIOUS
<1>1. \A p \in Applies : db[p] = None
  BY PaymentsConstants, RowKinds DEF Init
<1> QED BY <1>1, EntryFacts DEF Book!Init

(* A payment enters the book with its commit, under the next number; the    *)
(* commit of a reversal strikes it out, or finds it struck out already; and *)
(* no other step is seen in the book.                                       *)
LEMMA CommitBook ==
  ASSUME PaymentsInv, NEW s \in Sessions, Commit(s)
  PROVE  Book!Next \/ Shown' = Shown
<1>1. \A p \in Applies : db[p] \in PaymentRow \cup {None} BY RowKinds DEF PaymentsInv, Database
<1>2. CASE s \in Applies
  <2>1. /\ db[s] = None
        /\ db'[s] = [loan |-> req[s].loan, number |-> num[s], status |-> "APPLIED",
                     allocations |-> Allocations(s)]
        /\ \A p \in Applies \ {s} : db'[p] = db[p]
    BY <1>2, CommittedPayments
  <2>2. req[s].loan \in Loans /\ num[s] = Cardinality(PaymentsOf(req[s].loan)) + 1
    BY <1>2, CommittedNumbers
  <2>3. db'[s] \in PaymentRow
    <3>1. Working(s) /\ Paying(s) BY <1>2 DEF PaymentsInv, SessionOK
    <3>2. s \in DOMAIN own[s] BY <3>1, CommittedRows DEF Paying, Holding
    <3>3. own[s][s] \in PaymentRow BY <1>2, <3>1, <3>2, RowKinds DEF Working
    <3> QED BY <3>2, <3>3, CommittedRows
  <2>4. EntryOf(db'[s]) = [loan |-> req[s].loan, number |-> num[s], status |-> "APPLIED"]
    <3>1. db'[s].loan = req[s].loan /\ db'[s].number = num[s] /\ db'[s].status = "APPLIED"
      BY <2>1
    <3>2. EntryOf(db'[s]) = [loan |-> db'[s].loan, number |-> db'[s].number, status |-> db'[s].status]
      BY <2>3, EntryFacts
    <3> QED BY <3>1, <3>2
  <2>5. Shown' = [Shown EXCEPT ![s] = [loan |-> req[s].loan, number |-> num[s], status |-> "APPLIED"]]
    BY <1>2, <2>1, <2>4 DEF Shown
  <2>6. Shown[s] = None BY <1>2, <2>1, EntryFacts DEF Shown
  <2>7. num[s] = Cardinality({p \in Applies : Shown[p] # None /\ Shown[p].loan = req[s].loan}) + 1
    BY <2>2, EntriesArePayments
  <2>8. Book!Enter(s)
    <3>1. \A S : Book!Cardinality(S) = Cardinality(S) BY DEF Book!Cardinality, Cardinality
    <3> QED BY <2>2, <2>5, <2>6, <2>7, <3>1 DEF Book!Enter, Book!EntriesOf, Shown
  <2> QED BY <1>2, <2>8 DEF Book!Next
<1>3. CASE s \in Reverses
  <2> DEFINE p == req[s].payment
  <2>1. p \in Applies /\ db[p] # None
    BY <1>3, CommittedRows DEF PaymentsInv, SessionOK, Reversing
  <2>2. \A q \in Applies \ {p} : db'[q] = db[q] BY <1>3, CommittedPayments
  <2>3. db[p] \in PaymentRow /\ db'[p] \in {db[p], [db[p] EXCEPT !.status = "REVERSED"]}
    BY <1>3, <2>1, CommittedPayments, PaymentsConstants
  <2> HIDE DEF p
  <2>4. CASE db'[p] = db[p] BY <2>2, <2>4 DEF Shown
  <2>5. CASE db'[p] = [db[p] EXCEPT !.status = "REVERSED"]
    <3>0. EntryOf(db'[p]) = [EntryOf(db[p]) EXCEPT !.status = "REVERSED"]
      BY <2>3, <2>5, EntryFacts
    <3>1. Shown' = [Shown EXCEPT ![p] = [Shown[p] EXCEPT !.status = "REVERSED"]]
      BY <2>1, <2>2, <3>0 DEF Shown
    <3>2. Shown[p] \in Entry /\ Shown[p] # None BY <2>1, <2>3, EntryFacts DEF Shown
    <3>3. CASE Shown[p].status = "APPLIED"
      <4>1. Book!StrikeOut(p) BY <3>1, <3>2, <3>3 DEF Book!StrikeOut, Shown
      <4> QED BY <2>1, <4>1 DEF Book!Next
    <3>4. CASE Shown[p].status = "REVERSED"
      <4>1. [Shown[p] EXCEPT !.status = "REVERSED"] = Shown[p] BY <3>2, <3>4 DEF Entry
      <4> QED BY <3>1, <4>1 DEF Shown
    <3> QED BY <3>2, <3>3, <3>4 DEF Entry
  <2> QED BY <2>3, <2>4, <2>5
<1>4. CASE s \in Waives
  <2>1. s \notin Applies /\ DOMAIN own[s] \subseteq Fees
    BY <1>4, PaymentsConstants DEF PaymentsInv, SessionOK
  <2>2. \A p \in Applies : p \in Rows \ DOMAIN own[s]
    BY <2>1, PaymentsConstants DEF Rows
  <2>3. \A p \in Applies : db'[p] = db[p] BY <2>2, CommittedRows
  <2> QED BY <2>3 DEF Shown
<1> QED BY <1>2, <1>3, <1>4 DEF Sessions

(* Every step posts or strikes one entry of the book, or leaves it alone.   *)
LEMMA NextBook == PaymentsInv /\ [Next]_vars => [Book!Next]_Shown
<1> SUFFICES ASSUME PaymentsInv, [Next]_vars PROVE Book!Next \/ Shown' = Shown OBVIOUS
<1>1. ASSUME NEW s \in Sessions, Commit(s) PROVE Book!Next \/ Shown' = Shown
  BY <1>1, CommitBook
<1>2. ASSUME NEW f \in Fees, CreateFee(f) PROVE Shown' = Shown
  <2>1. \A p \in Applies : db'[p] = db[p]
    BY <1>2, RowKinds, PaymentsConstants DEF CreateFee, PaymentsInv, Shapes
  <2> QED BY <2>1 DEF Shown
<1>3. ASSUME NEW s \in Sessions, Step(s) \/ Fail(s), ~ Commit(s) PROVE db' = db
  BY <1>3 DEF Step, LoadLoan, Load, ReadNumber, InsertPayment, InsertAllocation, NextAllocation,
              UpdateLoan, RefreshDelinquency, LoadPayment, ReverseAllocation, MarkReversed,
              ReadItem, ReadFee, NoFee, WaiveFee, CompareColumns, SaveColumns, BreakDeadlock,
              Fail, Abort
<1>4. CASE UNCHANGED vars BY <1>4 DEF vars, Shown
<1>5. CASE Next
  <2>1. CASE \E s \in Sessions : Step(s) \/ Fail(s)
    <3>1. PICK s \in Sessions : Step(s) \/ Fail(s) BY <2>1
    <3>2. CASE Commit(s) BY <3>2, <1>1
    <3>3. CASE ~ Commit(s)
      <4>1. db' = db BY <3>1, <3>3, <1>3
      <4> QED BY <4>1 DEF Shown
    <3> QED BY <3>2, <3>3
  <2>2. CASE \E f \in Fees : CreateFee(f) BY <2>2, <1>2
  <2> QED BY <1>5, <2>1, <2>2 DEF Next
<1> QED BY <1>4, <1>5

(* Whatever applyPayment and reversePayment interleave, their sessions      *)
(* implement the abstract book of payments.                                 *)
THEOREM SessionsImplementBook == Spec => ImplementsBook
<1>1. PaymentsInv /\ [Next]_vars => [Book!Next]_([p \in Applies |-> EntryOf(db[p])])
  BY NextBook DEF Shown
<1> QED BY InitBook, <1>1, PaymentsInductive, PTL DEF Spec, ImplementsBook, Book!Spec

----------------------------------------------------------------------------
(* The money.  applyPayment computes absolute values from rows it read     *)
(* before, so what it writes is compared with the payments committed by    *)
(* then: their sums only grow as long as no reversal commits.              *)

NoReversal == \A p \in Applies : reversals[p] = 0

Reducing == {"PRINCIPAL", "PREPAYMENT"}

\* the committed payments, and this much more, explain what a row says of a loan
Explains(row, l, principal, interest) ==
  /\ row.outstanding >= Loan0[l].outstanding - (TotalApplied(l, Reducing) + principal)
  /\ row.accrued >= Loan0[l].accrued - (TotalApplied(l, {"INTEREST"}) + interest)

LoanHeld(s) ==
  /\ pc[s] \notin {"idle", "rejected"} => Explains(snap[s], req[s].loan, 0, 0)
  /\ \A l \in DOMAIN own[s] \cap Loans :
       /\ l = req[s].loan
       /\ Explains(own[s][l], l, SumOf(Allocations(s), Reducing), SumOf(Allocations(s), {"INTEREST"}))

(* While no reversal has committed, no balance, read or about to be         *)
(* committed, is below what the payments explain.                           *)
Balances ==
  NoReversal =>
    /\ \A p \in Applies : db[p] # None => db[p].status = "APPLIED"
    /\ \A l \in Loans : Explains(db[l], l, 0, 0)
    /\ \A s \in Applies : LoanHeld(s)

\* the money columns of an installment and of a fee, and the allocations that go into one
Money(r) == IF r \in Items THEN {"principal", "interest", "fees"} ELSE {"paid"}
Hits(a, r, c) ==
  \/ c = "principal" /\ a.item = r /\ a.bucket = "PRINCIPAL"
  \/ c = "interest" /\ a.item = r /\ a.bucket = "INTEREST"
  \/ c = "fees" /\ a.item = r /\ a.bucket = "FEE"
  \/ c = "paid" /\ a.fee = r /\ a.bucket = "FEE"
Names(a, r) == \/ a.item = r
               \/ a.fee = r /\ a.bucket = "FEE"

AmountsIn(allocs) == [n \in DOMAIN allocs |-> allocs[n].amount]
\* of the first m allocations, what goes into column c of r, and what goes toward r
Into(r, c, allocs, m) ==
  SumFunctionOnSet(AmountsIn(allocs), {n \in DOMAIN allocs : n <= m /\ Hits(allocs[n], r, c)})
TowardUpTo(r, allocs, m) ==
  SumFunctionOnSet(AmountsIn(allocs), {n \in DOMAIN allocs : n <= m /\ Names(allocs[n], r)})
Received(r, c) ==
  SumFunctionOnSet([p \in AppliedAll |-> Into(r, c, db[p].allocations, Len(db[p].allocations))],
                   AppliedAll)
DueOn(r) == IF r \in Items THEN ScheduledTotal[r] ELSE FeeAmount[r]

\* what a row says was paid is covered by the committed payments and m of these allocations
Fits(row, r, allocs, m) ==
  /\ \A c \in Money(r) : row[c] <= Received(r, c) + Into(r, c, allocs, m)
  /\ row.status = "PAID" => DueOn(r) - Tolerance <= TowardRow(r) + TowardUpTo(r, allocs, m)

\* the allocations s has made to r: the one it works on counts when r has been saved
Giving(s) == IF s \in Applies THEN Allocations(s) ELSE << >>
Made(s, r) ==
  IF \/ pc[s] \in {"alloc", "readItem"}
     \/ pc[s] = "readFee" /\ r \in Fees
     \/ pc[s] \in {"diff", "save"} /\ (r \in Fees \/ target[s] \in Items)
  THEN k[s] - 1 ELSE k[s]

RowsHeld(s) ==
  /\ \A r \in DOMAIN own[s] \cap (Items \cup Fees) : Fits(own[s][r], r, Giving(s), Made(s, r))
  /\ pc[s] \in {"diff", "save"} => Fits(ent[s], target[s], Giving(s), k[s])

(* While no reversal has committed, no column of an installment or a fee    *)
(* holds more than the payments put there, and none is PAID without cover.  *)
Covers ==
  NoReversal =>
    /\ \A r \in Items \cup Fees : db[r] # None => Fits(db[r], r, << >>, 0)
    /\ \A s \in Applies \cup Waives : RowsHeld(s)

(* Parts of the allocations of a request.                                   *)
LEMMA IntoFacts ==
  ASSUME NEW allocs \in Seq(Allocation), NEW r, NEW c
  PROVE  /\ \A m : Into(r, c, allocs, m) \in Nat /\ TowardUpTo(r, allocs, m) \in Nat
         /\ Toward(r, allocs) \in Nat
         /\ \A m : TowardUpTo(r, allocs, m) <= Toward(r, allocs)
         /\ \A m \in Nat : Into(r, c, allocs, m) <= Into(r, c, allocs, Len(allocs))
         /\ \A m, n \in Int : m <= n =>
              /\ Into(r, c, allocs, m) <= Into(r, c, allocs, n)
              /\ TowardUpTo(r, allocs, m) <= TowardUpTo(r, allocs, n)
<1> DEFINE D == DOMAIN allocs
           A == AmountsIn(allocs)
           H(m) == {n \in D : n <= m /\ Hits(allocs[n], r, c)}
           N(m) == {n \in D : n <= m /\ Names(allocs[n], r)}
           T == {n \in D : Names(allocs[n], r)}
<1>1. IsFiniteSet(D) /\ \A n \in D : A[n] \in Nat
  BY AllocationSums DEF AmountsIn
<1>2. \A S \in SUBSET D : SumFunctionOnSet(A, S) \in Nat
  BY AllocationSums DEF AmountsIn
<1>3. ASSUME NEW S \in SUBSET D, NEW U \in SUBSET S
      PROVE  SumFunctionOnSet(A, U) <= SumFunctionOnSet(A, S)
  <2>1. IsFiniteSet(S) BY <1>1, FS_Subset
  <2> QED BY <1>1, <2>1, SumSubset
<1>4. Toward(r, allocs) = SumFunctionOnSet(A, T)
  <2>1. {n \in D : allocs[n].item = r \/ (allocs[n].fee = r /\ allocs[n].bucket = "FEE")} = T
    BY DEF Names
  <2> QED BY <2>1 DEF Toward, AmountsIn
<1>5. \A m : Into(r, c, allocs, m) = SumFunctionOnSet(A, H(m)) BY DEF Into
<1>6. \A m : TowardUpTo(r, allocs, m) = SumFunctionOnSet(A, N(m)) BY DEF TowardUpTo
<1>7. \A m : H(m) \in SUBSET D /\ N(m) \in SUBSET T /\ N(m) \in SUBSET D OBVIOUS
<1>8. T \in SUBSET D OBVIOUS
<1>d. D = 1 .. Len(allocs) /\ Len(allocs) \in Nat OBVIOUS
<1>9. \A m \in Nat : H(m) \subseteq H(Len(allocs)) BY <1>d
<1>10. \A m, n \in Int : m <= n => H(m) \subseteq H(n) /\ N(m) \subseteq N(n) BY <1>d
<1> HIDE DEF D, A, H, N, T
<1>11. \A m : Into(r, c, allocs, m) \in Nat /\ TowardUpTo(r, allocs, m) \in Nat
  BY <1>2, <1>5, <1>6, <1>7
<1>12. Toward(r, allocs) \in Nat BY <1>2, <1>4, <1>8
<1>13. \A m : TowardUpTo(r, allocs, m) <= Toward(r, allocs) BY <1>3, <1>4, <1>6, <1>7, <1>8
<1>14. \A m \in Nat : Into(r, c, allocs, m) <= Into(r, c, allocs, Len(allocs))
  BY <1>3, <1>5, <1>7, <1>9
<1>15. ASSUME NEW m \in Int, NEW n \in Int, m <= n
       PROVE  /\ Into(r, c, allocs, m) <= Into(r, c, allocs, n)
              /\ TowardUpTo(r, allocs, m) <= TowardUpTo(r, allocs, n)
  BY <1>3, <1>5, <1>6, <1>7, <1>10, <1>15
<1> QED BY <1>11, <1>12, <1>13, <1>14, <1>15

(* One allocation more.                                                     *)
LEMMA IntoNext ==
  ASSUME NEW allocs \in Seq(Allocation), NEW r, NEW c, NEW m \in DOMAIN allocs,
         Hits(allocs[m], r, c)
  PROVE  Into(r, c, allocs, m) = Into(r, c, allocs, m - 1) + allocs[m].amount
<1> DEFINE D == DOMAIN allocs
           A == AmountsIn(allocs)
           H(n) == {j \in D : j <= n /\ Hits(allocs[j], r, c)}
<1>1. D = 1 .. Len(allocs) /\ Len(allocs) \in Nat OBVIOUS
<1>2. H(m) = H(m - 1) \cup {m} BY <1>1
<1>3. m \notin H(m - 1) /\ H(m - 1) \in SUBSET D BY <1>1
<1>4. IsFiniteSet(H(m - 1)) BY <1>3, AllocationSums
<1>5. \A n \in D : A[n] \in Int
  <2>1. \A n \in D : A[n] \in Nat BY AllocationSums DEF AmountsIn
  <2> HIDE DEF A, D
  <2> QED BY <2>1
<1>6. A[m] = allocs[m].amount BY DEF AmountsIn
<1>7. Into(r, c, allocs, m) = SumFunctionOnSet(A, H(m))
      /\ Into(r, c, allocs, m - 1) = SumFunctionOnSet(A, H(m - 1))
  BY DEF Into
<1> HIDE DEF H, A, D
<1>8. SumFunctionOnSet(A, H(m - 1) \cup {m}) = SumFunctionOnSet(A, H(m - 1)) + A[m]
  <2>1. \A y \in H(m - 1) : A[y] \in Int BY <1>3, <1>5
  <2>2. A[m] \in Int BY <1>5 DEF D
  <2> QED BY <1>3, <1>4, <2>1, <2>2, SumAdd
<1> QED BY <1>2, <1>6, <1>7, <1>8

(* The money columns of a row share what the allocations give to it.        *)
LEMMA ColumnsShare ==
  ASSUME NEW allocs \in Seq(Allocation), NEW m
  PROVE  /\ \A i \in Items :
              Into(i, "principal", allocs, m) + Into(i, "interest", allocs, m) + Into(i, "fees", allocs, m)
                <= TowardUpTo(i, allocs, m)
         /\ \A f \in Fees : Into(f, "paid", allocs, m) <= TowardUpTo(f, allocs, m)
<1> DEFINE D == DOMAIN allocs
           A == AmountsIn(allocs)
           H(r, c) == {n \in D : n <= m /\ Hits(allocs[n], r, c)}
           N(r) == {n \in D : n <= m /\ Names(allocs[n], r)}
<1>1. IsFiniteSet(D) /\ \A n \in D : A[n] \in Nat
  BY AllocationSums DEF AmountsIn
<1>2. \A S \in SUBSET D : IsFiniteSet(S) /\ SumFunctionOnSet(A, S) \in Nat
  BY AllocationSums DEF AmountsIn
<1>3. ASSUME NEW S \in SUBSET D, NEW U \in SUBSET S
      PROVE  SumFunctionOnSet(A, U) <= SumFunctionOnSet(A, S)
  <2>1. IsFiniteSet(S) BY <1>1, FS_Subset
  <2> QED BY <1>1, <2>1, SumSubset
<1>4. ASSUME NEW S \in SUBSET D, NEW U \in SUBSET D, S \cap U = {}
      PROVE  SumFunctionOnSet(A, S \cup U) = SumFunctionOnSet(A, S) + SumFunctionOnSet(A, U)
  <2>1. \A x \in S \cup U : A[x] \in Int BY <1>1
  <2>2. IsFiniteSet(S) /\ IsFiniteSet(U) BY <1>2
  <2> QED BY <1>4, <2>1, <2>2, SumUnion
<1>5. \A r, c : Into(r, c, allocs, m) = SumFunctionOnSet(A, H(r, c)) BY DEF Into
<1>6. \A r : TowardUpTo(r, allocs, m) = SumFunctionOnSet(A, N(r)) BY DEF TowardUpTo
<1>7. ASSUME NEW i \in Items
      PROVE  Into(i, "principal", allocs, m) + Into(i, "interest", allocs, m) + Into(i, "fees", allocs, m)
               <= TowardUpTo(i, allocs, m)
  <2> DEFINE P == H(i, "principal")
             I == H(i, "interest")
             F == H(i, "fees")
  <2>1. P \cap I = {} /\ (P \cup I) \cap F = {} BY DEF Hits
  <2>2. (P \cup I) \cup F \subseteq N(i) BY DEF Hits, Names
  <2>3. P \in SUBSET D /\ I \in SUBSET D /\ F \in SUBSET D /\ P \cup I \in SUBSET D
        /\ N(i) \in SUBSET D
    OBVIOUS
  <2> HIDE DEF P, I, F, H, N, A, D
  <2>4. SumFunctionOnSet(A, (P \cup I) \cup F) <= SumFunctionOnSet(A, N(i)) BY <1>3, <2>2, <2>3
  <2>5. SumFunctionOnSet(A, (P \cup I) \cup F) = SumFunctionOnSet(A, P \cup I) + SumFunctionOnSet(A, F)
    BY <1>4, <2>1, <2>3
  <2>6. SumFunctionOnSet(A, P \cup I) = SumFunctionOnSet(A, P) + SumFunctionOnSet(A, I)
    BY <1>4, <2>1, <2>3
  <2> QED BY <1>5, <1>6, <2>4, <2>5, <2>6 DEF P, I, F
<1>8. ASSUME NEW f \in Fees PROVE Into(f, "paid", allocs, m) <= TowardUpTo(f, allocs, m)
  <2>1. H(f, "paid") \subseteq N(f) /\ N(f) \in SUBSET D BY DEF Hits, Names
  <2> HIDE DEF H, N, A, D
  <2> QED BY <1>3, <1>5, <1>6, <2>1
<1> QED BY <1>7, <1>8

----------------------------------------------------------------------------
(* The sums over the committed payments.                                    *)

(* The applied payments, written out, and the types of their rows.          *)
LEMMA AppliedFacts ==
  ASSUME PaymentsInv
  PROVE  /\ IsFiniteSet(AppliedAll) /\ \A l : IsFiniteSet(Applied(l))
         /\ \A l : Applied(l) = {p \in Applies : db[p] # None /\ db[p].loan = l /\ db[p].status = "APPLIED"}
         /\ AppliedAll = {p \in Applies : db[p] # None /\ db[p].status = "APPLIED"}
         /\ \A p \in AppliedAll : db[p] \in PaymentRow /\ db[p].allocations \in Seq(Allocation)
         /\ \A l : \A p \in Applied(l) : db[p].allocations \in Seq(Allocation)
<1>1. \A p \in Applies : db[p] # None => db[p] \in PaymentRow
  BY RowKinds DEF PaymentsInv, Database
<1>2. \A l : Applied(l) = {p \in Applies : db[p] # None /\ db[p].loan = l /\ db[p].status = "APPLIED"}
  BY DEF Applied, PaymentsOf
<1>3. AppliedAll = {p \in Applies : db[p] # None /\ db[p].status = "APPLIED"}
  <2>1. \A p \in Applies : db[p] # None => db[p].loan \in Loans BY <1>1 DEF PaymentRow
  <2> QED BY <1>2, <2>1 DEF AppliedAll
<1>4. IsFiniteSet(AppliedAll) /\ \A l : IsFiniteSet(Applied(l))
  BY <1>2, <1>3, PaymentsConstants, FS_Subset
<1>5. \A p \in Applies : db[p] # None => db[p].allocations \in Seq(Allocation)
  BY <1>1 DEF PaymentRow
<1> QED BY <1>1, <1>2, <1>3, <1>4, <1>5

(* The totals of the payments are amounts.                                  *)
LEMMA TotalsTyped ==
  ASSUME PaymentsInv
  PROVE  /\ \A l, b : TotalApplied(l, b) \in Nat
         /\ \A r, c : Received(r, c) \in Nat
         /\ \A r : TowardRow(r) \in Nat
<1>1. ASSUME NEW l, NEW b PROVE TotalApplied(l, b) \in Nat
  <2> DEFINE f == [p \in Applied(l) |-> SumOf(db[p].allocations, b)]
  <2>1. \A p \in Applied(l) : f[p] \in Nat BY AppliedFacts, SumOfNat
  <2> HIDE DEF f
  <2>2. SumFunctionOnSet(f, Applied(l)) \in Nat BY <2>1, AppliedFacts, SumNat
  <2> QED BY <2>2 DEF TotalApplied, f
<1>2. ASSUME NEW r, NEW c PROVE Received(r, c) \in Nat
  <2> DEFINE f == [p \in AppliedAll |-> Into(r, c, db[p].allocations, Len(db[p].allocations))]
  <2>1. \A p \in AppliedAll : f[p] \in Nat BY AppliedFacts, IntoFacts
  <2> HIDE DEF f
  <2>2. SumFunctionOnSet(f, AppliedAll) \in Nat BY <2>1, AppliedFacts, SumNat
  <2> QED BY <2>2 DEF Received, f
<1>3. ASSUME NEW r PROVE TowardRow(r) \in Nat
  <2> DEFINE f == [p \in AppliedAll |-> Toward(r, db[p].allocations)]
  <2>1. \A p \in AppliedAll : f[p] \in Nat BY AppliedFacts, IntoFacts
  <2> HIDE DEF f
  <2>2. SumFunctionOnSet(f, AppliedAll) \in Nat BY <2>1, AppliedFacts, SumNat
  <2> QED BY <2>2 DEF TowardRow, f
<1> QED BY <1>1, <1>2, <1>3

(* Nothing is counted twice: the columns of a row together hold at most     *)
(* what the payments gave to the row.                                       *)
LEMMA ReceivedShare ==
  ASSUME PaymentsInv
  PROVE  /\ \A i \in Items :
              Received(i, "principal") + Received(i, "interest") + Received(i, "fees") <= TowardRow(i)
         /\ \A f \in Fees : Received(f, "paid") <= TowardRow(f)
<1> DEFINE g(r, c) == [p \in AppliedAll |-> Into(r, c, db[p].allocations, Len(db[p].allocations))]
           t(r) == [p \in AppliedAll |-> Toward(r, db[p].allocations)]
<1>0. IsFiniteSet(AppliedAll) BY AppliedFacts
<1>1. ASSUME NEW p \in AppliedAll, NEW r, NEW c PROVE g(r, c)[p] \in Nat
  BY AppliedFacts, IntoFacts
<1>2. ASSUME NEW p \in AppliedAll, NEW r PROVE t(r)[p] \in Nat
  BY AppliedFacts, IntoFacts
<1>3. ASSUME NEW p \in AppliedAll
      PROVE  /\ \A i \in Items : g(i, "principal")[p] + g(i, "interest")[p] + g(i, "fees")[p] <= t(i)[p]
             /\ \A f \in Fees : g(f, "paid")[p] <= t(f)[p]
  <2> DEFINE allocs == db[p].allocations
  <2>1. allocs \in Seq(Allocation) BY AppliedFacts
  <2> HIDE DEF allocs
  <2>2. \A r : TowardUpTo(r, allocs, Len(allocs)) <= Toward(r, allocs)
    BY <2>1, IntoFacts
  <2>3. \A r, c : Into(r, c, allocs, Len(allocs)) \in Nat
                  /\ TowardUpTo(r, allocs, Len(allocs)) \in Nat /\ Toward(r, allocs) \in Nat
    BY <2>1, IntoFacts
  <2>4. \A i \in Items :
          Into(i, "principal", allocs, Len(allocs)) + Into(i, "interest", allocs, Len(allocs))
            + Into(i, "fees", allocs, Len(allocs)) <= TowardUpTo(i, allocs, Len(allocs))
    BY <2>1, ColumnsShare
  <2>5. \A f \in Fees : Into(f, "paid", allocs, Len(allocs)) <= TowardUpTo(f, allocs, Len(allocs))
    BY <2>1, ColumnsShare
  <2>6. \A i \in Items :
          Into(i, "principal", allocs, Len(allocs)) + Into(i, "interest", allocs, Len(allocs))
            + Into(i, "fees", allocs, Len(allocs)) <= Toward(i, allocs)
    BY <2>2, <2>3, <2>4
  <2>7. \A f \in Fees : Into(f, "paid", allocs, Len(allocs)) <= Toward(f, allocs)
    BY <2>2, <2>3, <2>5
  <2> QED BY <2>6, <2>7 DEF allocs
<1>4. ASSUME NEW i \in Items
      PROVE  Received(i, "principal") + Received(i, "interest") + Received(i, "fees") <= TowardRow(i)
  <2> DEFINE P == g(i, "principal")
             I == g(i, "interest")
             F == g(i, "fees")
             T == t(i)
             PI == [p \in AppliedAll |-> P[p] + I[p]]
             PIF == [p \in AppliedAll |-> PI[p] + F[p]]
  <2>1. \A p \in AppliedAll : P[p] \in Nat /\ I[p] \in Nat /\ F[p] \in Nat /\ T[p] \in Nat
    BY <1>1, <1>2
  <2>2. \A p \in AppliedAll : P[p] + I[p] + F[p] <= T[p] BY <1>3
  <2>s. /\ Received(i, "principal") = SumFunctionOnSet(P, AppliedAll)
        /\ Received(i, "interest") = SumFunctionOnSet(I, AppliedAll)
        /\ Received(i, "fees") = SumFunctionOnSet(F, AppliedAll)
        /\ TowardRow(i) = SumFunctionOnSet(T, AppliedAll)
    BY DEF Received, TowardRow
  <2> HIDE DEF P, I, F, T, g, t
  <2>3. \A p \in AppliedAll : PI[p] = P[p] + I[p] /\ PIF[p] = PI[p] + F[p] OBVIOUS
  <2> HIDE DEF PI, PIF
  <2>4. SumFunctionOnSet(PI, AppliedAll) = SumFunctionOnSet(P, AppliedAll) + SumFunctionOnSet(I, AppliedAll)
    <3>1. \A p \in AppliedAll : P[p] \in Int /\ I[p] \in Int /\ PI[p] = P[p] + I[p]
      BY <2>1, <2>3
    <3> QED BY <1>0, <3>1, SumPlus
  <2>5. SumFunctionOnSet(PIF, AppliedAll) = SumFunctionOnSet(PI, AppliedAll) + SumFunctionOnSet(F, AppliedAll)
    <3>1. \A p \in AppliedAll : PI[p] \in Int /\ F[p] \in Int /\ PIF[p] = PI[p] + F[p]
      BY <2>1, <2>3
    <3> QED BY <1>0, <3>1, SumPlus
  <2>6. SumFunctionOnSet(PIF, AppliedAll) <= SumFunctionOnSet(T, AppliedAll)
    <3>1. \A p \in AppliedAll : PIF[p] \in Int /\ T[p] \in Int /\ PIF[p] <= T[p]
      BY <2>1, <2>2, <2>3
    <3> QED BY <1>0, <3>1, SumAtMost
  <2> QED BY <2>4, <2>5, <2>6, <2>s
<1>5. ASSUME NEW f \in Fees PROVE Received(f, "paid") <= TowardRow(f)
  <2> DEFINE F == g(f, "paid")
             T == t(f)
  <2>0. \A p \in AppliedAll : F[p] \in Nat /\ T[p] \in Nat BY <1>1, <1>2
  <2>3. \A p \in AppliedAll : F[p] <= T[p] BY <1>3
  <2>2. Received(f, "paid") = SumFunctionOnSet(F, AppliedAll)
        /\ TowardRow(f) = SumFunctionOnSet(T, AppliedAll)
    BY DEF Received, TowardRow
  <2> HIDE DEF F, T, g, t
  <2>1. \A p \in AppliedAll : F[p] \in Int /\ T[p] \in Int /\ F[p] <= T[p] BY <2>0, <2>3
  <2> QED BY <1>0, <2>1, <2>2, SumAtMost
<1> QED BY <1>4, <1>5

(* The sums change when a payment commits.                                  *)
LEMMA SameSums ==
  ASSUME \A p \in Applies : db'[p] = db[p]
  PROVE  /\ \A l, b : TotalApplied(l, b)' = TotalApplied(l, b)
         /\ \A r, c : Received(r, c)' = Received(r, c)
         /\ \A r : TowardRow(r)' = TowardRow(r)
<1>1. \A l : Applied(l)' = Applied(l) /\ Applied(l) \subseteq Applies
  BY DEF Applied, PaymentsOf
<1>2. AppliedAll' = AppliedAll /\ AppliedAll \subseteq Applies BY <1>1 DEF AppliedAll
<1>3. ASSUME NEW l, NEW b PROVE TotalApplied(l, b)' = TotalApplied(l, b)
  <2>1. [p \in Applied(l)' |-> SumOf(db'[p].allocations, b)] = [p \in Applied(l) |-> SumOf(db[p].allocations, b)]
    BY <1>1
  <2> QED BY <1>1, <2>1 DEF TotalApplied
<1>4. ASSUME NEW r, NEW c PROVE Received(r, c)' = Received(r, c)
  <2>1. [p \in AppliedAll' |-> Into(r, c, db'[p].allocations, Len(db'[p].allocations))]
          = [p \in AppliedAll |-> Into(r, c, db[p].allocations, Len(db[p].allocations))]
    BY <1>2
  <2> QED BY <1>2, <2>1 DEF Received
<1>5. ASSUME NEW r PROVE TowardRow(r)' = TowardRow(r)
  <2>1. [p \in AppliedAll' |-> Toward(r, db'[p].allocations)]
          = [p \in AppliedAll |-> Toward(r, db[p].allocations)]
    BY <1>2
  <2> QED BY <1>2, <2>1 DEF TowardRow
<1> QED BY <1>3, <1>4, <1>5

(* What a commit adds to the totals.                                        *)
LEMMA GrowSums ==
  ASSUME PaymentsInv, NEW s \in Applies, Commit(s)
  PROVE  /\ Allocations(s) \in Seq(Allocation)
         /\ \A l, b : TotalApplied(l, b)' =
              IF l = req[s].loan THEN TotalApplied(l, b) + SumOf(Allocations(s), b)
              ELSE TotalApplied(l, b)
         /\ \A r, c : Received(r, c)' = Received(r, c) + Into(r, c, Allocations(s), Len(Allocations(s)))
         /\ \A r : TowardRow(r)' = TowardRow(r) + Toward(r, Allocations(s))
<1>s. s \in Sessions BY DEF Sessions
<1>n. \A x \in Nat : x \in Int OBVIOUS
<1>1. /\ db[s] = None
      /\ db'[s] = [loan |-> req[s].loan, number |-> num[s], status |-> "APPLIED",
                   allocations |-> Allocations(s)]
      /\ \A p \in Applies \ {s} : db'[p] = db[p]
  BY <1>s, CommittedPayments
<1>2. db'[s] # None /\ Allocations(s) \in Seq(Allocation) /\ req[s].loan \in Loans
  <2>1. Working(s) /\ Paying(s) BY <1>s DEF PaymentsInv, SessionOK
  <2>2. s \in DOMAIN own[s] BY <1>s, <2>1, CommittedRows DEF Paying, Holding
  <2>3. own[s][s] \in PaymentRow BY <2>1, <2>2, RowKinds DEF Working
  <2>4. db'[s] \in PaymentRow BY <1>s, <2>2, <2>3, CommittedRows
  <2>5. Allocations(s) \in Seq(Allocation) /\ req[s].loan \in Loans
    BY <1>1, <2>4 DEF PaymentRow
  <2> QED BY <2>4, <2>5, PaymentsConstants
<1>3. db'[s].loan = req[s].loan /\ db'[s].status = "APPLIED" /\ db'[s].allocations = Allocations(s)
  BY <1>1
<1> DEFINE l0 == req[s].loan
           as == Allocations(s)
<1>4. s \notin AppliedAll /\ \A l : s \notin Applied(l) BY <1>1 DEF AppliedAll, Applied, PaymentsOf
<1> HIDE DEF l0
<1>5. ASSUME NEW l PROVE Applied(l)' = IF l = l0 THEN Applied(l) \cup {s} ELSE Applied(l)
  <2>1. Applied(l)' = {p \in Applies : db'[p] # None /\ db'[p].loan = l /\ db'[p].status = "APPLIED"}
    BY DEF Applied, PaymentsOf
  <2>2. Applied(l) = {p \in Applies : db[p] # None /\ db[p].loan = l /\ db[p].status = "APPLIED"}
    BY DEF Applied, PaymentsOf
  <2> QED BY <1>1, <1>2, <1>3, <2>1, <2>2 DEF l0
<1>6. AppliedAll' = AppliedAll \cup {s}
  <2>1. l0 \in Loans BY <1>2 DEF l0
  <2>2. AppliedAll' = UNION {Applied(l)' : l \in Loans} BY DEF AppliedAll
  <2>3. \A p : p \in AppliedAll' <=> \E l \in Loans : p \in Applied(l)' BY <2>2
  <2>4. \A p : p \in AppliedAll <=> \E l \in Loans : p \in Applied(l) BY DEF AppliedAll
  <2>5. \A p : p \in AppliedAll' <=> p \in AppliedAll \cup {s}
    BY <1>5, <2>1, <2>3, <2>4
  <2> QED BY <2>5
<1>7. /\ \A p \in AppliedAll : db'[p] = db[p]
      /\ \A l : \A p \in Applied(l) : db'[p] = db[p]
  BY <1>1, <1>4 DEF AppliedAll, Applied, PaymentsOf
<1> HIDE DEF as
<1>f. IsFiniteSet(AppliedAll) /\ \A l : IsFiniteSet(Applied(l)) BY AppliedFacts
<1>8. db'[s].allocations = as BY <1>3 DEF as
<1>9. as \in Seq(Allocation) BY <1>2 DEF as
<1>10. ASSUME NEW l, NEW b
       PROVE  TotalApplied(l, b)' = IF l = l0 THEN TotalApplied(l, b) + SumOf(as, b) ELSE TotalApplied(l, b)
  <2> DEFINE f == [p \in Applied(l) |-> SumOf(db[p].allocations, b)]
             g == [p \in Applied(l)' |-> SumOf(db'[p].allocations, b)]
  <2>1. TotalApplied(l, b) = SumFunctionOnSet(f, Applied(l))
        /\ TotalApplied(l, b)' = SumFunctionOnSet(g, Applied(l)')
    BY DEF TotalApplied
  <2>2. \A p \in Applied(l) : f[p] \in Nat BY AppliedFacts, SumOfNat
  <2>3. CASE l = l0
    <3>1. Applied(l)' = Applied(l) \cup {s} BY <1>5, <2>3
    <3>2. \A p \in Applied(l) : g[p] = f[p] BY <1>7, <3>1
    <3>3. g[s] = SumOf(as, b) /\ SumOf(as, b) \in Nat BY <1>8, <1>9, <3>1, SumOfNat
    <3> HIDE DEF f, g
    <3>4. \A p \in Applied(l) : f[p] \in Int /\ g[p] = f[p] BY <2>2, <3>2
    <3>6. g[s] \in Int BY <1>n, <3>3, Zenon
    <3>5. SumFunctionOnSet(g, Applied(l) \cup {s}) = SumFunctionOnSet(f, Applied(l)) + g[s]
      BY <1>f, <1>4, <3>4, <3>6, SumGrow
    <3> QED BY <2>1, <2>3, <3>1, <3>3, <3>5
  <2>4. CASE l # l0
    <3>1. Applied(l)' = Applied(l) BY <1>5, <2>4
    <3>2. g = f BY <1>7, <3>1
    <3> QED BY <2>1, <2>4, <3>1, <3>2
  <2> QED BY <2>3, <2>4
<1>11. ASSUME NEW r, NEW c PROVE Received(r, c)' = Received(r, c) + Into(r, c, as, Len(as))
  <2> DEFINE f == [p \in AppliedAll |-> Into(r, c, db[p].allocations, Len(db[p].allocations))]
             g == [p \in AppliedAll' |-> Into(r, c, db'[p].allocations, Len(db'[p].allocations))]
  <2>1. Received(r, c) = SumFunctionOnSet(f, AppliedAll)
        /\ Received(r, c)' = SumFunctionOnSet(g, AppliedAll')
    BY DEF Received
  <2>2. \A p \in AppliedAll : f[p] \in Nat BY AppliedFacts, IntoFacts
  <2>3. \A p \in AppliedAll : g[p] = f[p] BY <1>6, <1>7
  <2>4. g[s] = Into(r, c, as, Len(as)) /\ Into(r, c, as, Len(as)) \in Nat
    BY <1>6, <1>8, <1>9, IntoFacts
  <2> HIDE DEF f, g
  <2>5. \A p \in AppliedAll : f[p] \in Int /\ g[p] = f[p] BY <2>2, <2>3
  <2>7. g[s] \in Int BY <1>n, <2>4, Zenon
  <2>6. SumFunctionOnSet(g, AppliedAll \cup {s}) = SumFunctionOnSet(f, AppliedAll) + g[s]
    BY <1>f, <1>4, <2>5, <2>7, SumGrow
  <2> QED BY <1>6, <2>1, <2>4, <2>6
<1>12. ASSUME NEW r PROVE TowardRow(r)' = TowardRow(r) + Toward(r, as)
  <2> DEFINE f == [p \in AppliedAll |-> Toward(r, db[p].allocations)]
             g == [p \in AppliedAll' |-> Toward(r, db'[p].allocations)]
  <2>1. TowardRow(r) = SumFunctionOnSet(f, AppliedAll)
        /\ TowardRow(r)' = SumFunctionOnSet(g, AppliedAll')
    BY DEF TowardRow
  <2>2. \A p \in AppliedAll : f[p] \in Nat BY AppliedFacts, IntoFacts
  <2>3. \A p \in AppliedAll : g[p] = f[p] BY <1>6, <1>7
  <2>4. g[s] = Toward(r, as) /\ Toward(r, as) \in Nat
    BY <1>6, <1>8, <1>9, IntoFacts
  <2> HIDE DEF f, g
  <2>5. \A p \in AppliedAll : f[p] \in Int /\ g[p] = f[p] BY <2>2, <2>3
  <2>7. g[s] \in Int BY <1>n, <2>4, Zenon
  <2>6. SumFunctionOnSet(g, AppliedAll \cup {s}) = SumFunctionOnSet(f, AppliedAll) + g[s]
    BY <1>f, <1>4, <2>5, <2>7, SumGrow
  <2> QED BY <1>6, <2>1, <2>4, <2>6
<1> QED BY <1>9, <1>10, <1>11, <1>12 DEF l0, as

----------------------------------------------------------------------------
(* The balances.                                                            *)

\* a step of s that is not its commit
Inner(s) == (Step(s) \/ Fail(s) \/ \E q : WellFormed(q) /\ Load(s, q)) /\ ~ Commit(s)

(* The steps that are not a commit, one by one.                             *)
LEMMA InnerCases ==
  ASSUME NEW s \in Sessions, Inner(s)
  PROVE  \/ \E q : WellFormed(q) /\ Load(s, q)
         \/ ReadNumber(s) \/ InsertPayment(s) \/ InsertAllocation(s)
         \/ NextAllocation(s) \/ UpdateLoan(s) \/ RefreshDelinquency(s)
         \/ LoadPayment(s) \/ ReverseAllocation(s) \/ MarkReversed(s)
         \/ ReadItem(s) \/ ReadFee(s) \/ NoFee(s) \/ WaiveFee(s) \/ CompareColumns(s) \/ SaveColumns(s)
         \/ BreakDeadlock(s) \/ Fail(s)
BY RequestsWellFormed DEF Inner, Step, LoadLoan

(* Such a step is about s only.                                             *)
LEMMA InnerIsOwn ==
  ASSUME PaymentsInv, PaymentsInv', NEW s \in Sessions, Inner(s)
  PROVE  Own(s) /\ reversals' = reversals
<1>0. Shapes' BY DEF PaymentsInv
<1>p. ASSUME NEW row, NEW val, Put(s, row, val)
      PROVE  \A t \in Sessions \ {s} : own'[t] = own[t]
  BY <1>p, PutFacts DEF PaymentsInv, Shapes
<1>1. ASSUME NEW q, Load(s, q) PROVE Own(s) /\ reversals' = reversals
  BY <1>0, <1>1 DEF Load, Goto, Own
<1>2. CASE ReadNumber(s) BY <1>0, <1>2 DEF ReadNumber, Goto, Own
<1>3. CASE InsertPayment(s)
  <2>0. Shapes BY DEF PaymentsInv
  <2>1. \A t \in Sessions \ {s} : own'[t] = own[t] /\ pc'[t] = pc[t]
    <3>1. CASE num[s] \in NumbersOf(req[s].loan)
      BY <1>3, <2>0, <3>1 DEF InsertPayment, Discard, Goto, Shapes
    <3>2. CASE num[s] \notin NumbersOf(req[s].loan)
      <4>1. \A t \in Sessions \ {s} : own'[t] = own[t] BY <1>3, <3>2, <1>p DEF InsertPayment
      <4>2. \A t \in Sessions \ {s} : pc'[t] = pc[t]
        BY <1>3, <2>0, <3>2 DEF InsertPayment, Goto, Shapes
      <4> QED BY <4>1, <4>2
    <3> QED BY <3>1, <3>2
  <2>2. UNCHANGED <<db, locals, reversals>> BY <1>3 DEF InsertPayment
  <2> QED BY <1>0, <2>1, <2>2 DEF Own, locals
<1>4. CASE InsertAllocation(s) BY <1>0, <1>4 DEF InsertAllocation, Goto, Own, locals
<1>5. CASE NextAllocation(s)
  <2>0. Shapes BY DEF PaymentsInv
  <2>1. \A t \in Sessions \ {s} : k'[t] = k[t] /\ pc'[t] = pc[t]
    <3>1. CASE k[s] < Len(Allocations(s)) BY <1>5, <2>0, <3>1 DEF NextAllocation, Goto, Shapes
    <3>2. CASE ~ (k[s] < Len(Allocations(s))) BY <1>5, <2>0, <3>2 DEF NextAllocation, Goto, Shapes
    <3> QED BY <3>1, <3>2
  <2>2. UNCHANGED <<db, own, req, snap, num, target, ent, cols, reversals>>
    BY <1>5 DEF NextAllocation
  <2> QED BY <1>0, <2>1, <2>2 DEF Own
<1>6. CASE UpdateLoan(s)
  <2>1. \A t \in Sessions \ {s} : own'[t] = own[t] BY <1>6, <1>p DEF UpdateLoan
  <2> QED BY <1>0, <1>6, <2>1 DEF UpdateLoan, Goto, Own, locals
<1>7. CASE RefreshDelinquency(s)
  <2>1. \A t \in Sessions \ {s} : own'[t] = own[t] BY <1>7, <1>p DEF RefreshDelinquency
  <2> QED BY <1>0, <1>7, <2>1 DEF RefreshDelinquency, Goto, Own, locals
<1>8. CASE LoadPayment(s) BY <1>0, <1>8 DEF LoadPayment, Goto, Own
<1>9. CASE ReverseAllocation(s)
  <2>1. \A t \in Sessions \ {s} : own'[t] = own[t] BY <1>9, <1>p DEF ReverseAllocation
  <2> QED BY <1>0, <1>9, <2>1 DEF ReverseAllocation, Goto, Own, locals
<1>10. CASE MarkReversed(s)
  <2>1. \A t \in Sessions \ {s} : own'[t] = own[t] BY <1>10, <1>p DEF MarkReversed
  <2> QED BY <1>0, <1>10, <2>1 DEF MarkReversed, Goto, Own, locals
<1>11. CASE ReadItem(s) BY <1>0, <1>11 DEF ReadItem, Goto, Own
<1>12. CASE ReadFee(s) BY <1>0, <1>12 DEF ReadFee, Goto, Own
<1>13. CASE NoFee(s) BY <1>0, <1>13 DEF NoFee, Goto, Own, locals
<1>14. CASE WaiveFee(s) BY <1>0, <1>14 DEF WaiveFee, Goto, Own
<1>15. CASE CompareColumns(s) BY <1>0, <1>15 DEF CompareColumns, Goto, Own
<1>16. CASE SaveColumns(s)
  <2>1. \A t \in Sessions \ {s} : own'[t] = own[t] BY <1>16, <1>p DEF SaveColumns
  <2> QED BY <1>0, <1>16, <2>1 DEF SaveColumns, Goto, Own, locals
<1>17. CASE BreakDeadlock(s) \/ Fail(s)
  <2>1. Abort(s) BY <1>17 DEF BreakDeadlock, Fail
  <2> QED BY <1>0, <2>1 DEF Abort, Discard, Goto, Own, locals
<1> QED BY <1>1, <1>2, <1>3, <1>4, <1>5, <1>6, <1>7, <1>8, <1>9, <1>10, <1>11, <1>12,
           <1>13, <1>14, <1>15, <1>16, <1>17, InnerCases

(* What applyPayment does to its copy of the loan: it reads it once, and    *)
(* writes it in two statements.                                             *)
LEMMA LoanCopies ==
  ASSUME PaymentsInv, NEW s \in Applies, Inner(s)
  PROVE  \/ \E q : WellFormed(q) /\ Load(s, q)
         \/ UpdateLoan(s)
         \/ RefreshDelinquency(s)
         \/ /\ req'[s] = req[s] /\ snap'[s] = snap[s]
            /\ pc'[s] \notin {"idle", "rejected"} => pc[s] \notin {"idle", "rejected"}
            /\ \A l \in DOMAIN own'[s] \cap Loans : l \in DOMAIN own[s] /\ own'[s][l] = own[s][l]
<1>s. s \in Sessions /\ s \notin Reverses /\ s \notin Waives BY PaymentsConstants DEF Sessions
<1>0. Shapes /\ SessionOK(s) BY <1>s DEF PaymentsInv
<1> DEFINE Same == /\ req'[s] = req[s] /\ snap'[s] = snap[s]
                   /\ pc'[s] \notin {"idle", "rejected"} => pc[s] \notin {"idle", "rejected"}
                   /\ \A l \in DOMAIN own'[s] \cap Loans : l \in DOMAIN own[s] /\ own'[s][l] = own[s][l]
<1>p. ASSUME NEW row, NEW val, Put(s, row, val), row \notin Loans
      PROVE  \A l \in DOMAIN own'[s] \cap Loans : l \in DOMAIN own[s] /\ own'[s][l] = own[s][l]
  BY <1>0, <1>s, <1>p, PutFacts DEF Shapes
<1>2. CASE ReadNumber(s) BY <1>2 DEF ReadNumber
<1>3. CASE InsertPayment(s)
  <2>1. s \notin Loans BY PaymentsConstants
  <2>2. \A l \in DOMAIN own'[s] \cap Loans : l \in DOMAIN own[s] /\ own'[s][l] = own[s][l]
    <3>1. CASE Discard(s) BY <1>0, <1>s, <3>1 DEF Discard, Shapes
    <3>2. CASE ~ Discard(s) BY <1>3, <1>p, <2>1, <3>2 DEF InsertPayment
    <3> QED BY <3>1, <3>2
  <2> QED BY <1>3, <2>2 DEF InsertPayment, locals
<1>4. CASE InsertAllocation(s) BY <1>4 DEF InsertAllocation, locals
<1>5. CASE NextAllocation(s) BY <1>5 DEF NextAllocation
<1>8. CASE LoadPayment(s) \/ ReverseAllocation(s) \/ WaiveFee(s)
  BY <1>8, <1>s DEF LoadPayment, ReverseAllocation, WaiveFee
<1>10. CASE MarkReversed(s)
  BY <1>10, <1>0, <1>s DEF MarkReversed, SessionOK, Working, Labels, Loop, Ended
<1>11. CASE ReadItem(s) BY <1>11 DEF ReadItem
<1>12. CASE ReadFee(s) BY <1>12 DEF ReadFee
<1>13. CASE NoFee(s) BY <1>13 DEF NoFee, locals
<1>15. CASE CompareColumns(s) BY <1>15 DEF CompareColumns
<1>16. CASE SaveColumns(s)
  <2>1. target[s] \notin Loans
    BY <1>0, <1>16, PaymentsConstants DEF SaveColumns, SessionOK, Working
  <2>2. \A l \in DOMAIN own'[s] \cap Loans : l \in DOMAIN own[s] /\ own'[s][l] = own[s][l]
    BY <1>16, <1>p, <2>1 DEF SaveColumns
  <2> QED BY <1>16, <2>2 DEF SaveColumns, locals
<1>17. CASE BreakDeadlock(s) \/ Fail(s)
  <2>1. Abort(s) BY <1>17 DEF BreakDeadlock, Fail
  <2>2. DOMAIN own'[s] = {} BY <2>1, <1>0, <1>s DEF Abort, Discard, Shapes
  <2>3. pc[s] \notin {"idle", "rejected"}
    <3>1. CASE Fail(s) BY <3>1 DEF Fail, Ended
    <3>2. CASE BreakDeadlock(s) BY <3>2 DEF BreakDeadlock, Holders
    <3> QED BY <1>17, <3>1, <3>2
  <2> QED BY <2>1, <2>2, <2>3 DEF Abort, locals
<1> QED BY <1>2, <1>3, <1>4, <1>5, <1>8, <1>10, <1>11, <1>12,
           <1>13, <1>15, <1>16, <1>17, <1>s, InnerCases

\* the sums are numbers, whatever they are sums over
Totals ==
  /\ \A l, b : TotalApplied(l, b) \in Nat
  /\ \A r, c : Received(r, c) \in Nat
  /\ \A r : TowardRow(r) \in Nat

(* As a fact of every state the invariant holds in.                         *)
LEMMA TotalsHold == PaymentsInv => Totals
BY TotalsTyped DEF Totals

(* What explains a row still does when more payments have committed.        *)
LEMMA ExplainsGrown ==
  ASSUME PaymentsInv, PaymentsInv', \A l, b : TotalApplied(l, b)' >= TotalApplied(l, b),
         NEW row \in LoanRow, NEW l \in Loans, NEW x \in Nat, NEW y \in Nat, Explains(row, l, x, y)
  PROVE  Explains(row, l, x, y)'
<1>1. \A b : TotalApplied(l, b) \in Nat BY TotalsTyped
<1>2. \A b : TotalApplied(l, b)' \in Nat
  <2>1. Totals' BY TotalsHold, PTL
  <2> QED BY <2>1 DEF Totals
<1>3. row.outstanding \in Nat /\ row.accrued \in Nat BY DEF LoanRow
<1>4. Loan0[l].outstanding \in Nat /\ Loan0[l].accrued \in Nat BY PaymentsConstants DEF LoanRow
<1> QED BY <1>1, <1>2, <1>3, <1>4 DEF Explains

(* And the sessions that do nothing meanwhile keep what they hold.          *)
LEMMA LoanHeldGrown ==
  ASSUME PaymentsInv, PaymentsInv', \A l, b : TotalApplied(l, b)' >= TotalApplied(l, b),
         NEW t \in Applies, LoanHeld(t),
         own'[t] = own[t] /\ pc'[t] = pc[t] /\ req'[t] = req[t] /\ snap'[t] = snap[t]
  PROVE  LoanHeld(t)'
<1>0. Working(t) /\ Paying(t) /\ t \notin Waives
  BY PaymentsConstants DEF PaymentsInv, SessionOK, Sessions
<1>1. ASSUME pc[t] \notin {"idle", "rejected"}, NEW l, l = req[t].loan, NEW row, row = snap[t]
      PROVE  Explains(row, l, 0, 0)'
  <2>1. row \in LoanRow /\ l \in Loans /\ Explains(row, l, 0, 0)
    BY <1>0, <1>1 DEF Paying, Working, WellFormed, LoanHeld
  <2> QED BY <2>1, ExplainsGrown
<1>2. ASSUME NEW l \in DOMAIN own[t] \cap Loans, NEW row, row = own[t][l],
             NEW x, x = SumOf(Allocations(t), Reducing),
             NEW y, y = SumOf(Allocations(t), {"INTEREST"})
      PROVE  l = req[t].loan /\ Explains(row, l, x, y)'
  <2>1. row \in LoanRow BY <1>0, <1>2, RowKinds DEF Working
  <2>2. pc[t] \notin {"idle"} BY <1>0, <1>2 DEF Working
  <2>3. x \in Nat /\ y \in Nat
    BY <1>0, <1>2, <2>2, SumOfNat DEF Working, WellFormed, Allocations
  <2>4. l = req[t].loan /\ Explains(row, l, x, y) BY <1>2 DEF LoanHeld
  <2> QED BY <2>1, <2>3, <2>4, ExplainsGrown
<1>3. \A b : SumOf(Allocations(t), b)' = SumOf(Allocations(t), b) BY DEF SumOf, Allocations
<1> QED BY <1>1, <1>2, <1>3 DEF LoanHeld

(* The two writes of applyPayment to its loan.                              *)
LEMMA UpdatedLoan ==
  ASSUME PaymentsInv, NEW s \in Applies, UpdateLoan(s), LoanHeld(s),
         NEW x, x = SumOf(Allocations(s), Reducing),
         NEW y, y = SumOf(Allocations(s), {"INTEREST"})
  PROVE  \A l \in DOMAIN own'[s] \cap Loans : l = req[s].loan /\ Explains(own'[s][l], l, x, y)
<1>s. s \in Sessions /\ s \notin Waives BY PaymentsConstants DEF Sessions
<1>0. Shapes /\ Working(s) /\ Paying(s) BY <1>s DEF PaymentsInv, SessionOK
<1>1. pc[s] = "loan" BY DEF UpdateLoan
<1> DEFINE r == req[s].loan
           bal == Max({0, snap[s].outstanding - x})
           int == Max({0, snap[s].accrued - y})
           val == [See(s, r) EXCEPT !.outstanding = bal, !.accrued = int,
                     !.status = IF bal <= 0 THEN "PAID_OFF" ELSE snap[s].status]
<1>2. r \in Loans /\ See(s, r) \in LoanRow BY <1>1, <1>s, LoanRead
<1>3. snap[s] \in LoanRow /\ Allocations(s) \in Seq(Allocation)
  BY <1>0, <1>1, <1>s DEF Paying, Working, WellFormed, Allocations
<1>4. x \in Nat /\ y \in Nat BY <1>3, SumOfNat
<1>5. /\ bal \in Nat /\ int \in Nat
      /\ bal >= snap[s].outstanding - x /\ int >= snap[s].accrued - y
  <2>1. snap[s].outstanding - x \in Int /\ snap[s].accrued - y \in Int
    BY <1>3, <1>4 DEF LoanRow
  <2> QED BY <2>1, MaxOfTwo
<1>6. Put(s, r, val)
  <2>1. x = SumOf(Allocations(s), {"PRINCIPAL", "PREPAYMENT"}) BY DEF Reducing
  <2> QED BY <2>1 DEF UpdateLoan
<1>7. Explains(snap[s], r, 0, 0) BY <1>1 DEF LoanHeld
<1> HIDE DEF bal, int
<1>8. val.outstanding = bal /\ val.accrued = int BY <1>2 DEF LoanRow
<1>9. Explains(val, r, x, y)
  <2>1. snap[s].outstanding \in Nat /\ snap[s].accrued \in Nat BY <1>3 DEF LoanRow
  <2>2. Loan0[r].outstanding \in Nat /\ Loan0[r].accrued \in Nat
    BY <1>2, PaymentsConstants DEF LoanRow
  <2>3. \A b : TotalApplied(r, b) \in Nat BY TotalsTyped
  <2> HIDE DEF val, r
  <2> QED BY <1>4, <1>5, <1>7, <1>8, <2>1, <2>2, <2>3 DEF Explains
<1> HIDE DEF val
<1>10. /\ DOMAIN own'[s] = DOMAIN own[s] \cup {r} /\ own'[s][r] = val
  BY <1>0, <1>6, <1>s, PutFacts DEF Shapes
<1>11. \A l \in DOMAIN own[s] \cap Loans : l = r BY DEF LoanHeld
<1> QED BY <1>9, <1>10, <1>11

(* refreshDelinquency saves a loan whose balances are explained if the      *)
(* committed ones are.                                                      *)
LEMMA RefreshedLoan ==
  ASSUME PaymentsInv, NEW s \in Applies, RefreshDelinquency(s), LoanHeld(s),
         \A l \in Loans : Explains(db[l], l, 0, 0),
         NEW x, x = SumOf(Allocations(s), Reducing),
         NEW y, y = SumOf(Allocations(s), {"INTEREST"})
  PROVE  \A l \in DOMAIN own'[s] \cap Loans : l = req[s].loan /\ Explains(own'[s][l], l, x, y)
<1>s. s \in Sessions /\ s \notin Waives BY PaymentsConstants DEF Sessions
<1>0. Shapes /\ Working(s) /\ Paying(s) BY <1>s DEF PaymentsInv, SessionOK
<1>1. pc[s] = "refresh" BY DEF RefreshDelinquency
<1> DEFINE r == req[s].loan
           row == See(s, r)
           val == [row EXCEPT !.status = "CURRENT"]
<1>2. r \in Loans /\ row \in LoanRow BY <1>1, <1>s, LoanRead
<1>3. Put(s, r, val) \/ own' = own BY DEF RefreshDelinquency
<1>4. \A l \in DOMAIN own[s] \cap Loans : l = r /\ Explains(own[s][l], l, x, y)
  BY DEF LoanHeld
<1>5. x \in Nat /\ y \in Nat
  <2>1. Allocations(s) \in Seq(Allocation)
    BY <1>0, <1>1, <1>s DEF Working, WellFormed, Allocations
  <2> QED BY <2>1, SumOfNat
<1>6. Explains(row, r, x, y)
  <2>1. CASE r \in DOMAIN own[s] BY <1>2, <1>4, <2>1 DEF See
  <2>2. CASE r \notin DOMAIN own[s]
    <3>1. row = db[r] /\ Explains(row, r, 0, 0) BY <1>2, <2>2 DEF See
    <3>2. Loan0[r].outstanding \in Nat /\ Loan0[r].accrued \in Nat
      BY <1>2, PaymentsConstants DEF LoanRow
    <3>3. \A b : TotalApplied(r, b) \in Nat BY TotalsTyped
    <3>4. row.outstanding \in Nat /\ row.accrued \in Nat BY <1>2 DEF LoanRow
    <3> HIDE DEF row, r
    <3> QED BY <1>5, <3>1, <3>2, <3>3, <3>4 DEF Explains
  <2> QED BY <2>1, <2>2
<1>7. val.outstanding = row.outstanding /\ val.accrued = row.accrued BY <1>2 DEF LoanRow
<1>8. Explains(val, r, x, y) BY <1>6, <1>7 DEF Explains
<1>9. CASE Put(s, r, val)
  <2> HIDE DEF val
  <2>1. /\ DOMAIN own'[s] = DOMAIN own[s] \cup {r} /\ own'[s][r] = val
    BY <1>0, <1>9, <1>s, PutFacts DEF Shapes
  <2> QED BY <1>4, <1>8, <2>1
<1>10. CASE own' = own BY <1>4, <1>10
<1> QED BY <1>3, <1>9, <1>10

(* No statement but a commit disturbs the balances.                         *)
LEMMA BalancesInner ==
  ASSUME PaymentsInv, PaymentsInv', Balances, NEW s \in Sessions, Inner(s)
  PROVE  Balances'
<1>1. Own(s) /\ reversals' = reversals BY InnerIsOwn
<1>2. db' = db BY <1>1 DEF Own
<1>3. \A l, b : TotalApplied(l, b)' = TotalApplied(l, b) BY <1>2, SameSums
<1>4. \A row, l, x, y : Explains(row, l, x, y)' <=> Explains(row, l, x, y)
  BY <1>3 DEF Explains
<1>5. \A l, b : TotalApplied(l, b)' >= TotalApplied(l, b) BY <1>3, TotalsTyped
<1> SUFFICES ASSUME NoReversal
             PROVE  /\ \A p \in Applies : db[p] # None => db[p].status = "APPLIED"
                    /\ \A l \in Loans : Explains(db[l], l, 0, 0)'
                    /\ \A t \in Applies : LoanHeld(t)'
  BY <1>1, <1>2 DEF Balances, NoReversal
<1>6. /\ \A p \in Applies : db[p] # None => db[p].status = "APPLIED"
      /\ \A l \in Loans : Explains(db[l], l, 0, 0)
      /\ \A t \in Applies : LoanHeld(t)
  BY DEF Balances
<1>7. ASSUME NEW l \in Loans, NEW row, row = db[l] PROVE Explains(row, l, 0, 0)'
  BY <1>4, <1>6, <1>7
<1>8. ASSUME NEW t \in Applies, t # s PROVE LoanHeld(t)'
  BY <1>1, <1>5, <1>6, <1>8, LoanHeldGrown DEF Own, Sessions
<1>9. ASSUME s \in Applies PROVE LoanHeld(s)'
  <2>0. Shapes /\ Working(s) BY DEF PaymentsInv, SessionOK
  <2>h. LoanHeld(s) BY <1>6, <1>9
  <2>1. CASE \E q : WellFormed(q) /\ Load(s, q)
    <3>1. PICK q : WellFormed(q) /\ Load(s, q) BY <2>1
    <3>2. /\ req'[s] = q /\ snap'[s] = db[q.loan] /\ own'[s] = own[s] /\ pc[s] = "idle"
      BY <2>0, <3>1 DEF Load, Shapes
    <3>3. DOMAIN own[s] = {} BY <2>0, <3>2 DEF Working
    <3>4. q.loan \in Loans BY <3>1 DEF WellFormed
    <3>5. ASSUME NEW l, l = req'[s].loan, NEW row, row = snap'[s] PROVE Explains(row, l, 0, 0)'
      BY <1>4, <1>6, <3>2, <3>4, <3>5
    <3> QED BY <3>2, <3>3, <3>5 DEF LoanHeld
  <2>2. CASE UpdateLoan(s) \/ RefreshDelinquency(s)
    <3>1. /\ req' = req /\ snap' = snap /\ pc[s] \notin {"idle", "rejected"}
      BY <2>2 DEF UpdateLoan, RefreshDelinquency, locals
    <3>2. ASSUME NEW l, l = req[s].loan, NEW row, row = snap[s] PROVE Explains(row, l, 0, 0)'
      BY <1>4, <2>h, <3>1, <3>2 DEF LoanHeld
    <3>3. ASSUME NEW l \in DOMAIN own'[s] \cap Loans, NEW row, row = own'[s][l],
                 NEW x, x = SumOf(Allocations(s), Reducing),
                 NEW y, y = SumOf(Allocations(s), {"INTEREST"})
          PROVE  l = req[s].loan /\ Explains(row, l, x, y)'
      <4>1. l = req[s].loan /\ Explains(row, l, x, y)
        BY <1>6, <1>9, <2>2, <2>h, <3>3, UpdatedLoan, RefreshedLoan
      <4> QED BY <1>4, <4>1
    <3>4. \A b : SumOf(Allocations(s), b)' = SumOf(Allocations(s), b)
      BY <3>1 DEF SumOf, Allocations
    <3> QED BY <3>1, <3>2, <3>3, <3>4 DEF LoanHeld
  <2>3. CASE /\ req'[s] = req[s] /\ snap'[s] = snap[s]
             /\ pc'[s] \notin {"idle", "rejected"} => pc[s] \notin {"idle", "rejected"}
             /\ \A l \in DOMAIN own'[s] \cap Loans : l \in DOMAIN own[s] /\ own'[s][l] = own[s][l]
    <3>1. ASSUME pc'[s] \notin {"idle", "rejected"}, NEW l, l = req[s].loan, NEW row, row = snap[s]
          PROVE  Explains(row, l, 0, 0)'
      BY <1>4, <2>h, <2>3, <3>1 DEF LoanHeld
    <3>2. ASSUME NEW l \in DOMAIN own'[s] \cap Loans, NEW row, row = own'[s][l],
                 NEW x, x = SumOf(Allocations(s), Reducing),
                 NEW y, y = SumOf(Allocations(s), {"INTEREST"})
          PROVE  l = req[s].loan /\ Explains(row, l, x, y)'
      BY <1>4, <2>h, <2>3, <3>2 DEF LoanHeld
    <3>3. \A b : SumOf(Allocations(s), b)' = SumOf(Allocations(s), b)
      BY <2>3 DEF SumOf, Allocations
    <3> QED BY <2>3, <3>1, <3>2, <3>3 DEF LoanHeld
  <2> QED BY <1>9, <2>1, <2>2, <2>3, LoanCopies
<1> QED BY <1>2, <1>6, <1>7, <1>8, <1>9

(* What a commit does to the payments and to the sums.                      *)
LEMMA CommittedSums ==
  ASSUME PaymentsInv, NEW s \in Sessions, Commit(s), NoReversal'
  PROVE  /\ NoReversal /\ s \notin Reverses
         /\ s \notin Applies => \A p \in Applies : db'[p] = db[p]
         /\ \A l, b : TotalApplied(l, b)' >= TotalApplied(l, b)
         /\ \A r, c : Received(r, c)' >= Received(r, c)
         /\ \A r : TowardRow(r)' >= TowardRow(r)
<1>0. Shapes /\ SessionOK(s) BY DEF PaymentsInv
<1>1. s \notin Reverses
  <2> SUFFICES ASSUME s \in Reverses PROVE FALSE OBVIOUS
  <2>1. pc[s] = "commit" /\ reversals' = [reversals EXCEPT ![req[s].payment] = @ + 1]
    BY DEF Commit
  <2>2. req[s].payment \in Applies BY <1>0, <2>1 DEF SessionOK, Reversing
  <2>3. reversals'[req[s].payment] = reversals[req[s].payment] + 1
        /\ reversals[req[s].payment] \in Nat
    BY <1>0, <2>1, <2>2 DEF Shapes
  <2>4. \A p \in Applies : reversals'[p] = 0 BY DEF NoReversal
  <2> QED BY <2>2, <2>3, <2>4
<1>2. NoReversal BY <1>1 DEF NoReversal, Commit
<1>3. \A l, b : TotalApplied(l, b) \in Nat BY TotalsTyped
<1>4. \A r, c : Received(r, c) \in Nat /\ TowardRow(r) \in Nat BY TotalsTyped
<1>5. CASE s \in Applies
  <2>1. /\ Allocations(s) \in Seq(Allocation)
        /\ \A l, b : TotalApplied(l, b)' =
             IF l = req[s].loan THEN TotalApplied(l, b) + SumOf(Allocations(s), b)
             ELSE TotalApplied(l, b)
        /\ \A r, c : Received(r, c)' = Received(r, c) + Into(r, c, Allocations(s), Len(Allocations(s)))
        /\ \A r : TowardRow(r)' = TowardRow(r) + Toward(r, Allocations(s))
    BY <1>5, GrowSums
  <2>2. \A b : SumOf(Allocations(s), b) \in Nat BY <2>1, SumOfNat
  <2>3. \A r, c : Into(r, c, Allocations(s), Len(Allocations(s))) \in Nat
                  /\ Toward(r, Allocations(s)) \in Nat
    BY <2>1, IntoFacts
  <2>4. \A l, b : TotalApplied(l, b)' >= TotalApplied(l, b) BY <1>3, <2>1, <2>2
  <2>5. \A r, c : Received(r, c)' >= Received(r, c) BY <1>4, <2>1, <2>3
  <2>6. \A r : TowardRow(r)' >= TowardRow(r) BY <1>4, <2>1, <2>3
  <2> QED BY <1>1, <1>2, <1>5, <2>4, <2>5, <2>6
<1>6. CASE s \in Waives
  <2>1. \A p \in Applies : db'[p] = db[p]
    <3>1. DOMAIN own[s] \cap Applies = {} BY <1>0, <1>6, PaymentsConstants DEF SessionOK
    <3>2. Applies \subseteq Rows BY DEF Rows
    <3> QED BY <3>1, <3>2, CommittedRows
  <2>2. /\ \A l, b : TotalApplied(l, b)' = TotalApplied(l, b)
        /\ \A r, c : Received(r, c)' = Received(r, c)
        /\ \A r : TowardRow(r)' = TowardRow(r)
    BY <2>1, SameSums
  <2> QED BY <1>1, <1>2, <1>3, <1>4, <2>1, <2>2
<1> QED BY <1>1, <1>5, <1>6 DEF Sessions

(* The commit of a payment writes its copy of the loan, and its sums grow   *)
(* by as much as the copy may be lower.                                     *)
LEMMA BalancesCommit ==
  ASSUME PaymentsInv, PaymentsInv', Balances, NEW s \in Sessions, Commit(s)
  PROVE  Balances'
<1> SUFFICES ASSUME NoReversal' PROVE
      /\ \A p \in Applies : db'[p] # None => db'[p].status = "APPLIED"
      /\ \A l \in Loans : \A row : row = db'[l] => Explains(row, l, 0, 0)'
      /\ \A t \in Applies : LoanHeld(t)'
  BY DEF Balances
<1>0. Shapes /\ Database /\ SessionOK(s) BY DEF PaymentsInv
<1>1. /\ NoReversal /\ s \notin Reverses
      /\ s \notin Applies => \A p \in Applies : db'[p] = db[p]
      /\ \A l, b : TotalApplied(l, b)' >= TotalApplied(l, b)
  BY CommittedSums
<1>2. /\ \A p \in Applies : db[p] # None => db[p].status = "APPLIED"
      /\ \A l \in Loans : Explains(db[l], l, 0, 0)
      /\ \A t \in Applies : LoanHeld(t)
  BY <1>1 DEF Balances
<1>3. ASSUME NEW p \in Applies, db'[p] # None PROVE db'[p].status = "APPLIED"
  <2>1. CASE s \in Applies
    <3>1. CASE p = s
      <4>1. db'[p] = [loan |-> req[s].loan, number |-> num[s], status |-> "APPLIED",
                      allocations |-> Allocations(s)]
        BY <2>1, <3>1, CommittedPayments
      <4> QED BY <4>1
    <3>2. CASE p # s BY <1>2, <1>3, <2>1, <3>2, CommittedPayments
    <3> QED BY <3>1, <3>2
  <2>2. CASE s \notin Applies BY <1>1, <1>2, <1>3, <2>2
  <2> QED BY <2>1, <2>2
<1>4. ASSUME NEW l \in Loans, NEW row, row = db'[l] PROVE Explains(row, l, 0, 0)'
  <2>1. l \in Rows /\ db[l] \in LoanRow
    BY <1>0, <1>4, RowKinds DEF Database
  <2>2. CASE l \notin DOMAIN own[s]
    <3>1. row = db[l] BY <1>4, <2>1, <2>2, CommittedRows
    <3> QED BY <1>1, <1>2, <2>1, <3>1, ExplainsGrown
  <2>3. CASE l \in DOMAIN own[s]
    <3>1. s \in Applies BY <1>0, <1>1, <2>3, PaymentsConstants DEF SessionOK, Sessions
    <3>2. row = own[s][l] BY <1>4, <2>3, CommittedRows
    <3> DEFINE x == SumOf(Allocations(s), Reducing)
               y == SumOf(Allocations(s), {"INTEREST"})
    <3>3. l = req[s].loan /\ Explains(row, l, x, y) BY <1>2, <2>3, <3>1, <3>2 DEF LoanHeld
    <3>4. Allocations(s) \in Seq(Allocation)
          /\ \A b : TotalApplied(l, b)' = TotalApplied(l, b) + SumOf(Allocations(s), b)
      BY <3>1, <3>3, GrowSums
    <3>5. x \in Nat /\ y \in Nat BY <3>4, SumOfNat
    <3>6. row \in LoanRow BY <1>0, <2>3, <3>2, RowKinds DEF SessionOK, Working
    <3>7. TotalApplied(l, Reducing)' = TotalApplied(l, Reducing) + x
          /\ TotalApplied(l, {"INTEREST"})' = TotalApplied(l, {"INTEREST"}) + y
      BY <3>4
    <3>8. \A b : TotalApplied(l, b) \in Nat BY TotalsTyped
    <3>9. row.outstanding \in Nat /\ row.accrued \in Nat BY <3>6 DEF LoanRow
    <3>10. Loan0[l].outstanding \in Nat /\ Loan0[l].accrued \in Nat
      BY PaymentsConstants DEF LoanRow
    <3> HIDE DEF x, y
    <3> QED BY <3>3, <3>5, <3>7, <3>8, <3>9, <3>10 DEF Explains
  <2> QED BY <2>2, <2>3
<1>5. ASSUME NEW t \in Applies, t # s PROVE LoanHeld(t)'
  <2>1. /\ t \in Sessions /\ own'[t] = own[t] /\ pc'[t] = pc[t]
        /\ req' = req /\ snap' = snap
    BY <1>5, CommittedRows DEF Commit, locals, Sessions
  <2> QED BY <1>1, <1>2, <2>1, LoanHeldGrown
<1>6. ASSUME s \in Applies PROVE LoanHeld(s)'
  <2>1. /\ DOMAIN own'[s] = {} /\ pc[s] = "commit" /\ req' = req /\ snap' = snap
    BY CommittedRows DEF Commit, locals
  <2>2. ASSUME NEW l, l = req[s].loan, NEW row, row = snap[s] PROVE Explains(row, l, 0, 0)'
    <3>1. Explains(row, l, 0, 0) BY <1>2, <1>6, <2>1, <2>2 DEF LoanHeld
    <3>2. s \notin Waives BY <1>6, PaymentsConstants
    <3>3. row \in LoanRow /\ l \in Loans
      BY <1>0, <1>6, <2>1, <2>2, <3>2 DEF SessionOK, Working, Paying, WellFormed
    <3> QED BY <1>1, <3>1, <3>3, ExplainsGrown
  <2> QED BY <2>1, <2>2 DEF LoanHeld
<1> QED BY <1>3, <1>4, <1>5, <1>6

(* A new fee touches no loan and no payment.                                *)
LEMMA BalancesCreateFee ==
  ASSUME PaymentsInv, PaymentsInv', Balances, NEW f \in Fees, CreateFee(f)
  PROVE  Balances'
<1>0. Shapes BY DEF PaymentsInv
<1>1. /\ db' = [db EXCEPT ![f] = NewFee]
      /\ UNCHANGED <<own, pc, req, snap, num, k, target, ent, cols, reversals>>
  BY DEF CreateFee, locals
<1>2. f \notin Applies /\ f \notin Loans BY PaymentsConstants
<1>3. \A p \in Applies \cup Loans : db'[p] = db[p] BY <1>0, <1>1, <1>2 DEF Shapes, Rows
<1>4. \A l, b : TotalApplied(l, b)' = TotalApplied(l, b) BY <1>3, SameSums
<1>5. \A row, l, x, y : Explains(row, l, x, y)' <=> Explains(row, l, x, y) BY <1>4 DEF Explains
<1>6. \A l, b : TotalApplied(l, b)' >= TotalApplied(l, b) BY <1>4, TotalsTyped
<1> SUFFICES ASSUME NoReversal PROVE
      /\ \A p \in Applies : db'[p] # None => db'[p].status = "APPLIED"
      /\ \A l \in Loans : \A row : row = db'[l] => Explains(row, l, 0, 0)'
      /\ \A t \in Applies : LoanHeld(t)'
  BY <1>1 DEF Balances, NoReversal
<1>7. \A t \in Applies : LoanHeld(t)' BY <1>1, <1>6, LoanHeldGrown DEF Balances
<1> QED BY <1>3, <1>5, <1>7 DEF Balances

(* With no payment the balance is the initial one.                          *)
LEMMA InitBalances == Init => Balances
<1> SUFFICES ASSUME Init PROVE Balances OBVIOUS
<1>1. PaymentsInv BY InitInv
<1>2. \A p \in Applies : db[p] = None BY PaymentsConstants, RowKinds DEF Init
<1>3. \A l \in Loans : db[l] = Loan0[l] BY PaymentsConstants, RowKinds DEF Init
<1>4. ASSUME NEW l \in Loans PROVE Explains(db[l], l, 0, 0)
  <2>1. \A b : TotalApplied(l, b) \in Nat BY <1>1, TotalsTyped
  <2>2. Loan0[l].outstanding \in Nat /\ Loan0[l].accrued \in Nat
    BY PaymentsConstants DEF LoanRow
  <2> QED BY <1>3, <2>1, <2>2 DEF Explains
<1>5. \A s \in Applies : LoanHeld(s) BY DEF LoanHeld, Init, Sessions
<1> QED BY <1>2, <1>4, <1>5 DEF Balances

(* A stuttering step keeps the balances explained.                          *)
LEMMA BalancesUnchanged == PaymentsInv /\ Balances /\ UNCHANGED vars => Balances'
<1> SUFFICES ASSUME PaymentsInv, Balances, UNCHANGED vars PROVE Balances' OBVIOUS
<1>1. UNCHANGED <<db, own, pc, req, snap, num, k, target, ent, cols, reversals>>
  BY DEF vars, locals
<1>2. \A l, b : TotalApplied(l, b)' = TotalApplied(l, b) BY <1>1, SameSums
<1>3. \A row, l, x, y : Explains(row, l, x, y)' <=> Explains(row, l, x, y) BY <1>2 DEF Explains
<1>4. ASSUME NEW t PROVE LoanHeld(t)' <=> LoanHeld(t)
  BY <1>1, <1>3 DEF LoanHeld, Allocations, SumOf
<1> QED BY <1>1, <1>3, <1>4 DEF Balances, NoReversal

(* Every step keeps the balances explained.                                 *)
LEMMA BalancesKept ==
  PaymentsInv /\ PaymentsInv' /\ Balances /\ [Next]_vars => Balances'
<1> SUFFICES ASSUME PaymentsInv, PaymentsInv', Balances, [Next]_vars PROVE Balances' OBVIOUS
<1>1. CASE \E s \in Sessions : Step(s) \/ Fail(s)
  <2>1. PICK s \in Sessions : Step(s) \/ Fail(s) BY <1>1
  <2>2. CASE Commit(s) BY <2>2, BalancesCommit
  <2>3. CASE ~ Commit(s)
    <3>1. Inner(s) BY <2>1, <2>3 DEF Inner
    <3> QED BY <3>1, BalancesInner
  <2> QED BY <2>2, <2>3
<1>2. CASE \E f \in Fees : CreateFee(f) BY <1>2, BalancesCreateFee
<1>3. CASE UNCHANGED vars BY <1>3, BalancesUnchanged
<1> QED BY <1>1, <1>2, <1>3 DEF Next

(* The invariant of the balances says that no reduction was invented.       *)
LEMMA BalancesMean == PaymentsInv /\ Balances => (NoReversal => NeverOverReduced)
<1> SUFFICES ASSUME PaymentsInv, Balances, NoReversal, NEW l \in Loans
             PROVE  /\ db[l].outstanding >= Loan0[l].outstanding
                                              - TotalApplied(l, {"PRINCIPAL", "PREPAYMENT"})
                    /\ db[l].accrued >= Loan0[l].accrued - TotalApplied(l, {"INTEREST"})
  BY DEF NeverOverReduced
<1>1. Explains(db[l], l, 0, 0) BY DEF Balances
<1>2. \A b : TotalApplied(l, b) \in Nat BY TotalsTyped
<1> QED BY <1>1, <1>2 DEF Explains, Reducing

(* Until a reversal commits, payments racing with payments may lose a       *)
(* reduction of the balance but never invent one: the two absolute writes   *)
(* of applyPayment are explained by what has committed by then.  A reversal *)
(* takes its payment out of the sums, and gives its amounts back later than *)
(* other payments may have read the balance, so the claim ends with it.     *)
THEOREM BalancesExplained == Spec => [](NoReversal => NeverOverReduced)
<1>1. Init => PaymentsInv /\ Balances BY InitInv, InitBalances
<1>2. (PaymentsInv /\ Balances) /\ [Next]_vars => (PaymentsInv /\ Balances)'
  BY NextKeeps, BalancesKept
<1> QED BY <1>1, <1>2, BalancesMean, PTL DEF Spec

----------------------------------------------------------------------------
(* The installments and the fees.                                           *)

(* The money columns of a row are numbers.                                  *)
LEMMA MoneyTyped ==
  ASSUME NEW r \in Items \cup Fees, NEW row \in RowOf(r)
  PROVE  \A c \in Money(r) : row[c] \in Int
<1>1. CASE r \in Items
  <2>1. row \in Item BY <1>1, RowKinds
  <2> QED BY <1>1, <2>1 DEF Item, Money
<1>2. CASE r \notin Items
  <2>1. row \in FeeRow BY <1>2, RowKinds
  <2> QED BY <1>2, <2>1 DEF FeeRow, Money
<1> QED BY <1>1, <1>2

(* What is due, less the tolerance, is a number.                            *)
LEMMA DueTyped ==
  ASSUME NEW r \in Items \cup Fees
  PROVE  DueOn(r) - Tolerance \in Int
<1>1. DueOn(r) \in Nat BY PaymentsConstants DEF DueOn
<1> QED BY <1>1 DEF Tolerance

(* A row that fits some of the allocations fits more of them.               *)
LEMMA FitsMore ==
  ASSUME PaymentsInv, NEW r \in Items \cup Fees, NEW row \in RowOf(r),
         NEW allocs \in Seq(Allocation), NEW m \in Int, NEW n \in Int, m <= n,
         Fits(row, r, allocs, m)
  PROVE  Fits(row, r, allocs, n)
<1>1. /\ \A c : Into(r, c, allocs, m) \in Nat /\ Into(r, c, allocs, n) \in Nat
      /\ TowardUpTo(r, allocs, m) \in Nat /\ TowardUpTo(r, allocs, n) \in Nat
      /\ \A c : Into(r, c, allocs, m) <= Into(r, c, allocs, n)
      /\ TowardUpTo(r, allocs, m) <= TowardUpTo(r, allocs, n)
  BY IntoFacts
<1>2. (\A c : Received(r, c) \in Nat) /\ TowardRow(r) \in Nat BY TotalsTyped
<1>3. \A c \in Money(r) : row[c] \in Int BY MoneyTyped
<1>4. DueOn(r) - Tolerance \in Int BY DueTyped
<1>5. ASSUME NEW c \in Money(r) PROVE row[c] <= Received(r, c) + Into(r, c, allocs, n)
  BY <1>1, <1>2, <1>3 DEF Fits
<1>6. ASSUME row.status = "PAID"
      PROVE  DueOn(r) - Tolerance <= TowardRow(r) + TowardUpTo(r, allocs, n)
  BY <1>1, <1>2, <1>4, <1>6 DEF Fits
<1> QED BY <1>5, <1>6 DEF Fits

(* And a row that fits none of them fits any.                               *)
LEMMA FitsNothing ==
  ASSUME PaymentsInv, NEW r, NEW row, NEW m, NEW n, Fits(row, r, << >>, m)
  PROVE  Fits(row, r, << >>, n)
<1>1. \A j, c : Into(r, c, << >>, j) = SumFunctionOnSet(AmountsIn(<< >>), {})
  <2>1. \A j, c : {x \in DOMAIN << >> : x <= j /\ Hits(<< >>[x], r, c)} = {} OBVIOUS
  <2> QED BY <2>1 DEF Into
<1>2. \A j : TowardUpTo(r, << >>, j) = SumFunctionOnSet(AmountsIn(<< >>), {})
  <2>1. \A j : {x \in DOMAIN << >> : x <= j /\ Names(<< >>[x], r)} = {} OBVIOUS
  <2> QED BY <2>1 DEF TowardUpTo
<1> QED BY <1>1, <1>2 DEF Fits

(* A row that fits before any allocation fits after some.                   *)
LEMMA FitsAny ==
  ASSUME PaymentsInv, NEW r \in Items \cup Fees, NEW row \in RowOf(r),
         NEW allocs \in Seq(Allocation), NEW m, Fits(row, r, << >>, 0)
  PROVE  Fits(row, r, allocs, m)
<1>1. \A c : Into(r, c, << >>, 0) = 0 /\ TowardUpTo(r, << >>, 0) = 0
  <2>1. \A c : {x \in DOMAIN << >> : x <= 0 /\ Hits(<< >>[x], r, c)} = {} OBVIOUS
  <2>2. {x \in DOMAIN << >> : x <= 0 /\ Names(<< >>[x], r)} = {} OBVIOUS
  <2>3. SumFunctionOnSet(AmountsIn(<< >>), {}) = 0 BY SumEmpty
  <2> QED BY <2>1, <2>2, <2>3 DEF Into, TowardUpTo
<1>2. /\ \A c : Into(r, c, allocs, m) \in Nat
      /\ TowardUpTo(r, allocs, m) \in Nat
  BY IntoFacts
<1>3. (\A c : Received(r, c) \in Nat) /\ TowardRow(r) \in Nat BY TotalsTyped
<1>4. \A c \in Money(r) : row[c] \in Int BY MoneyTyped
<1>5. DueOn(r) - Tolerance \in Int BY DueTyped
<1>6. ASSUME NEW c \in Money(r) PROVE row[c] <= Received(r, c) + Into(r, c, allocs, m)
  BY <1>1, <1>2, <1>3, <1>4 DEF Fits
<1>7. ASSUME row.status = "PAID"
      PROVE  DueOn(r) - Tolerance <= TowardRow(r) + TowardUpTo(r, allocs, m)
  BY <1>1, <1>2, <1>3, <1>5, <1>7 DEF Fits
<1> QED BY <1>6, <1>7 DEF Fits

(* A row that fits does so after other payments have committed.             *)
LEMMA FitsGrown ==
  ASSUME PaymentsInv, PaymentsInv',
         \A r, c : Received(r, c)' >= Received(r, c), \A r : TowardRow(r)' >= TowardRow(r),
         NEW r \in Items \cup Fees, NEW row \in RowOf(r),
         NEW allocs \in Seq(Allocation), NEW m, Fits(row, r, allocs, m)
  PROVE  Fits(row, r, allocs, m)'
<1>1. (\A c : Received(r, c) \in Nat) /\ TowardRow(r) \in Nat BY TotalsTyped
<1>2. (\A c : Received(r, c)' \in Nat) /\ TowardRow(r)' \in Nat
  <2>1. Totals' BY TotalsHold, PTL
  <2> QED BY <2>1 DEF Totals
<1>3. (\A c : Into(r, c, allocs, m) \in Nat) /\ TowardUpTo(r, allocs, m) \in Nat BY IntoFacts
<1>4. \A c \in Money(r) : row[c] \in Int BY MoneyTyped
<1>5. DueOn(r) - Tolerance \in Int BY DueTyped
<1>6. ASSUME NEW c \in Money(r) PROVE row[c] <= Received(r, c)' + Into(r, c, allocs, m)
  BY <1>1, <1>2, <1>3, <1>4 DEF Fits
<1>7. ASSUME row.status = "PAID"
      PROVE  DueOn(r) - Tolerance <= TowardRow(r)' + TowardUpTo(r, allocs, m)
  BY <1>1, <1>2, <1>3, <1>5, <1>7 DEF Fits
<1> QED BY <1>6, <1>7 DEF Fits

(* What applyToScheduleItem and applyToFee compute fits one allocation      *)
(* more: a column grows by the allocation that goes into it, and PAID is    *)
(* decided from columns that share what was given to the row.               *)
LEMMA PaidItemFits ==
  ASSUME PaymentsInv, NEW i \in Items, NEW it \in Item, NEW allocs \in Seq(Allocation),
         NEW m \in DOMAIN allocs, allocs[m].item = i, Fits(it, i, allocs, m - 1)
  PROVE  Fits(PayItem(i, it, allocs[m]), i, allocs, m)
<1> DEFINE a == allocs[m]
           to(c) == Into(i, c, allocs, m)
           got(c) == Received(i, c)
           paid == CASE a.bucket = "PRINCIPAL" -> [it EXCEPT !.principal = @ + a.amount]
                     [] a.bucket = "INTEREST"  -> [it EXCEPT !.interest = @ + a.amount]
                     [] a.bucket = "FEE"       -> [it EXCEPT !.fees = @ + a.amount]
                     [] OTHER -> it
           total == paid.principal + paid.interest + paid.fees
           next == PayItem(i, it, a)
<1>1. m \in Nat \ {0} /\ a \in Allocation BY DOMAIN allocs = 1 .. Len(allocs)
<1>2. a.bucket \in Buckets /\ a.amount \in Nat BY <1>1 DEF Allocation
<1>3. it.principal \in Int /\ it.interest \in Int /\ it.fees \in Int BY DEF Item
<1>4. /\ \A c : Into(i, c, allocs, m - 1) \in Nat /\ to(c) \in Nat
      /\ \A c : Into(i, c, allocs, m - 1) <= to(c)
      /\ TowardUpTo(i, allocs, m - 1) \in Nat /\ TowardUpTo(i, allocs, m) \in Nat
      /\ TowardUpTo(i, allocs, m - 1) <= TowardUpTo(i, allocs, m)
  <2>1. m - 1 \in Int /\ m \in Int /\ m - 1 <= m BY <1>1
  <2> QED BY <2>1, IntoFacts
<1>5. /\ a.bucket = "PRINCIPAL" => to("principal") = Into(i, "principal", allocs, m - 1) + a.amount
      /\ a.bucket = "INTEREST" => to("interest") = Into(i, "interest", allocs, m - 1) + a.amount
      /\ a.bucket = "FEE" => to("fees") = Into(i, "fees", allocs, m - 1) + a.amount
  <2>1. /\ a.bucket = "PRINCIPAL" => Hits(a, i, "principal")
        /\ a.bucket = "INTEREST" => Hits(a, i, "interest")
        /\ a.bucket = "FEE" => Hits(a, i, "fees")
    BY DEF Hits
  <2> QED BY <2>1, IntoNext
<1>6. /\ it.principal <= got("principal") + Into(i, "principal", allocs, m - 1)
      /\ it.interest <= got("interest") + Into(i, "interest", allocs, m - 1)
      /\ it.fees <= got("fees") + Into(i, "fees", allocs, m - 1)
  BY DEF Fits, Money
<1>7. (\A c : got(c) \in Nat) /\ TowardRow(i) \in Nat BY TotalsTyped
<1>8. got("principal") + got("interest") + got("fees") <= TowardRow(i) BY ReceivedShare
<1>9. to("principal") + to("interest") + to("fees") <= TowardUpTo(i, allocs, m)
  BY ColumnsShare
<1>10. it.status = "PAID" => DueOn(i) - Tolerance <= TowardRow(i) + TowardUpTo(i, allocs, m - 1)
  BY DEF Fits
<1>11. DueOn(i) = ScheduledTotal[i] /\ DueOn(i) - Tolerance \in Int
  BY DueTyped DEF DueOn
<1> DEFINE was(c) == Into(i, c, allocs, m - 1)
<1>g. ASSUME NEW c PROVE got(c) \in Int /\ was(c) \in Int /\ to(c) \in Int /\ was(c) <= to(c)
  <2>1. got(c) \in Nat BY <1>7
  <2>2. was(c) \in Nat /\ to(c) \in Nat /\ was(c) <= to(c) BY <1>4
  <2> QED BY <2>1, <2>2
<1>w. /\ it.principal <= got("principal") + was("principal")
      /\ it.interest <= got("interest") + was("interest")
      /\ it.fees <= got("fees") + was("fees")
  BY <1>6
<1>x. /\ a.bucket = "PRINCIPAL" => to("principal") = was("principal") + a.amount
      /\ a.bucket = "INTEREST" => to("interest") = was("interest") + a.amount
      /\ a.bucket = "FEE" => to("fees") = was("fees") + a.amount
  BY <1>5
<1> HIDE DEF to, got, was, a
<1>rp. /\ got("principal") \in Int /\ was("principal") \in Int /\ to("principal") \in Int
      /\ was("principal") <= to("principal")
  BY <1>g, Zenon
<1>ri. /\ got("interest") \in Int /\ was("interest") \in Int /\ to("interest") \in Int
      /\ was("interest") <= to("interest")
  BY <1>g, Zenon
<1>rf. /\ got("fees") \in Int /\ was("fees") \in Int /\ to("fees") \in Int
      /\ was("fees") <= to("fees")
  BY <1>g, Zenon
<1>k. /\ it.principal <= got("principal") + to("principal")
      /\ it.interest <= got("interest") + to("interest")
      /\ it.fees <= got("fees") + to("fees")
  <2>1. it.principal <= got("principal") + to("principal")
    <3>1. it.principal <= got("principal") + was("principal") BY <1>w
    <3> QED BY <1>3, <1>rp, <3>1
  <2>2. it.interest <= got("interest") + to("interest")
    <3>1. it.interest <= got("interest") + was("interest") BY <1>w
    <3> QED BY <1>3, <1>ri, <3>1
  <2>3. it.fees <= got("fees") + to("fees")
    <3>1. it.fees <= got("fees") + was("fees") BY <1>w
    <3> QED BY <1>3, <1>rf, <3>1
  <2> QED BY <2>1, <2>2, <2>3
<1>12. /\ paid.principal \in Int /\ paid.principal <= got("principal") + to("principal")
       /\ paid.interest \in Int /\ paid.interest <= got("interest") + to("interest")
       /\ paid.fees \in Int /\ paid.fees <= got("fees") + to("fees")
  <2>1. CASE a.bucket = "PRINCIPAL"
    <3>1. /\ paid.principal = it.principal + a.amount
          /\ paid.interest = it.interest /\ paid.fees = it.fees
      BY <2>1 DEF Item
    <3>2. to("principal") = was("principal") + a.amount BY <1>x, <2>1
    <3>3. /\ it.principal + a.amount \in Int
          /\ it.principal + a.amount <= got("principal") + to("principal")
      <4>1. it.principal <= got("principal") + was("principal") BY <1>w
      <4>2. it.principal \in Int /\ a.amount \in Int BY <1>2, <1>3
      <4> QED BY <1>rp, <3>2, <4>1, <4>2
    <3> HIDE DEF paid
    <3> QED BY <1>3, <1>k, <3>1, <3>3
  <2>2. CASE a.bucket = "INTEREST"
    <3>1. /\ paid.interest = it.interest + a.amount
          /\ paid.principal = it.principal /\ paid.fees = it.fees
      BY <2>2 DEF Item
    <3>2. to("interest") = was("interest") + a.amount BY <1>x, <2>2
    <3>3. /\ it.interest + a.amount \in Int
          /\ it.interest + a.amount <= got("interest") + to("interest")
      <4>1. it.interest <= got("interest") + was("interest") BY <1>w
      <4>2. it.interest \in Int /\ a.amount \in Int BY <1>2, <1>3
      <4> QED BY <1>ri, <3>2, <4>1, <4>2
    <3> HIDE DEF paid
    <3> QED BY <1>3, <1>k, <3>1, <3>3
  <2>3. CASE a.bucket = "FEE"
    <3>1. /\ paid.fees = it.fees + a.amount
          /\ paid.principal = it.principal /\ paid.interest = it.interest
      BY <2>3 DEF Item
    <3>2. to("fees") = was("fees") + a.amount BY <1>x, <2>3
    <3>3. /\ it.fees + a.amount \in Int
          /\ it.fees + a.amount <= got("fees") + to("fees")
      <4>1. it.fees <= got("fees") + was("fees") BY <1>w
      <4>2. it.fees \in Int /\ a.amount \in Int BY <1>2, <1>3
      <4> QED BY <1>rf, <3>2, <4>1, <4>2
    <3> HIDE DEF paid
    <3> QED BY <1>3, <1>k, <3>1, <3>3
  <2>4. CASE a.bucket = "PREPAYMENT"
    <3>1. paid = it BY <2>4
    <3> HIDE DEF paid
    <3> QED BY <1>3, <1>k, <3>1
  <2> QED BY <1>2, <2>1, <2>2, <2>3, <2>4 DEF Buckets
<1>13. /\ next.principal = paid.principal /\ next.interest = paid.interest /\ next.fees = paid.fees
       /\ next.status = IF total >= ScheduledTotal[i] - Tolerance THEN "PAID"
                        ELSE IF total > 0 THEN "PARTIAL" ELSE it.status
  <2>1. paid \in [principal : Int, interest : Int, fees : Int, status : {it.status}]
    BY <1>2, <1>3 DEF Item, Buckets
  <2>2. next = [paid EXCEPT !.status = IF total >= ScheduledTotal[i] - Tolerance THEN "PAID"
                                       ELSE IF total > 0 THEN "PARTIAL" ELSE it.status]
    BY DEF PayItem, ItemTotal
  <2> HIDE DEF paid, total, next
  <2> QED BY <2>1, <2>2
<1> HIDE DEF paid, next
<1>14. \A c \in Money(i) : next[c] <= got(c) + to(c)
  BY <1>12, <1>13 DEF Money
<1>15. ASSUME next.status = "PAID"
       PROVE  DueOn(i) - Tolerance <= TowardRow(i) + TowardUpTo(i, allocs, m)
  <2>1. CASE total >= ScheduledTotal[i] - Tolerance
    <3>1. TowardRow(i) \in Int /\ TowardUpTo(i, allocs, m) \in Int BY <1>4, <1>7
    <3>2. total \in Int /\ total <= TowardRow(i) + TowardUpTo(i, allocs, m)
      <4> DEFINE g == got("principal") + got("interest") + got("fees")
                 u == to("principal") + to("interest") + to("fees")
      <4>1. paid.principal \in Int /\ paid.interest \in Int /\ paid.fees \in Int
        BY <1>12
      <4>2. g \in Int /\ u \in Int BY <1>rp, <1>ri, <1>rf
      <4>3. /\ paid.principal <= got("principal") + to("principal")
            /\ paid.interest <= got("interest") + to("interest")
            /\ paid.fees <= got("fees") + to("fees")
        BY <1>12
      <4> HIDE DEF total, g, u
      <4>4. total <= g + u
        <5> DEFINE x == paid.principal
                   y == paid.interest
                   z == paid.fees
                   gx == got("principal")
                   gy == got("interest")
                   gz == got("fees")
                   tx == to("principal")
                   ty == to("interest")
                   tz == to("fees")
        <5>1. /\ x \in Int /\ y \in Int /\ z \in Int
              /\ gx \in Int /\ gy \in Int /\ gz \in Int /\ tx \in Int /\ ty \in Int /\ tz \in Int
              /\ x <= gx + tx /\ y <= gy + ty /\ z <= gz + tz
          BY <1>rp, <1>ri, <1>rf, <4>1, <4>3
        <5>2. total = x + y + z /\ g + u = (gx + gy + gz) + (tx + ty + tz)
          BY DEF total, g, u
        <5> HIDE DEF x, y, z, gx, gy, gz, tx, ty, tz
        <5> QED BY <5>1, <5>2
      <4>5. g <= TowardRow(i) /\ u <= TowardUpTo(i, allocs, m) BY <1>8, <1>9 DEF g, u
      <4>6. total \in Int BY <4>1 DEF total
      <4> QED BY <3>1, <4>2, <4>4, <4>5, <4>6
    <3> HIDE DEF total
    <3> QED BY <1>4, <1>7, <1>11, <2>1, <3>2
  <2>2. CASE ~ (total >= ScheduledTotal[i] - Tolerance)
    <3>1. it.status = "PAID" BY <1>13, <1>15, <2>2
    <3> QED BY <1>4, <1>7, <1>10, <1>11, <3>1
  <2> QED BY <2>1, <2>2
<1> QED BY <1>14, <1>15 DEF Fits, got, to, next, a

(* A fee row that the waterfall pays fits one allocation more.              *)
LEMMA PaidFeeFits ==
  ASSUME PaymentsInv, NEW f \in Fees, NEW fee \in FeeRow, NEW allocs \in Seq(Allocation),
         NEW m \in DOMAIN allocs, allocs[m].fee = f, allocs[m].bucket = "FEE",
         Fits(fee, f, allocs, m - 1)
  PROVE  Fits(PayFee(f, fee, allocs[m]), f, allocs, m)
<1> DEFINE a == allocs[m]
           paid == Min({FeeAmount[f], fee.paid + a.amount})
           next == PayFee(f, fee, a)
<1>1. f \notin Items /\ Money(f) = {"paid"} /\ DueOn(f) = FeeAmount[f] /\ DueOn(f) \in Nat
  BY PaymentsConstants DEF Money, DueOn
<1>2. m \in Nat \ {0} /\ a \in Allocation BY DOMAIN allocs = 1 .. Len(allocs)
<1>3. a.amount \in Nat /\ fee.paid \in Int BY <1>2 DEF Allocation, FeeRow
<1>4. fee.paid <= Received(f, "paid") + Into(f, "paid", allocs, m - 1)
  BY <1>1 DEF Fits
<1>5. Into(f, "paid", allocs, m) = Into(f, "paid", allocs, m - 1) + a.amount
  BY IntoNext DEF Hits
<1>6. /\ Into(f, "paid", allocs, m) \in Nat /\ Into(f, "paid", allocs, m - 1) \in Nat
      /\ TowardUpTo(f, allocs, m) \in Nat
  BY IntoFacts
<1>7. Received(f, "paid") \in Nat /\ TowardRow(f) \in Nat BY TotalsTyped
<1>8. Received(f, "paid") <= TowardRow(f) BY ReceivedShare
<1>9. Into(f, "paid", allocs, m) <= TowardUpTo(f, allocs, m) BY ColumnsShare
<1>10. paid \in Int /\ paid <= fee.paid + a.amount
  <2>1. FeeAmount[f] \in Int /\ fee.paid + a.amount \in Int BY <1>1, <1>3
  <2> QED BY <2>1, MinOfTwo
<1>11. next.paid = paid
       /\ next.status = IF paid >= FeeAmount[f] - Tolerance THEN "PAID" ELSE "PARTIAL"
  BY DEF PayFee
<1> HIDE DEF paid, next, a
<1>12. next.paid <= Received(f, "paid") + Into(f, "paid", allocs, m)
  BY <1>3, <1>4, <1>5, <1>6, <1>7, <1>10, <1>11
<1>13. ASSUME next.status = "PAID"
       PROVE  DueOn(f) - Tolerance <= TowardRow(f) + TowardUpTo(f, allocs, m)
  <2>1. paid >= FeeAmount[f] - Tolerance BY <1>11, <1>13
  <2> QED BY <1>1, <1>6, <1>7, <1>8, <1>9, <1>10, <1>11, <1>12, <2>1 DEF Tolerance
<1> QED BY <1>1, <1>12, <1>13 DEF Fits, next, a

(* What a session gives, and how far it is.                                 *)
LEMMA GivingFacts ==
  ASSUME PaymentsInv, NEW s \in Applies, pc[s] \notin {"idle", "rejected"}
  PROVE  /\ Giving(s) = Allocations(s) /\ Giving(s) \in Seq(Allocation)
         /\ k[s] \in DOMAIN Giving(s) /\ k[s] \in Int
         /\ \A r : Made(s, r) \in Int /\ k[s] - 1 <= Made(s, r) /\ Made(s, r) <= k[s]
<1>1. s \in Sessions /\ s \notin Waives BY PaymentsConstants DEF Sessions
<1>2. WellFormed(req[s]) /\ k[s] \in 1 .. Len(Allocations(s))
  BY <1>1 DEF PaymentsInv, SessionOK, Working
<1>3. Giving(s) = Allocations(s) /\ Giving(s) \in Seq(Allocation)
  BY <1>2 DEF Giving, WellFormed, Allocations
<1>4. k[s] \in DOMAIN Giving(s) /\ k[s] \in Int BY <1>2, <1>3
<1>5. \A r : Made(s, r) \in Int /\ k[s] - 1 <= Made(s, r) /\ Made(s, r) <= k[s]
  BY <1>4 DEF Made
<1> QED BY <1>3, <1>4, <1>5

(* A waiver gives no allocation.                                            *)
LEMMA WaiverGives ==
  ASSUME NEW s \in Waives
  PROVE  Giving(s) = << >> /\ s \notin Applies /\ Giving(s)' = << >>
BY PaymentsConstants DEF Giving

\* the committed installments and fees
DatabaseFits == \A r \in Items \cup Fees : db[r] # None => Fits(db[r], r, << >>, 0)

(* What a session sees of a row fits what it has given so far.              *)
LEMMA SeeFits ==
  ASSUME PaymentsInv, DatabaseFits, NEW s \in Applies \cup Waives, RowsHeld(s),
         pc[s] \notin {"idle", "rejected"},
         NEW r \in Items \cup Fees, db[r] # None,
         NEW m, s \in Applies => m \in Int /\ Made(s, r) <= m
  PROVE  See(s, r) \in RowOf(r) /\ Fits(See(s, r), r, Giving(s), m)
<1>1. s \in Sessions /\ r \in Rows BY DEF Sessions, Rows
<1>2. Database /\ Working(s) BY <1>1 DEF PaymentsInv, SessionOK
<1>3. See(s, r) \in RowOf(r) BY <1>1, <1>2, SeeTyped
<1> DEFINE row == See(s, r)
           as == Giving(s)
<1>4. CASE r \in DOMAIN own[s]
  <2>1. row = own[s][r] BY <1>4 DEF See
  <2>2. Fits(row, r, as, Made(s, r)) BY <1>4, <2>1 DEF RowsHeld
  <2>3. CASE s \in Applies
    <3>1. as \in Seq(Allocation) /\ Made(s, r) \in Int BY <2>3, GivingFacts
    <3> HIDE DEF row, as
    <3> QED BY <1>3, <2>2, <2>3, <3>1, FitsMore DEF row, as
  <2>4. CASE s \in Waives
    <3>1. as = << >> BY <2>4, WaiverGives
    <3> HIDE DEF row, as
    <3> QED BY <2>2, <3>1, <1>3, FitsNothing DEF row, as
  <2> QED BY <2>3, <2>4, <1>3
<1>5. CASE r \notin DOMAIN own[s]
  <2>1. row = db[r] BY <1>5 DEF See
  <2>2. Fits(row, r, << >>, 0) BY <2>1 DEF DatabaseFits
  <2>3. as \in Seq(Allocation)
    <3>1. CASE s \in Applies BY <3>1, GivingFacts
    <3>2. CASE s \in Waives
      <4>1. as = << >> BY <3>2, WaiverGives
      <4> HIDE DEF as
      <4> QED BY <4>1
    <3> QED BY <3>1, <3>2
  <2> HIDE DEF row, as
  <2> QED BY <1>3, <2>2, <2>3, FitsAny DEF row, as
<1> QED BY <1>4, <1>5

(* The row save() writes: some columns of the entity, the others as they    *)
(* are now.  The status and the amounts may come from different moments.    *)
LEMMA MixFits ==
  ASSUME NEW r \in Items \cup Fees, NEW row \in RowOf(r), NEW e, NEW allocs, NEW m, NEW C, NEW mix,
         mix = [c \in DOMAIN row |-> IF c \in C THEN e[c] ELSE row[c]],
         Fits(row, r, allocs, m), Fits(e, r, allocs, m)
  PROVE  Fits(mix, r, allocs, m)
<1>1. Money(r) \cup {"status"} \subseteq DOMAIN row
  <2>1. CASE r \in Items
    <3>1. row \in Item BY <2>1, RowKinds
    <3> QED BY <2>1, <3>1 DEF Item, Money
  <2>2. CASE r \notin Items
    <3>1. row \in FeeRow BY <2>2, RowKinds
    <3> QED BY <2>2, <3>1 DEF FeeRow, Money
  <2> QED BY <2>1, <2>2
<1>2. \A c \in Money(r) : mix[c] \in {row[c], e[c]} BY <1>1
<1>3. mix.status \in {row.status, e.status} BY <1>1
<1> QED BY <1>2, <1>3 DEF Fits

\* a step of s that leaves the installments and fees it has written as they are
SameRows(s) ==
  /\ \A r \in DOMAIN own'[s] \cap (Items \cup Fees) :
       /\ r \in DOMAIN own[s] /\ own'[s][r] = own[s][r] /\ req'[s] = req[s]
       /\ s \in Applies => Made(s, r) <= Made(s, r)'
  /\ pc'[s] \in {"diff", "save"} =>
       /\ pc[s] = "diff" /\ req'[s] = req[s]
       /\ ent'[s] = ent[s] /\ target'[s] = target[s] /\ k'[s] = k[s]

(* The steps that change what a session has read or written of              *)
(* installments and fees.                                                   *)
LEMMA RowCopies ==
  ASSUME PaymentsInv, NEW s \in Applies \cup Waives, Inner(s)
  PROVE  ReadItem(s) \/ ReadFee(s) \/ WaiveFee(s) \/ SaveColumns(s) \/ SameRows(s)
<1>s. s \in Sessions /\ s \notin Reverses BY PaymentsConstants DEF Sessions
<1>0. Shapes /\ Working(s) BY <1>s DEF PaymentsInv, SessionOK
<1>p. ASSUME NEW row, NEW val, Put(s, row, val), row \notin Items \cup Fees
      PROVE  \A r \in DOMAIN own'[s] \cap (Items \cup Fees) : r \in DOMAIN own[s] /\ own'[s][r] = own[s][r]
  BY <1>0, <1>s, <1>p, PutFacts DEF Shapes
<1>q. \A r \in Loans \cup Applies : r \notin Items \cup Fees BY PaymentsConstants
<1>n. DOMAIN own[s] # {} => pc[s] \notin {"idle", "rejected"} BY <1>0 DEF Working, Ended
<1>m. ASSUME s \in Applies, pc[s] \notin {"idle", "rejected"}
      PROVE  k[s] \in Int /\ \A r : Made(s, r) \in Int /\ k[s] - 1 <= Made(s, r) /\ Made(s, r) <= k[s]
  BY <1>m, GivingFacts
<1>1. CASE \E q : WellFormed(q) /\ Load(s, q)
  <2>1. PICK q : Load(s, q) BY <1>1
  <2>2. pc'[s] \in {"number", "rejected"} /\ own'[s] = own[s] /\ pc[s] = "idle"
    BY <2>1, <1>0, <1>s DEF Load, Goto, Shapes
  <2> QED BY <1>n, <2>2 DEF SameRows
<1>2. CASE ReadNumber(s)
  <2>1. pc'[s] = "insert" /\ own'[s] = own[s] /\ pc[s] = "number"
    BY <1>2, <1>0, <1>s DEF ReadNumber, Goto, Shapes
  <2>2. DOMAIN own[s] = {} BY <1>0, <2>1 DEF Working
  <2> QED BY <2>1, <2>2 DEF SameRows
<1>3. CASE InsertPayment(s)
  <2>1. pc[s] = "insert" BY <1>3 DEF InsertPayment
  <2>2. DOMAIN own[s] = {} BY <1>0, <2>1 DEF Working
  <2>3. CASE num[s] \in NumbersOf(req[s].loan)
    <3>1. DOMAIN own'[s] = {} /\ pc'[s] = "aborted"
      BY <1>3, <1>0, <1>s, <2>3 DEF InsertPayment, Discard, Goto, Shapes
    <3> QED BY <3>1 DEF SameRows
  <2>4. CASE num[s] \notin NumbersOf(req[s].loan)
    <3>1. pc'[s] = "alloc" BY <1>3, <1>0, <1>s, <2>4 DEF InsertPayment, Goto, Shapes
    <3>2. s \in Applies
      BY <1>0, <2>1 DEF Working, Labels, Ended, Loop
    <3>3. \A r \in DOMAIN own'[s] \cap (Items \cup Fees) : r \in DOMAIN own[s]
      BY <1>3, <1>p, <1>q, <2>4, <3>2 DEF InsertPayment
    <3> QED BY <2>2, <3>1, <3>3 DEF SameRows
  <2> QED BY <2>3, <2>4
<1>4. CASE InsertAllocation(s)
  <2>1. /\ own'[s] = own[s] /\ req'[s] = req[s] /\ k'[s] = k[s] /\ s \in Applies /\ pc[s] = "alloc"
        /\ pc'[s] \notin {"diff", "save", "alloc"}
    BY <1>4, <1>0, <1>s DEF InsertAllocation, Goto, Shapes, AfterItem, locals
  <2>2. \A r : Made(s, r) = k[s] - 1 BY <2>1 DEF Made
  <2>3. \A r : Made(s, r)' \in {k[s] - 1, k[s]} BY <2>1 DEF Made
  <2>4. k[s] \in Int BY <1>m, <2>1
  <2> QED BY <2>1, <2>2, <2>3, <2>4 DEF SameRows
<1>5. CASE NextAllocation(s)
  <2>1. /\ own'[s] = own[s] /\ req'[s] = req[s] /\ pc[s] = "next"
        /\ \/ k'[s] = k[s] + 1 /\ pc'[s] = "alloc"
           \/ k'[s] = k[s] /\ pc'[s] \in {"loan", "payment"}
    <3>1. CASE k[s] < Len(Allocations(s))
      BY <1>5, <1>0, <1>s, <3>1 DEF NextAllocation, Goto, Shapes
    <3>2. CASE ~ (k[s] < Len(Allocations(s)))
      BY <1>5, <1>0, <1>s, <3>2 DEF NextAllocation, Goto, Shapes
    <3> QED BY <3>1, <3>2
  <2>2. ASSUME s \in Applies, NEW r PROVE Made(s, r) <= Made(s, r)'
    <3>1. Made(s, r) = k[s] /\ k[s] \in Int BY <1>m, <2>1, <2>2 DEF Made
    <3>2. Made(s, r)' = k[s] BY <2>1, <3>1 DEF Made
    <3> QED BY <3>1, <3>2
  <2> QED BY <2>1, <2>2 DEF SameRows
<1>6. CASE UpdateLoan(s) \/ RefreshDelinquency(s)
  <2>1. /\ req'[s] = req[s] /\ k'[s] = k[s] /\ pc[s] \in {"loan", "refresh"}
        /\ pc'[s] \in {"refresh", "commit"}
    BY <1>6, <1>0, <1>s DEF UpdateLoan, RefreshDelinquency, Goto, Shapes, locals
  <2>2. s \in Applies /\ req[s].loan \in Loans
    <3>1. s \in Applies BY <1>0, <2>1 DEF Working, Labels, Ended, Loop
    <3>2. s \notin Waives BY <3>1, PaymentsConstants
    <3> QED BY <1>0, <2>1, <3>1, <3>2 DEF Working, WellFormed
  <2>3. \A r \in DOMAIN own'[s] \cap (Items \cup Fees) : r \in DOMAIN own[s] /\ own'[s][r] = own[s][r]
    <3>1. CASE own' = own BY <3>1
    <3>2. CASE own' # own BY <1>6, <1>p, <1>q, <2>2, <3>2 DEF UpdateLoan, RefreshDelinquency
    <3> QED BY <3>1, <3>2
  <2>4. \A r : Made(s, r) = k[s] /\ Made(s, r)' = k[s] BY <2>1 DEF Made
  <2>5. k[s] \in Int BY <1>m, <2>1, <2>2
  <2> QED BY <2>1, <2>3, <2>4, <2>5 DEF SameRows
<1>8. CASE LoadPayment(s) \/ ReverseAllocation(s)
  BY <1>8, <1>s DEF LoadPayment, ReverseAllocation
<1>10. CASE MarkReversed(s)
  BY <1>10, <1>0, <1>s DEF MarkReversed, Working, Labels, Loop, Ended
<1>13. CASE NoFee(s)
  <2>1. /\ own'[s] = own[s] /\ req'[s] = req[s] /\ k'[s] = k[s] /\ pc[s] = "readFee" /\ pc'[s] = "next"
    BY <1>13, <1>0, <1>s DEF NoFee, Goto, Shapes, locals
  <2>2. ASSUME s \in Applies, NEW r PROVE Made(s, r) <= Made(s, r)'
    <3>1. Made(s, r)' = k[s] BY <2>1 DEF Made
    <3> QED BY <1>m, <2>1, <2>2, <3>1
  <2> QED BY <2>1, <2>2 DEF SameRows
<1>15. CASE CompareColumns(s)
  <2>1. /\ own'[s] = own[s] /\ req'[s] = req[s] /\ k'[s] = k[s] /\ pc[s] = "diff" /\ pc'[s] = "save"
        /\ ent'[s] = ent[s] /\ target'[s] = target[s]
    BY <1>15, <1>0, <1>s DEF CompareColumns, Goto, Shapes
  <2>2. ASSUME s \in Applies, NEW r PROVE Made(s, r) <= Made(s, r)'
    <3>1. Made(s, r)' = Made(s, r) BY <2>1 DEF Made
    <3> QED BY <1>m, <2>1, <2>2, <3>1
  <2> QED BY <2>1, <2>2 DEF SameRows
<1>17. CASE BreakDeadlock(s) \/ Fail(s)
  <2>1. Abort(s) BY <1>17 DEF BreakDeadlock, Fail
  <2>2. DOMAIN own'[s] = {} /\ pc'[s] = "aborted"
    BY <2>1, <1>0, <1>s DEF Abort, Discard, Goto, Shapes
  <2> QED BY <2>2 DEF SameRows
<1> QED BY <1>1, <1>2, <1>3, <1>4, <1>5, <1>6, <1>8, <1>10, <1>13, <1>15, <1>17, <1>s, InnerCases

(* A session that does nothing keeps what it holds while others commit.     *)
LEMMA RowsHeldGrown ==
  ASSUME PaymentsInv, PaymentsInv',
         \A r, c : Received(r, c)' >= Received(r, c), \A r : TowardRow(r)' >= TowardRow(r),
         NEW t \in Applies \cup Waives, RowsHeld(t),
         own'[t] = own[t] /\ pc'[t] = pc[t] /\ req'[t] = req[t] /\ k'[t] = k[t]
           /\ target'[t] = target[t] /\ ent'[t] = ent[t]
  PROVE  RowsHeld(t)'
<1>0. t \in Sessions /\ Working(t) BY DEF PaymentsInv, SessionOK, Sessions
<1>1. ASSUME pc[t] \notin {"idle", "rejected"} PROVE Giving(t) \in Seq(Allocation)
  <2>1. CASE t \in Applies BY <1>1, <2>1, GivingFacts
  <2>2. CASE t \in Waives
    <3>1. Giving(t) = << >> BY <2>2, WaiverGives
    <3> QED BY <3>1
  <2> QED BY <2>1, <2>2
<1>2. Giving(t)' = Giving(t) BY DEF Giving, Allocations
<1>3. \A r : Made(t, r)' = Made(t, r) BY DEF Made
<1>4. ASSUME NEW r \in DOMAIN own[t] \cap (Items \cup Fees), NEW row, row = own[t][r],
             NEW as, as = Giving(t), NEW m, m = Made(t, r)
      PROVE  Fits(row, r, as, m)'
  <2>1. pc[t] \notin {"idle", "rejected"} BY <1>0, <1>4 DEF Working, Ended
  <2>2. row \in RowOf(r) /\ as \in Seq(Allocation) BY <1>0, <1>1, <1>4, <2>1 DEF Working
  <2>3. Fits(row, r, as, m) BY <1>4 DEF RowsHeld
  <2> QED BY <1>4, <2>2, <2>3, FitsGrown
<1>5. ASSUME pc[t] \in {"diff", "save"}, NEW r, r = target[t], NEW row, row = ent[t],
             NEW as, as = Giving(t), NEW m, m = k[t]
      PROVE  Fits(row, r, as, m)'
  <2>1. r \in Items \cup Fees /\ row \in RowOf(r) BY <1>0, <1>5 DEF Working
  <2>2. as \in Seq(Allocation) BY <1>1, <1>5
  <2>3. Fits(row, r, as, m) BY <1>5 DEF RowsHeld
  <2> QED BY <2>1, <2>2, <2>3, FitsGrown
<1> QED BY <1>2, <1>3, <1>4, <1>5 DEF RowsHeld

(* What a session holds after a step of its own that is not a commit.  The  *)
(* sums are the same before and after, so the rows are compared before.     *)
LEMMA RowsAfterRead ==
  ASSUME PaymentsInv, DatabaseFits, NEW s \in Applies \cup Waives, RowsHeld(s),
         ReadItem(s) \/ ReadFee(s) \/ WaiveFee(s)
  PROVE  /\ own'[s] = own[s] /\ req'[s] = req[s] /\ k'[s] = k[s]
         /\ s \in Applies /\ DOMAIN own[s] # {} =>
              \A r \in Items \cup Fees : Made(s, r) <= Made(s, r)'
         /\ pc'[s] \in {"diff", "save"} => Fits(ent'[s], target'[s], Giving(s), k[s])
<1>s. s \in Sessions BY DEF Sessions
<1>0. Shapes /\ Database /\ Working(s) BY <1>s DEF PaymentsInv, SessionOK
<1>q. \A f \in Fees : f \notin Items BY PaymentsConstants
<1>1. CASE WaiveFee(s)
  <2>1. PICK f \in Fees : /\ db[f] # None
                          /\ target' = [target EXCEPT ![s] = f]
                          /\ ent' = [ent EXCEPT ![s] = [db[f] EXCEPT !.status = "WAIVED"]]
    BY <1>1 DEF WaiveFee
  <2>2. s \in Waives /\ s \notin Applies /\ Giving(s) = << >> BY <1>1, WaiverGives DEF WaiveFee
  <2>3. target'[s] = f /\ ent'[s] = [db[f] EXCEPT !.status = "WAIVED"]
    BY <1>0, <1>s, <2>1 DEF Shapes
  <2>4. db[f] \in FeeRow /\ Fits(db[f], f, << >>, 0)
    BY <1>0, <2>1, RowKinds DEF Database, DatabaseFits
  <2>5. ent'[s].status = "WAIVED" /\ ent'[s].paid = db[f].paid BY <2>3, <2>4 DEF FeeRow
  <2>6. Money(f) = {"paid"} BY <1>q DEF Money
  <2>7. Fits(ent'[s], f, << >>, 0) BY <2>4, <2>5, <2>6 DEF Fits
  <2>8. Fits(ent'[s], f, << >>, k[s]) BY <2>7, FitsNothing
  <2> QED BY <1>1, <2>2, <2>3, <2>8 DEF WaiveFee
<1>2. CASE ReadItem(s) \/ ReadFee(s)
  <2>1. /\ own'[s] = own[s] /\ req'[s] = req[s] /\ k'[s] = k[s]
        /\ pc[s] \in {"readItem", "readFee"} /\ pc'[s] = "diff"
    BY <1>0, <1>2, <1>s DEF ReadItem, ReadFee, Goto, Shapes
  <2>2. s \in Applies
    <3>1. CASE s \in Waives
      <4>1. s \notin Applies /\ s \notin Reverses BY <3>1, PaymentsConstants
      <4>2. pc[s] \in {"idle", "commit", "diff", "save"} \cup Ended
        BY <1>0, <4>1 DEF Working, Labels
      <4> QED BY <2>1, <4>2 DEF Ended
    <3> QED BY <3>1
  <2>3. /\ Giving(s) = Allocations(s) /\ Giving(s) \in Seq(Allocation)
        /\ k[s] \in DOMAIN Giving(s) /\ k[s] \in Int
        /\ \A r : Made(s, r) \in Int /\ k[s] - 1 <= Made(s, r) /\ Made(s, r) <= k[s]
    BY <2>1, <2>2, GivingFacts
  <2>4. Alloc(s) = Giving(s)[k[s]] BY <2>3 DEF Alloc
  <2>5. CASE ReadItem(s)
    <3> DEFINE i == Alloc(s).item
    <3>1. pc[s] = "readItem" BY <2>5 DEF ReadItem
    <3>2. i \in Items /\ db[i] # None BY <1>0, <3>1 DEF Working, Database
    <3>3. target'[s] = i /\ ent'[s] = PayItem(i, See(s, i), Alloc(s))
      BY <1>0, <1>s, <2>2, <2>5 DEF ReadItem, Shapes
    <3>4. \A r : Made(s, r) = k[s] - 1 BY <3>1 DEF Made
    <3> DEFINE it == See(s, i)
               as == Giving(s)
    <3>5. it \in RowOf(i) /\ Fits(it, i, as, k[s] - 1)
      BY <2>1, <2>2, <2>3, <3>2, <3>4, SeeFits
    <3>6. it \in Item BY <3>2, <3>5, RowKinds
    <3>7. as \in Seq(Allocation) /\ k[s] \in DOMAIN as /\ as[k[s]].item = i BY <2>3, <2>4
    <3> HIDE DEF it, as, i
    <3>8. Fits(PayItem(i, it, as[k[s]]), i, as, k[s]) BY <3>2, <3>5, <3>6, <3>7, PaidItemFits
    <3>9. Fits(ent'[s], target'[s], as, k[s]) BY <2>4, <3>3, <3>8 DEF it, as
    <3>10. \A r : Made(s, r)' \in {k[s] - 1, k[s]} BY <2>1 DEF Made
    <3>11. \A r : Made(s, r) <= Made(s, r)' BY <2>3, <3>4, <3>10
    <3> QED BY <2>1, <3>9, <3>11 DEF as
  <2>6. CASE ReadFee(s)
    <3> DEFINE f == Alloc(s).fee
    <3>1. pc[s] = "readFee" /\ See(s, f) # None BY <2>6 DEF ReadFee
    <3>2. f \in Fees /\ Alloc(s).bucket = "FEE" BY <1>0, <3>1 DEF Working
    <3>d. db[f] # None BY <1>0, <3>1, <3>2 DEF See, Working
    <3>3. target'[s] = f /\ ent'[s] = PayFee(f, See(s, f), Alloc(s))
      BY <1>0, <1>s, <2>6 DEF ReadFee, Shapes
    <3>4. Made(s, f) = k[s] - 1 BY <3>1, <3>2 DEF Made
    <3> DEFINE fee == See(s, f)
               as == Giving(s)
    <3>5. fee \in RowOf(f) /\ Fits(fee, f, as, k[s] - 1)
      BY <2>1, <2>2, <2>3, <3>2, <3>4, <3>d, SeeFits
    <3>6. fee \in FeeRow BY <3>2, <3>5, RowKinds
    <3>7. /\ as \in Seq(Allocation) /\ k[s] \in DOMAIN as
          /\ as[k[s]].fee = f /\ as[k[s]].bucket = "FEE"
      BY <2>3, <2>4, <3>2
    <3>10. ASSUME NEW r \in Items \cup Fees PROVE Made(s, r) <= Made(s, r)'
      <4>1. CASE r \in Fees
        <5>1. Made(s, r) = k[s] - 1 BY <3>1, <4>1 DEF Made
        <5>2. Made(s, r)' = k[s] - 1 BY <2>1, <4>1 DEF Made
        <5> QED BY <2>3, <5>1, <5>2
      <4>2. CASE r \notin Fees
        <5>1. Made(s, r) = k[s] BY <3>1, <4>2 DEF Made
        <5>2. target'[s] \notin Items BY <1>q, <3>2, <3>3
        <5>3. Made(s, r)' = k[s] BY <2>1, <4>2, <5>2 DEF Made
        <5> QED BY <2>3, <5>1, <5>3
      <4> QED BY <4>1, <4>2
    <3> HIDE DEF fee, as, f
    <3>8. Fits(PayFee(f, fee, as[k[s]]), f, as, k[s]) BY <3>2, <3>5, <3>6, <3>7, PaidFeeFits
    <3>9. Fits(ent'[s], target'[s], as, k[s]) BY <2>4, <3>3, <3>8 DEF fee, as
    <3> QED BY <2>1, <3>9, <3>10 DEF as
  <2> QED BY <1>2, <2>5, <2>6
<1> QED BY <1>1, <1>2

(* The row save() writes holds what the session has given by then.          *)
LEMMA RowsAfterSave ==
  ASSUME PaymentsInv, DatabaseFits, NEW s \in Applies \cup Waives, RowsHeld(s), SaveColumns(s)
  PROVE  /\ req'[s] = req[s] /\ k'[s] = k[s] /\ pc'[s] \notin {"diff", "save"}
         /\ \A r \in DOMAIN own'[s] \cap (Items \cup Fees) :
              own'[s][r] \in RowOf(r) => Fits(own'[s][r], r, Giving(s), Made(s, r)')
<1>s. s \in Sessions BY DEF Sessions
<1>0. Shapes /\ Database /\ Working(s) BY <1>s DEF PaymentsInv, SessionOK
<1>q. \A f \in Fees : f \notin Items BY PaymentsConstants
<1> DEFINE x == target[s]
           row == See(s, x)
           as == Giving(s)
           mix == [c \in DOMAIN row |-> IF c \in cols[s] THEN ent[s][c] ELSE row[c]]
<1>1. pc[s] = "save" BY DEF SaveColumns
<1>2. /\ req'[s] = req[s] /\ k'[s] = k[s]
      /\ pc'[s] = AfterSave(s)
      /\ own' = own \/ Put(s, x, mix)
  BY <1>0, <1>s DEF SaveColumns, Goto, Shapes, locals
<1>3. /\ x \in Items \cup Fees /\ db[x] # None
  BY <1>0, <1>1 DEF Working
<1>4. /\ pc'[s] \in {"commit", "readFee", "next"}
      /\ s \in Applies => pc'[s] \in {"readFee", "next"}
      /\ x \in Fees => pc'[s] # "readFee"
  BY <1>2, <1>3, <1>q, PaymentsConstants DEF AfterSave, AfterItem
<1>5. s \in Applies => /\ as \in Seq(Allocation) /\ k[s] \in Int
                       /\ \A r : Made(s, r) \in Int /\ k[s] - 1 <= Made(s, r) /\ Made(s, r) <= k[s]
  BY <1>1, GivingFacts
<1>6. ASSUME NEW r, r = x PROVE Made(s, r)' = k[s]
  <2>1. CASE x \in Fees BY <1>2, <1>4, <1>6, <2>1 DEF Made
  <2>2. CASE x \in Items
    <3>1. r \notin Fees BY <1>q, <1>6, <2>2
    <3> QED BY <1>2, <1>4, <3>1 DEF Made
  <2> QED BY <1>3, <2>1, <2>2
<1>7. ASSUME s \in Applies, NEW r PROVE Made(s, r) <= Made(s, r)'
  <2>1. CASE x \in Fees
    <3>1. Made(s, r)' = k[s] BY <1>2, <1>4, <2>1 DEF Made
    <3> QED BY <1>5, <1>7, <3>1
  <2>2. CASE x \in Items
    <3>1. Made(s, r) = k[s] - 1 BY <1>1, <2>2 DEF Made
    <3>2. Made(s, r)' \in {k[s] - 1, k[s]} BY <1>2 DEF Made
    <3> QED BY <1>5, <1>7, <3>1, <3>2
  <2> QED BY <1>3, <2>1, <2>2
<1>8. row \in RowOf(x) /\ Fits(row, x, as, k[s])
  <2>1. s \in Applies => k[s] \in Int /\ Made(s, x) <= k[s] BY <1>5
  <2>2. pc[s] \notin {"idle", "rejected"} BY <1>1
  <2> QED BY <1>3, <2>1, <2>2, SeeFits
<1>9. Fits(ent[s], x, as, k[s]) BY <1>1 DEF RowsHeld
<1>10. Fits(mix, x, as, k[s])
  <2> DEFINE e == ent[s]
             C == cols[s]
             n == k[s]
  <2>1. x \in Items \cup Fees /\ row \in RowOf(x) /\ Fits(row, x, as, n) /\ Fits(e, x, as, n)
    BY <1>3, <1>8, <1>9
  <2>2. mix = [c \in DOMAIN row |-> IF c \in C THEN e[c] ELSE row[c]] OBVIOUS
  <2> HIDE DEF row, as, x, e, C, n, mix
  <2>3. Fits(mix, x, as, n) BY <2>1, <2>2, MixFits
  <2> QED BY <2>3 DEF n
<1>11. ASSUME NEW r \in DOMAIN own[s] \cap (Items \cup Fees), NEW val, val = own[s][r],
              val \in RowOf(r), NEW n, n = Made(s, r)'
       PROVE  Fits(val, r, as, n)
  <2>1. Fits(val, r, as, Made(s, r)) BY <1>11 DEF RowsHeld
  <2>2. CASE s \in Applies
    <3>1. Made(s, r)' \in Int
      <4>1. Made(s, r)' \in {k[s], k[s] - 1} BY <1>2 DEF Made
      <4> QED BY <1>5, <2>2, <4>1
    <3>2. Made(s, r) \in Int /\ Made(s, r) <= n /\ n \in Int /\ as \in Seq(Allocation)
      BY <1>5, <1>7, <1>11, <2>2, <3>1
    <3> HIDE DEF as
    <3> QED BY <1>11, <2>1, <3>2, FitsMore
  <2>3. CASE s \in Waives
    <3>1. as = << >> BY <2>3, WaiverGives
    <3> HIDE DEF as
    <3> QED BY <2>1, <3>1, FitsNothing
  <2> QED BY <2>2, <2>3
<1>12. ASSUME NEW r \in DOMAIN own'[s] \cap (Items \cup Fees), own'[s][r] \in RowOf(r)
       PROVE  Fits(own'[s][r], r, as, Made(s, r)')
  <2>1. CASE own' = own BY <1>11, <1>12, <2>1
  <2>2. CASE Put(s, x, mix)
    <3> HIDE DEF x, mix, as
    <3>1. /\ DOMAIN own'[s] = DOMAIN own[s] \cup {x} /\ own'[s][x] = mix
          /\ \A y \in DOMAIN own[s] : y # x => own'[s][y] = own[s][y]
      BY <1>0, <1>s, <2>2, PutFacts DEF Shapes
    <3>2. CASE r = x
      <4>1. Made(s, r)' = k[s] BY <1>6, <3>2
      <4> QED BY <1>10, <3>1, <3>2, <4>1
    <3>3. CASE r # x
      <4>1. r \in DOMAIN own[s] /\ own'[s][r] = own[s][r] BY <1>12, <3>1, <3>3
      <4> QED BY <1>11, <1>12, <4>1
    <3> QED BY <3>2, <3>3
  <2> QED BY <1>2, <2>1, <2>2
<1> QED BY <1>2, <1>4, <1>12

(* No statement but a commit disturbs the cover.                            *)
LEMMA CoversInner ==
  ASSUME PaymentsInv, PaymentsInv', Covers, NEW s \in Sessions, Inner(s)
  PROVE  Covers'
<1>1. Own(s) /\ reversals' = reversals BY InnerIsOwn
<1>2. db' = db BY <1>1 DEF Own
<1>3. /\ \A r, c : Received(r, c)' = Received(r, c)
      /\ \A r : TowardRow(r)' = TowardRow(r)
  BY <1>2, SameSums
<1>4. \A row, r, as, m : Fits(row, r, as, m)' <=> Fits(row, r, as, m)
  BY <1>3 DEF Fits
<1>5. /\ \A r, c : Received(r, c)' >= Received(r, c)
      /\ \A r : TowardRow(r)' >= TowardRow(r)
  BY <1>3, TotalsTyped
<1> SUFFICES ASSUME NoReversal
             PROVE  /\ \A r \in Items \cup Fees : db[r] # None => Fits(db[r], r, << >>, 0)'
                    /\ \A t \in Applies \cup Waives : RowsHeld(t)'
  BY <1>1, <1>2 DEF Covers, NoReversal
<1>6. DatabaseFits /\ \A t \in Applies \cup Waives : RowsHeld(t)
  BY DEF Covers, DatabaseFits
<1>7. ASSUME NEW r \in Items \cup Fees, db[r] # None, NEW row, row = db[r]
      PROVE  Fits(row, r, << >>, 0)'
  BY <1>4, <1>6, <1>7 DEF DatabaseFits
<1>8. ASSUME NEW t \in Applies \cup Waives, t # s PROVE RowsHeld(t)'
  BY <1>1, <1>5, <1>6, <1>8, RowsHeldGrown DEF Own, Sessions
<1>9. ASSUME s \in Applies \cup Waives PROVE RowsHeld(s)'
  <2>0. Working(s) /\ Working(s)'
    <3>1. SessionOK(s)' BY DEF PaymentsInv
    <3> QED BY <3>1 DEF PaymentsInv, SessionOK
  <2>h. RowsHeld(s) BY <1>6, <1>9
  <2>g. req'[s] = req[s] => Giving(s)' = Giving(s) BY DEF Giving, Allocations
  <2>t. \A r \in DOMAIN own'[s] : own'[s][r] \in RowOf(r) BY <2>0 DEF Working
  <2>1. CASE ReadItem(s) \/ ReadFee(s) \/ WaiveFee(s)
    <3>1. /\ own'[s] = own[s] /\ req'[s] = req[s] /\ k'[s] = k[s]
          /\ s \in Applies /\ DOMAIN own[s] # {} =>
               \A r \in Items \cup Fees : Made(s, r) <= Made(s, r)'
          /\ pc'[s] \in {"diff", "save"} => Fits(ent'[s], target'[s], Giving(s), k[s])
      BY <1>6, <1>9, <2>h, <2>1, RowsAfterRead
    <3>2. ASSUME NEW r \in DOMAIN own'[s] \cap (Items \cup Fees), NEW row, row = own'[s][r],
                 NEW as, as = Giving(s), NEW n, n = Made(s, r)'
          PROVE  Fits(row, r, as, n)'
      <4>1. Fits(row, r, as, Made(s, r)) BY <2>h, <3>1, <3>2 DEF RowsHeld
      <4>2. row \in RowOf(r) BY <2>t, <3>2
      <4>3. CASE s \in Applies
        <5>1. pc[s] \notin {"idle", "rejected"} BY <2>0, <3>1, <3>2 DEF Working, Ended
        <5>2. as \in Seq(Allocation) /\ k[s] \in Int /\ Made(s, r) \in Int
          BY <3>2, <4>3, <5>1, GivingFacts
        <5>3. n \in {k[s], k[s] - 1} BY <3>1, <3>2 DEF Made
        <5>4. Made(s, r) <= n BY <3>1, <3>2, <4>3
        <5>5. n \in Int BY <5>2, <5>3
        <5>6. Fits(row, r, as, n) BY <3>2, <4>1, <4>2, <5>2, <5>4, <5>5, FitsMore
        <5> QED BY <1>4, <5>6
      <4>4. CASE s \in Waives
        <5>1. as = << >> BY <3>2, <4>4, WaiverGives
        <5>2. Fits(row, r, as, n) BY <4>1, <5>1, FitsNothing
        <5> QED BY <1>4, <5>2
      <4> QED BY <1>9, <4>3, <4>4
    <3>3. ASSUME pc'[s] \in {"diff", "save"}, NEW r, r = target'[s], NEW row, row = ent'[s],
                 NEW as, as = Giving(s), NEW n, n = k[s]
          PROVE  Fits(row, r, as, n)'
      BY <1>4, <3>1, <3>3
    <3> QED BY <2>g, <3>1, <3>2, <3>3 DEF RowsHeld
  <2>2. CASE SaveColumns(s)
    <3>1. /\ req'[s] = req[s] /\ k'[s] = k[s] /\ pc'[s] \notin {"diff", "save"}
          /\ \A r \in DOMAIN own'[s] \cap (Items \cup Fees) :
               own'[s][r] \in RowOf(r) => Fits(own'[s][r], r, Giving(s), Made(s, r)')
      BY <1>6, <1>9, <2>h, <2>2, RowsAfterSave
    <3>2. ASSUME NEW r \in DOMAIN own'[s] \cap (Items \cup Fees), NEW row, row = own'[s][r],
                 NEW as, as = Giving(s), NEW n, n = Made(s, r)'
          PROVE  Fits(row, r, as, n)'
      BY <1>4, <2>t, <3>1, <3>2
    <3> QED BY <2>g, <3>1, <3>2 DEF RowsHeld
  <2>3. CASE SameRows(s)
    <3>2. ASSUME NEW r \in DOMAIN own'[s] \cap (Items \cup Fees), NEW row, row = own'[s][r],
                 NEW as, as = Giving(s), NEW n, n = Made(s, r)'
          PROVE  req'[s] = req[s] /\ Fits(row, r, as, n)'
      <4>0. /\ r \in DOMAIN own[s] /\ own'[s][r] = own[s][r] /\ req'[s] = req[s]
            /\ s \in Applies => Made(s, r) <= Made(s, r)'
        BY <2>3, <3>2 DEF SameRows
      <4>1. Fits(row, r, as, Made(s, r)) BY <2>h, <3>2, <4>0 DEF RowsHeld
      <4>2. row \in RowOf(r) BY <2>t, <3>2
      <4>3. CASE s \in Applies
        <5>1. /\ pc[s] \notin {"idle", "rejected"} /\ pc'[s] \notin {"idle", "rejected"}
          BY <2>0, <3>2, <4>0 DEF Working, Ended
        <5>2. as \in Seq(Allocation) /\ Made(s, r) \in Int
          BY <3>2, <4>3, <5>1, GivingFacts
        <5>3. n \in Int
          <6>1. \A x \in Applies : x \in Sessions /\ x \notin Waives
            BY PaymentsConstants DEF Sessions
          <6>2. k'[s] \in 1 .. Len(Allocations(s)') /\ WellFormed(req'[s])
            BY <2>0, <4>3, <5>1, <6>1 DEF Working, WellFormed
          <6>3. k'[s] \in Int BY <6>2 DEF WellFormed, Allocations
          <6> QED BY <3>2, <6>3 DEF Made
        <5>4. Made(s, r) <= n BY <3>2, <4>0, <4>3
        <5>6. Fits(row, r, as, n) BY <3>2, <4>1, <4>2, <5>2, <5>3, <5>4, FitsMore
        <5> QED BY <1>4, <4>0, <5>6
      <4>4. CASE s \in Waives
        <5>1. as = << >> BY <3>2, <4>4, WaiverGives
        <5>2. Fits(row, r, as, n) BY <4>1, <5>1, FitsNothing
        <5> QED BY <1>4, <4>0, <5>2
      <4> QED BY <1>9, <4>3, <4>4
    <3>3. ASSUME pc'[s] \in {"diff", "save"}, NEW r, r = target'[s], NEW row, row = ent'[s],
                 NEW as, as = Giving(s), NEW n, n = k'[s]
          PROVE  req'[s] = req[s] /\ Fits(row, r, as, n)'
      <4>1. /\ pc[s] = "diff" /\ req'[s] = req[s]
            /\ ent'[s] = ent[s] /\ target'[s] = target[s] /\ k'[s] = k[s]
        BY <2>3, <3>3 DEF SameRows
      <4>2. Fits(row, r, as, n) BY <2>h, <3>3, <4>1 DEF RowsHeld
      <4> QED BY <1>4, <4>1, <4>2
    <3> QED BY <2>g, <3>2, <3>3 DEF RowsHeld
  <2> QED BY <1>9, <2>1, <2>2, <2>3, RowCopies
<1> QED BY <1>2, <1>7, <1>8, <1>9

(* A commit turns what the session was giving into what was received.       *)
LEMMA CoversCommit ==
  ASSUME PaymentsInv, PaymentsInv', Covers, NEW s \in Sessions, Commit(s)
  PROVE  Covers'
<1> SUFFICES ASSUME NoReversal' PROVE
      /\ \A r \in Items \cup Fees :
           \A row : row = db'[r] /\ row # None => Fits(row, r, << >>, 0)'
      /\ \A t \in Applies \cup Waives : RowsHeld(t)'
  BY DEF Covers
<1>0. Shapes /\ Database /\ Working(s) BY DEF PaymentsInv, SessionOK
<1>1. /\ NoReversal /\ s \notin Reverses
      /\ \A r, c : Received(r, c)' >= Received(r, c)
      /\ \A r : TowardRow(r)' >= TowardRow(r)
  BY CommittedSums
<1>2. DatabaseFits /\ \A t \in Applies \cup Waives : RowsHeld(t)
  BY <1>1 DEF Covers, DatabaseFits
<1>3. s \in Applies \cup Waives BY <1>1 DEF Sessions
<1>e. << >> \in Seq(Allocation) OBVIOUS
<1>4. ASSUME NEW r \in Items \cup Fees, NEW row, row = db'[r], row # None
      PROVE  Fits(row, r, << >>, 0)'
  <2>1. r \in Rows BY DEF Rows
  <2>2. CASE r \notin DOMAIN own[s]
    <3>1. row = db[r] BY <1>4, <2>1, <2>2, CommittedRows
    <3>2. row \in RowOf(r) /\ Fits(row, r, << >>, 0)
      BY <1>0, <1>2, <1>4, <2>1, <3>1 DEF Database, DatabaseFits
    <3> QED BY <1>1, <1>e, <3>2, FitsGrown
  <2>3. CASE r \in DOMAIN own[s]
    <3>1. row = own[s][r] BY <1>4, <2>3, CommittedRows
    <3>2. row \in RowOf(r) BY <1>0, <2>3, <3>1 DEF Working
    <3>3. Fits(row, r, Giving(s), Made(s, r)) BY <1>2, <1>3, <2>3, <3>1 DEF RowsHeld
    <3>4. CASE s \in Waives
      <4>1. Fits(row, r, << >>, 0) BY <3>3, <3>4, WaiverGives, FitsNothing
      <4> QED BY <1>1, <1>e, <3>2, <4>1, FitsGrown
    <3>5. CASE s \in Applies
      <4> DEFINE as == Allocations(s)
                 n == k[s]
      <4>1. pc[s] = "commit" BY DEF Commit
      <4>2. Giving(s) = as /\ as \in Seq(Allocation) /\ n \in DOMAIN as
        BY <3>5, <4>1, GivingFacts
      <4>3. Made(s, r) = n BY <4>1 DEF Made
      <4>4. /\ \A c : Received(r, c)' = Received(r, c) + Into(r, c, as, Len(as))
            /\ TowardRow(r)' = TowardRow(r) + Toward(r, as)
        BY <3>5, GrowSums
      <4>5. Fits(row, r, as, n) BY <3>3, <4>2, <4>3
      <4> HIDE DEF as, n
      <4>6. n \in Nat
        <5>1. \A q \in Seq(Allocation) : \A j \in DOMAIN q : j \in Nat OBVIOUS
        <5> QED BY <4>2, <5>1, Zenon
      <4>7. /\ \A c : Into(r, c, as, n) <= Into(r, c, as, Len(as))
            /\ \A c : Into(r, c, as, n) \in Nat /\ Into(r, c, as, Len(as)) \in Nat
            /\ TowardUpTo(r, as, n) \in Nat /\ Toward(r, as) \in Nat
            /\ TowardUpTo(r, as, n) <= Toward(r, as)
        BY <4>2, <4>6, IntoFacts
      <4>8. (\A c : Into(r, c, << >>, 0) \in Nat) /\ TowardUpTo(r, << >>, 0) \in Nat
        BY <1>e, IntoFacts
      <4>9. (\A c : Received(r, c) \in Nat) /\ TowardRow(r) \in Nat BY TotalsTyped
      <4>10. \A c \in Money(r) : row[c] \in Int BY <3>2, MoneyTyped
      <4>11. DueOn(r) - Tolerance \in Int BY DueTyped
      <4>12. ASSUME NEW c \in Money(r)
             PROVE  row[c] <= Received(r, c)' + Into(r, c, << >>, 0)
        <5>1. row[c] <= Received(r, c) + Into(r, c, as, n) BY <4>5 DEF Fits
        <5>2. Received(r, c)' = Received(r, c) + Into(r, c, as, Len(as)) BY <4>4
        <5>3. /\ Into(r, c, as, n) <= Into(r, c, as, Len(as))
              /\ Into(r, c, as, n) \in Nat /\ Into(r, c, as, Len(as)) \in Nat
          BY <4>7
        <5>4. row[c] \in Int /\ Received(r, c) \in Nat /\ Into(r, c, << >>, 0) \in Nat
          BY <4>8, <4>9, <4>10
        <5> DEFINE x == row[c]
                   g == Received(r, c)
                   h == Received(r, c)'
                   a == Into(r, c, as, n)
                   b == Into(r, c, as, Len(as))
                   z == Into(r, c, << >>, 0)
        <5>5. /\ x \in Int /\ g \in Nat /\ z \in Nat /\ a \in Nat /\ b \in Nat
              /\ x <= g + a /\ h = g + b /\ a <= b
          BY <5>1, <5>2, <5>3, <5>4
        <5> HIDE DEF x, g, h, a, b, z
        <5>6. x <= h + z BY <5>5
        <5> QED BY <5>6 DEF x, h, z
      <4>13. ASSUME row.status = "PAID"
             PROVE  DueOn(r) - Tolerance <= TowardRow(r)' + TowardUpTo(r, << >>, 0)
        <5>1. DueOn(r) - Tolerance <= TowardRow(r) + TowardUpTo(r, as, n)
          BY <4>5, <4>13 DEF Fits
        <5> DEFINE x == DueOn(r) - Tolerance
                   g == TowardRow(r)
                   h == TowardRow(r)'
                   a == TowardUpTo(r, as, n)
                   b == Toward(r, as)
                   z == TowardUpTo(r, << >>, 0)
        <5>5. /\ x \in Int /\ g \in Nat /\ z \in Nat /\ a \in Nat /\ b \in Nat
              /\ x <= g + a /\ h = g + b /\ a <= b
          BY <4>4, <4>7, <4>8, <4>9, <4>11, <5>1
        <5> HIDE DEF x, g, h, a, b, z
        <5>6. x <= h + z BY <5>5
        <5> QED BY <5>6 DEF x, h, z
      <4> QED BY <4>12, <4>13 DEF Fits
    <3> QED BY <1>3, <3>4, <3>5
  <2> QED BY <2>2, <2>3
<1>5. ASSUME NEW t \in Applies \cup Waives, t # s PROVE RowsHeld(t)'
  <2>1. /\ t \in Sessions /\ own'[t] = own[t] /\ pc'[t] = pc[t]
        /\ UNCHANGED <<req, k, target, ent>>
    BY <1>5, CommittedRows DEF Commit, locals, Sessions
  <2> QED BY <1>1, <1>2, <2>1, RowsHeldGrown
<1>6. RowsHeld(s)'
  <2>1. DOMAIN own'[s] = {} /\ pc'[s] = "committed" BY CommittedRows
  <2> QED BY <2>1 DEF RowsHeld
<1> QED BY <1>4, <1>5, <1>6

(* An assessed fee has received nothing and says so.                        *)
LEMMA CoversCreateFee ==
  ASSUME PaymentsInv, PaymentsInv', Covers, NEW f \in Fees, CreateFee(f)
  PROVE  Covers'
<1>0. Shapes /\ Database BY DEF PaymentsInv
<1>1. /\ db' = [db EXCEPT ![f] = NewFee]
      /\ UNCHANGED <<own, pc, req, snap, num, k, target, ent, cols, reversals>>
  BY DEF CreateFee, locals
<1>2. f \notin Applies /\ f \in Rows /\ f \notin Items BY PaymentsConstants, RowKinds
<1>3. db'[f] = NewFee /\ \A r \in Rows \ {f} : db'[r] = db[r] BY <1>0, <1>1, <1>2 DEF Shapes
<1>4. \A p \in Applies : db'[p] = db[p] BY <1>2, <1>3 DEF Rows
<1>5. /\ \A r, c : Received(r, c)' = Received(r, c)
      /\ \A r : TowardRow(r)' = TowardRow(r)
  BY <1>4, SameSums
<1>6. /\ \A r, c : Received(r, c)' >= Received(r, c)
      /\ \A r : TowardRow(r)' >= TowardRow(r)
  BY <1>5, TotalsTyped
<1>7. \A row, r, as, m : Fits(row, r, as, m)' <=> Fits(row, r, as, m) BY <1>5 DEF Fits
<1> SUFFICES ASSUME NoReversal PROVE
      /\ \A r \in Items \cup Fees :
           \A row : row = db'[r] /\ row # None => Fits(row, r, << >>, 0)'
      /\ \A t \in Applies \cup Waives : RowsHeld(t)'
  BY <1>1 DEF Covers, NoReversal
<1>8. ASSUME NEW r \in Items \cup Fees, NEW row, row = db'[r], row # None
      PROVE  Fits(row, r, << >>, 0)
  <2>1. CASE r = f
    <3>1. row.paid = 0 /\ row.status = "OUTSTANDING" BY <1>3, <1>8, <2>1 DEF NewFee
    <3>2. Received(r, "paid") \in Nat BY TotalsTyped
    <3>3. Into(r, "paid", << >>, 0) \in Nat
      <4>1. << >> \in Seq(Allocation) OBVIOUS
      <4> QED BY <4>1, IntoFacts
    <3>4. Money(r) = {"paid"} BY <1>2, <2>1 DEF Money
    <3>5. 0 <= Received(r, "paid") + Into(r, "paid", << >>, 0) BY <3>2, <3>3
    <3> QED BY <3>1, <3>4, <3>5 DEF Fits
  <2>2. CASE r # f
    <3>1. row = db[r] BY <1>3, <1>8, <2>2 DEF Rows
    <3> QED BY <1>8, <3>1 DEF Covers
  <2> QED BY <2>1, <2>2
<1>9. \A t \in Applies \cup Waives : RowsHeld(t)'
  BY <1>1, <1>6, RowsHeldGrown DEF Covers
<1> QED BY <1>7, <1>8, <1>9

(* The rows to begin with are covered by what was received before.          *)
LEMMA InitCovers == Init => Covers
<1> SUFFICES ASSUME Init PROVE Covers OBVIOUS
<1>1. PaymentsInv BY InitInv
<1>2. ASSUME NEW r \in Items \cup Fees, db[r] # None PROVE Fits(db[r], r, << >>, 0)
  <2> DEFINE row == db[r]
  <2>0. << >> \in Seq(Allocation) OBVIOUS
  <2>1. \A c : Received(r, c) + Into(r, c, << >>, 0) >= 0
    <3>1. \A c : Received(r, c) \in Nat BY <1>1, TotalsTyped
    <3>2. \A c : Into(r, c, << >>, 0) \in Nat BY <2>0, IntoFacts
    <3> QED BY <3>1, <3>2
  <2>2. CASE r \in Items
    <3>1. row = [principal |-> 0, interest |-> 0, fees |-> 0, status |-> "PENDING"]
      BY <2>2, PaymentsConstants, RowKinds DEF Init
    <3> HIDE DEF row
    <3>2. /\ row.principal = 0 /\ row.interest = 0 /\ row.fees = 0 /\ row.status = "PENDING"
      BY <3>1
    <3>3. Money(r) = {"principal", "interest", "fees"} BY <2>2 DEF Money
    <3>4. \A c \in Money(r) : row[c] = 0 BY <3>2, <3>3
    <3> QED BY <2>1, <3>2, <3>4 DEF Fits, row
  <2>3. CASE r \in Fees
    <3>1. row = NewFee BY <1>2, <2>3, PaymentsConstants, RowKinds DEF Init
    <3>2. row.paid = 0 /\ row.status = "OUTSTANDING" BY <3>1 DEF NewFee
    <3> HIDE DEF row
    <3>3. Money(r) = {"paid"} BY <2>3, PaymentsConstants DEF Money
    <3>4. \A c \in Money(r) : row[c] = 0 BY <3>2, <3>3
    <3> QED BY <2>1, <3>2, <3>4 DEF Fits, row
  <2> QED BY <2>2, <2>3
<1>3. \A s \in Applies \cup Waives : RowsHeld(s)
  BY DEF RowsHeld, Init, Sessions
<1> QED BY <1>2, <1>3 DEF Covers

(* A stuttering step keeps what is paid covered.                            *)
LEMMA CoversUnchanged == PaymentsInv /\ Covers /\ UNCHANGED vars => Covers'
<1> SUFFICES ASSUME PaymentsInv, Covers, UNCHANGED vars PROVE Covers' OBVIOUS
<1>1. UNCHANGED <<db, own, pc, req, snap, num, k, target, ent, cols, reversals>>
  BY DEF vars, locals
<1>2. /\ \A r, c : Received(r, c)' = Received(r, c)
      /\ \A r : TowardRow(r)' = TowardRow(r)
  BY <1>1, SameSums
<1>3. \A row, r, as, m : Fits(row, r, as, m)' <=> Fits(row, r, as, m) BY <1>2 DEF Fits
<1>4. ASSUME NEW t PROVE RowsHeld(t)' <=> RowsHeld(t)
  BY <1>1, <1>3 DEF RowsHeld, Giving, Made, Allocations
<1> QED BY <1>1, <1>3, <1>4 DEF Covers, NoReversal

(* Every step keeps what is paid covered.                                   *)
LEMMA CoversKept ==
  PaymentsInv /\ PaymentsInv' /\ Covers /\ [Next]_vars => Covers'
<1> SUFFICES ASSUME PaymentsInv, PaymentsInv', Covers, [Next]_vars PROVE Covers' OBVIOUS
<1>1. CASE \E s \in Sessions : Step(s) \/ Fail(s)
  <2>1. PICK s \in Sessions : Step(s) \/ Fail(s) BY <1>1
  <2>2. CASE Commit(s) BY <2>2, CoversCommit
  <2>3. CASE ~ Commit(s)
    <3>1. Inner(s) BY <2>1, <2>3 DEF Inner
    <3> QED BY <3>1, CoversInner
  <2> QED BY <2>2, <2>3
<1>2. CASE \E f \in Fees : CreateFee(f) BY <1>2, CoversCreateFee
<1>3. CASE UNCHANGED vars BY <1>3, CoversUnchanged
<1> QED BY <1>1, <1>2, <1>3 DEF Next

(* What a committed row that fits says of its status.                       *)
LEMMA PaidRowCovered ==
  ASSUME PaymentsInv, Covers, NoReversal, NEW r \in Items \cup Fees,
         db[r] # None, db[r].status = "PAID"
  PROVE  TowardRow(r) >= DueOn(r) - Tolerance
<1>1. Fits(db[r], r, << >>, 0) BY DEF Covers
<1>2. TowardUpTo(r, << >>, 0) = 0
  <2>1. {x \in DOMAIN << >> : x <= 0 /\ Names(<< >>[x], r)} = {} OBVIOUS
  <2> QED BY <2>1, SumEmpty DEF TowardUpTo
<1>3. TowardRow(r) \in Nat BY TotalsTyped
<1>4. DueOn(r) - Tolerance \in Int BY DueTyped
<1>5. DueOn(r) - Tolerance <= TowardRow(r) + TowardUpTo(r, << >>, 0) BY <1>1 DEF Fits
<1> QED BY <1>2, <1>3, <1>4, <1>5

(* The invariant of the rows says that what is shown PAID is covered.       *)
LEMMA CoversMean ==
  PaymentsInv /\ Covers => (NoReversal => PaidItemIsCovered /\ PaidFeeIsCovered)
<1> SUFFICES ASSUME PaymentsInv, Covers, NoReversal
             PROVE  PaidItemIsCovered /\ PaidFeeIsCovered
  OBVIOUS
<1>1. ASSUME NEW i \in Items, db[i].status = "PAID"
      PROVE  TowardRow(i) >= ScheduledTotal[i] - Tolerance
  <2>1. db[i] # None BY DEF PaymentsInv, Database
  <2> QED BY <1>1, <2>1, PaidRowCovered DEF DueOn
<1>2. ASSUME NEW f \in Fees, db[f] # None, db[f].status = "PAID"
      PROVE  TowardRow(f) >= FeeAmount[f] - Tolerance
  <2>1. DueOn(f) = FeeAmount[f] BY PaymentsConstants DEF DueOn
  <2> QED BY <1>2, <2>1, PaidRowCovered
<1> QED BY <1>1, <1>2 DEF PaidItemIsCovered, PaidFeeIsCovered

(* Until a reversal commits, an installment shown PAID and a fee shown PAID *)
(* were paid for by committed payments, although each payment saves only    *)
(* the columns it found changed, with amounts it computed from a row that   *)
(* others have saved since.                                                 *)
THEOREM PaidRowsAreCovered ==
  Spec => [](NoReversal => PaidItemIsCovered /\ PaidFeeIsCovered)
<1>1. Init => PaymentsInv /\ Covers BY InitInv, InitCovers
<1>2. (PaymentsInv /\ Covers) /\ [Next]_vars => (PaymentsInv /\ Covers)'
  BY NextKeeps, CoversKept
<1> QED BY <1>1, <1>2, CoversMean, PTL DEF Spec

(* The same of the fees alone: applyToFee stops at the amount of the fee,   *)
(* and two payments may have read it before either saves.                   *)
THEOREM PaidFeesAreCovered == Spec => [](NoReversal => PaidFeeIsCovered)
BY PaidRowsAreCovered, PTL

----------------------------------------------------------------------------
(* The previews.                                                            *)

Suggested == [bucket : Buckets, amount : Nat, item : {None}, fee : {None}]
Lines == Seq(Suggested)

(* A line more on a list of suggestions.                                    *)
LEMMA SumOfLonger ==
  ASSUME NEW lines \in Lines, NEW a \in Suggested, NEW buckets
  PROVE  /\ Append(lines, a) \in Lines
         /\ SumOf(lines, buckets) \in Nat
         /\ SumOf(Append(lines, a), buckets)
              = SumOf(lines, buckets) + (IF a.bucket \in buckets THEN a.amount ELSE 0)
<1> DEFINE L == Len(lines)
           D == 1 .. L
           more == Append(lines, a)
           f == [n \in DOMAIN lines |-> lines[n].amount]
           g == [n \in DOMAIN more |-> more[n].amount]
           S == {n \in DOMAIN lines : lines[n].bucket \in buckets}
           T == {n \in DOMAIN more : more[n].bucket \in buckets}
<1>1. L \in Nat /\ DOMAIN lines = D /\ \A n \in D : lines[n] \in Suggested BY DEF Lines
<1>2. /\ more \in Lines /\ DOMAIN more = 1 .. L + 1
      /\ \A n \in D : more[n] = lines[n]
      /\ more[L + 1] = a
  BY DEF Lines
<1>3. IsFiniteSet(D) /\ S \subseteq D BY <1>1, FS_Interval
<1>4. IsFiniteSet(S) BY <1>3, FS_Subset
<1>5. \A n \in D : f[n] \in Nat /\ g[n] = f[n] BY <1>1, <1>2 DEF Suggested
<1>6. L + 1 \notin D /\ g[L + 1] = a.amount /\ a.amount \in Nat BY <1>1, <1>2 DEF Suggested
<1>7. T = S \cup (IF a.bucket \in buckets THEN {L + 1} ELSE {})
  <2>1. 1 .. L + 1 = D \cup {L + 1} BY <1>1
  <2> QED BY <2>1, <1>1, <1>2
<1>8. SumOf(lines, buckets) = SumFunctionOnSet(f, S)
      /\ SumOf(more, buckets) = SumFunctionOnSet(g, T)
  BY DEF SumOf
<1> HIDE DEF f, g, S, T, D, more, L
<1>9. SumFunctionOnSet(f, S) \in Nat BY <1>3, <1>4, <1>5, SumNat
<1>10. CASE a.bucket \in buckets
  <2>1. SumFunctionOnSet(g, S \cup {L + 1}) = SumFunctionOnSet(f, S) + g[L + 1]
    <3>1. \A n \in S : f[n] \in Int /\ g[n] = f[n] BY <1>3, <1>5
    <3>2. L + 1 \notin S /\ g[L + 1] \in Int BY <1>3, <1>6
    <3> QED BY <1>4, <3>1, <3>2, SumGrow
  <2> QED BY <2>1, <1>2, <1>6, <1>7, <1>8, <1>9, <1>10 DEF more
<1>11. CASE a.bucket \notin buckets
  <2>1. T = S BY <1>7, <1>11
  <2>2. SumFunctionOnSet(f, S) = SumFunctionOnSet(g, S)
    <3>1. \A n \in S : f[n] \in Int /\ g[n] = f[n] BY <1>3, <1>5
    <3> QED BY <1>4, <3>1, SumSame
  <2> QED BY <2>1, <2>2, <1>2, <1>8, <1>9, <1>11 DEF more
<1> QED BY <1>10, <1>11

(* The lines of nothing.                                                    *)
LEMMA SumOfNothing ==
  ASSUME NEW buckets
  PROVE  << >> \in Lines /\ SumOf(<< >>, buckets) = 0
<1>1. {n \in DOMAIN << >> : << >>[n].bucket \in buckets} = {} OBVIOUS
<1> QED BY <1>1, SumEmpty DEF SumOf, Lines

\* what a preview of x has given out so far, and what is left
Shared(given, x) ==
  /\ given.left \in Nat /\ given.lines \in Lines
  /\ SumOf(given.lines, Buckets) + given.left = x

(* Interest and fees never take more than is left.                          *)
LEMMA SuggestShares ==
  ASSUME NEW given, NEW x \in Nat, Shared(given, x), NEW bucket \in Buckets \ {"PRINCIPAL"},
         NEW owed \in Int
  PROVE  /\ Shared(Suggest(given, bucket, owed), x)
         /\ SumOf(Suggest(given, bucket, owed).lines, {"PRINCIPAL"})
              = SumOf(given.lines, {"PRINCIPAL"})
<1> DEFINE part == Min({given.left, owed})
           more == Append(given.lines, Line(bucket, part))
<1>0. given.left \in Nat /\ given.lines \in Lines
      /\ SumOf(given.lines, Buckets) + given.left = x
  BY DEF Shared
<1>1. part \in Int /\ part <= given.left
  <2>1. given.left \in Int BY <1>0
  <2> QED BY <2>1, MinOfTwo
<1>2. CASE part > 0
  <2>1. part \in Nat /\ given.left - part \in Nat BY <1>0, <1>1, <1>2
  <2>2. Line(bucket, part) \in Suggested /\ Line(bucket, part).bucket = bucket
        /\ Line(bucket, part).amount = part
    BY <2>1 DEF Line, Suggested
  <2>3. Suggest(given, bucket, owed) = [left |-> given.left - part, lines |-> more]
    BY <1>2 DEF Suggest
  <2> HIDE DEF part
  <2>4. more \in Lines
    BY <1>0, <2>2, SumOfLonger
  <2>5. SumOf(more, Buckets) = SumOf(given.lines, Buckets) + part
    BY <1>0, <2>2, SumOfLonger
  <2>6. SumOf(more, {"PRINCIPAL"}) = SumOf(given.lines, {"PRINCIPAL"})
    <3>1. SumOf(given.lines, {"PRINCIPAL"}) \in Nat BY <1>0, <2>2, SumOfLonger
    <3>2. bucket \notin {"PRINCIPAL"} OBVIOUS
    <3> QED BY <1>0, <2>2, <3>1, <3>2, SumOfLonger
  <2>7. SumOf(given.lines, Buckets) \in Nat BY <1>0, <2>2, SumOfLonger
  <2> QED BY <1>0, <2>1, <2>3, <2>4, <2>5, <2>6, <2>7 DEF Shared
<1>3. CASE ~ (part > 0) BY <1>3 DEF Suggest
<1> QED BY <1>2, <1>3

\* the loop over the fees, round by round
FeeRound(g, x, loan, fees, n) ==
  IF n = 0 THEN Suggest([left |-> x, lines |-> << >>], "INTEREST", loan.accrued)
           ELSE Suggest(g[n - 1], "FEE", Owing(fees[n]))
FeeRounds(x, loan, fees) ==
  CHOOSE g : g = [n \in 0 .. Len(fees) |-> FeeRound(g, x, loan, fees, n)]

(* The loop has a result: it is built round by round, and of the rounds     *)
(* that could not be reached one would be the first.                        *)
LEMMA FeeRoundsExist ==
  ASSUME NEW x, NEW loan, NEW fees \in Seq(Fees)
  PROVE  /\ InterestAndFees(x, loan, fees) = FeeRounds(x, loan, fees)[Len(fees)]
         /\ \A n \in 0 .. Len(fees) :
              FeeRounds(x, loan, fees)[n] = FeeRound(FeeRounds(x, loan, fees), x, loan, fees, n)
<1> DEFINE Good(m) == \E g : g = [n \in 0 .. m |-> FeeRound(g, x, loan, fees, n)]
           Bad == {m \in Nat : ~ Good(m)}
<1>1. Good(0)
  <2> DEFINE g == [n \in 0 .. 0 |-> FeeRound(<< >>, x, loan, fees, 0)]
  <2>1. g = [n \in 0 .. 0 |-> FeeRound(g, x, loan, fees, n)] BY DEF FeeRound
  <2> QED BY <2>1
<1>2. ASSUME NEW m \in Nat, Good(m) PROVE Good(m + 1)
  <2>1. PICK h : h = [n \in 0 .. m |-> FeeRound(h, x, loan, fees, n)] BY <1>2
  <2> DEFINE g == [n \in 0 .. m + 1 |-> FeeRound(h, x, loan, fees, n)]
  <2>2. \A n \in 0 .. m : g[n] = h[n] BY <2>1
  <2>3. ASSUME NEW n \in 0 .. m + 1 PROVE g[n] = FeeRound(g, x, loan, fees, n)
    <3>1. CASE n = 0 BY <3>1 DEF FeeRound
    <3>2. CASE n # 0
      <4>1. n - 1 \in 0 .. m BY <3>2
      <4> QED BY <4>1, <2>2, <3>2 DEF FeeRound
    <3> QED BY <3>1, <3>2
  <2>4. g = [n \in 0 .. m + 1 |-> FeeRound(g, x, loan, fees, n)] BY <2>3
  <2> QED BY <2>4
<1> HIDE DEF Good
<1>3. Bad = {}
  <2> SUFFICES ASSUME Bad # {} PROVE FALSE OBVIOUS
  <2>1. PICK m \in Bad : \A n \in Bad : m <= n BY LeastNatural
  <2>2. m # 0 BY <1>1
  <2>3. m - 1 \in Nat /\ m - 1 \notin Bad BY <2>1, <2>2
  <2>4. Good(m) BY <2>3, <1>2
  <2> QED BY <2>4
<1>4. Len(fees) \in Nat OBVIOUS
<1>5. \E g : g = [n \in 0 .. Len(fees) |-> FeeRound(g, x, loan, fees, n)]
  BY <1>3, <1>4 DEF Good
<1>6. FeeRounds(x, loan, fees)
        = [n \in 0 .. Len(fees) |-> FeeRound(FeeRounds(x, loan, fees), x, loan, fees, n)]
  BY <1>5 DEF FeeRounds
<1>7. InterestAndFees(x, loan, fees) = FeeRounds(x, loan, fees)[Len(fees)]
  BY DEF InterestAndFees, FeeRounds, FeeRound
<1>8. ASSUME NEW n \in 0 .. Len(fees)
      PROVE  FeeRounds(x, loan, fees)[n] = FeeRound(FeeRounds(x, loan, fees), x, loan, fees, n)
  BY <1>6
<1> QED BY <1>7, <1>8

(* After the loop the payment is what was given out and what is left.       *)
LEMMA FeesShare ==
  ASSUME NEW x \in Nat, NEW loan \in LoanRow, NEW fees \in Seq(Fees),
         \A f \in Fees : Owing(f) \in Int
  PROVE  /\ Shared(InterestAndFees(x, loan, fees), x)
         /\ SumOf(InterestAndFees(x, loan, fees).lines, {"PRINCIPAL"}) = 0
<1> DEFINE g == FeeRounds(x, loan, fees)
           OK(given) == Shared(given, x) /\ SumOf(given.lines, {"PRINCIPAL"}) = 0
           Bad == {n \in 0 .. Len(fees) : ~ OK(g[n])}
<1>0. Len(fees) \in Nat /\ \A n \in 1 .. Len(fees) : fees[n] \in Fees OBVIOUS
<1>1. \A n \in 0 .. Len(fees) : g[n] = FeeRound(g, x, loan, fees, n) BY FeeRoundsExist
<1>2. OK(g[0])
  <2> DEFINE none == [left |-> x, lines |-> << >>]
  <2>1. Shared(none, x) /\ SumOf(none.lines, {"PRINCIPAL"}) = 0
    BY SumOfNothing DEF Shared
  <2>2. g[0] = Suggest(none, "INTEREST", loan.accrued) BY <1>0, <1>1 DEF FeeRound
  <2>3. "INTEREST" \in Buckets \ {"PRINCIPAL"} /\ loan.accrued \in Int
    BY DEF Buckets, LoanRow
  <2> HIDE DEF none
  <2> QED BY <2>1, <2>2, <2>3, SuggestShares
<1>3. ASSUME NEW n \in 1 .. Len(fees), OK(g[n - 1]) PROVE OK(g[n])
  <2>1. n \in 0 .. Len(fees) /\ n # 0 BY <1>0
  <2>2. g[n] = Suggest(g[n - 1], "FEE", Owing(fees[n])) BY <1>1, <2>1 DEF FeeRound
  <2>3. "FEE" \in Buckets \ {"PRINCIPAL"} /\ Owing(fees[n]) \in Int BY <1>0 DEF Buckets
  <2> DEFINE before == g[n - 1]
             owed == Owing(fees[n])
  <2>4. Shared(before, x) /\ SumOf(before.lines, {"PRINCIPAL"}) = 0 BY <1>3
  <2>5. owed \in Int /\ g[n] = Suggest(before, "FEE", owed) BY <2>2, <2>3
  <2> HIDE DEF g, before, owed
  <2>6. Shared(Suggest(before, "FEE", owed), x)
        /\ SumOf(Suggest(before, "FEE", owed).lines, {"PRINCIPAL"}) = 0
    BY <2>3, <2>4, <2>5, SuggestShares
  <2> QED BY <2>5, <2>6
<1> HIDE DEF g, OK
<1>4. Bad = {}
  <2> SUFFICES ASSUME Bad # {} PROVE FALSE OBVIOUS
  <2>1. Bad \subseteq Nat OBVIOUS
  <2>2. PICK n \in Bad : \A m \in Bad : n <= m BY <2>1, LeastNatural
  <2>3. n # 0 BY <1>2, <2>2
  <2>4. n - 1 \in 0 .. Len(fees) /\ n \in 1 .. Len(fees) /\ ~ (n <= n - 1) BY <2>2, <2>3, <1>0
  <2>5. OK(g[n - 1]) BY <2>2, <2>4
  <2> QED BY <1>3, <2>2, <2>4, <2>5
<1>5. OK(g[Len(fees)]) BY <1>0, <1>4
<1> QED BY <1>5, FeeRoundsExist DEF OK, g

(* What a preview suggests is the amount it was asked about, up to a cent,  *)
(* and no more principal than the loan it read owes.                        *)
LEMMA SuggestionsShare ==
  ASSUME NEW x \in Nat, NEW loan \in LoanRow, NEW fees \in Seq(Fees),
         \A f \in Fees : Owing(f) \in Int, NEW lines, lines = Suggestions(x, loan, fees)
  PROVE  /\ lines \in Lines
         /\ SumOf(lines, Buckets) \in Nat /\ SumOf(lines, {"PRINCIPAL"}) \in Nat
         /\ SumOf(lines, Buckets) <= x /\ x - SumOf(lines, Buckets) <= Tolerance
         /\ SumOf(lines, {"PRINCIPAL"}) <= loan.outstanding
<1> DEFINE given == InterestAndFees(x, loan, fees)
           all == SuggestPrincipal(given, loan.outstanding)
           part == Min({given.left, loan.outstanding})
           rest == Line("PREPAYMENT", all.left)
<1>1. Shared(given, x) /\ SumOf(given.lines, {"PRINCIPAL"}) = 0 BY FeesShare
<1>2. loan.outstanding \in Nat BY DEF LoanRow
<1> HIDE DEF given
<1>3. Shared(all, x) /\ SumOf(all.lines, {"PRINCIPAL"}) <= loan.outstanding
  <2>1. CASE given.left > 0
    <3>0. given.left \in Nat /\ given.lines \in Lines
          /\ SumOf(given.lines, Buckets) + given.left = x
      BY <1>1 DEF Shared
    <3>1. part \in Int /\ part <= given.left /\ part <= loan.outstanding
      <4>1. given.left \in Int /\ loan.outstanding \in Int BY <3>0, <1>2
      <4> QED BY <4>1, MinOfTwo
    <3>2. part >= 0
      <4>1. part \in {given.left, loan.outstanding}
        <5>1. given.left \in Int /\ loan.outstanding \in Int BY <3>0, <1>2
        <5> QED BY <5>1, MinOfTwo
      <4> QED BY <4>1, <3>0, <1>2
    <3>3. Line("PRINCIPAL", part) \in Suggested /\ Line("PRINCIPAL", part).bucket = "PRINCIPAL"
          /\ Line("PRINCIPAL", part).amount = part
      BY <3>1, <3>2 DEF Line, Suggested, Buckets
    <3>4. all = [left |-> given.left - part,
                 lines |-> Append(given.lines, Line("PRINCIPAL", part))]
      BY <2>1 DEF SuggestPrincipal
    <3> HIDE DEF part, all
    <3>5. Append(given.lines, Line("PRINCIPAL", part)) \in Lines BY <3>0, <3>3, SumOfLonger
    <3>6. SumOf(Append(given.lines, Line("PRINCIPAL", part)), Buckets)
            = SumOf(given.lines, Buckets) + part
      BY <3>0, <3>3, SumOfLonger DEF Buckets
    <3>7. SumOf(Append(given.lines, Line("PRINCIPAL", part)), {"PRINCIPAL"})
            = SumOf(given.lines, {"PRINCIPAL"}) + part
      BY <3>0, <3>3, SumOfLonger
    <3>8. SumOf(given.lines, Buckets) \in Nat BY <3>0, <3>3, SumOfLonger
    <3> QED BY <3>0, <3>1, <3>2, <3>4, <3>5, <3>6, <3>7, <3>8, <1>1, <1>2 DEF Shared
  <2>2. CASE ~ (given.left > 0)
    BY <2>2, <1>1, <1>2 DEF SuggestPrincipal
  <2> QED BY <2>1, <2>2
<1> HIDE DEF all
<1>4. all.left \in Nat /\ all.lines \in Lines /\ SumOf(all.lines, Buckets) + all.left = x
  BY <1>3 DEF Shared
<1>5. rest \in Suggested /\ rest.bucket = "PREPAYMENT" /\ rest.amount = all.left
  BY <1>4 DEF Line, Suggested, Buckets
<1>6. lines = IF all.left > Tolerance THEN Append(all.lines, rest) ELSE all.lines
  BY DEF Suggestions, all, given
<1> HIDE DEF rest
<1>7. SumOf(all.lines, Buckets) \in Nat /\ SumOf(all.lines, {"PRINCIPAL"}) \in Nat
  BY <1>4, <1>5, SumOfLonger
<1>8. CASE all.left > Tolerance
  <2>1. Append(all.lines, rest) \in Lines
        /\ SumOf(Append(all.lines, rest), Buckets) = SumOf(all.lines, Buckets) + all.left
    BY <1>4, <1>5, SumOfLonger DEF Buckets
  <2>2. SumOf(Append(all.lines, rest), {"PRINCIPAL"}) = SumOf(all.lines, {"PRINCIPAL"})
    <3>1. "PREPAYMENT" \notin {"PRINCIPAL"} OBVIOUS
    <3> QED BY <1>4, <1>5, <1>7, <3>1, SumOfLonger
  <2>3. SumOf(lines, Buckets) = x BY <1>4, <1>6, <1>8, <2>1
  <2>4. SumOf(lines, {"PRINCIPAL"}) = SumOf(all.lines, {"PRINCIPAL"}) BY <1>6, <1>8, <2>2
  <2>5. lines \in Lines BY <1>6, <1>8, <2>1
  <2>6. x - x <= Tolerance BY DEF Tolerance
  <2> QED BY <1>3, <1>7, <2>3, <2>4, <2>5, <2>6
<1>9. CASE ~ (all.left > Tolerance)
  <2>1. lines = all.lines BY <1>6, <1>9
  <2> QED BY <2>1, <1>3, <1>4, <1>7, <1>9 DEF Tolerance
<1> QED BY <1>8, <1>9

\* the lines the client keeps, one after the other
KeptRound(g, lines, n) ==
  IF n = 0 THEN << >>
  ELSE IF lines[n].amount > 0 THEN Append(g[n - 1], lines[n]) ELSE g[n - 1]
KeptRounds(lines) == CHOOSE g : g = [n \in 0 .. Len(lines) |-> KeptRound(g, lines, n)]

(* The choice of the lines has a result.                                    *)
LEMMA KeptRoundsExist ==
  ASSUME NEW lines \in Lines
  PROVE  /\ Payable(lines) = KeptRounds(lines)[Len(lines)]
         /\ \A n \in 0 .. Len(lines) : KeptRounds(lines)[n] = KeptRound(KeptRounds(lines), lines, n)
<1> DEFINE Good(m) == \E g : g = [n \in 0 .. m |-> KeptRound(g, lines, n)]
           Bad == {m \in Nat : ~ Good(m)}
<1>1. Good(0)
  <2> DEFINE g == [n \in 0 .. 0 |-> << >>]
  <2>1. g = [n \in 0 .. 0 |-> KeptRound(g, lines, n)] BY DEF KeptRound
  <2> QED BY <2>1
<1>2. ASSUME NEW m \in Nat, Good(m) PROVE Good(m + 1)
  <2>1. PICK h : h = [n \in 0 .. m |-> KeptRound(h, lines, n)] BY <1>2
  <2> DEFINE g == [n \in 0 .. m + 1 |-> KeptRound(h, lines, n)]
  <2>2. \A n \in 0 .. m : g[n] = h[n] BY <2>1
  <2>3. ASSUME NEW n \in 0 .. m + 1 PROVE g[n] = KeptRound(g, lines, n)
    <3>1. CASE n = 0 BY <3>1 DEF KeptRound
    <3>2. CASE n # 0
      <4>1. n - 1 \in 0 .. m BY <3>2
      <4> QED BY <4>1, <2>2, <3>2 DEF KeptRound
    <3> QED BY <3>1, <3>2
  <2>4. g = [n \in 0 .. m + 1 |-> KeptRound(g, lines, n)] BY <2>3
  <2> QED BY <2>4
<1> HIDE DEF Good
<1>3. Bad = {}
  <2> SUFFICES ASSUME Bad # {} PROVE FALSE OBVIOUS
  <2>1. PICK m \in Bad : \A n \in Bad : m <= n BY LeastNatural
  <2>2. m # 0 BY <1>1
  <2>3. m - 1 \in Nat /\ m - 1 \notin Bad BY <2>1, <2>2
  <2>4. Good(m) BY <2>3, <1>2
  <2> QED BY <2>4
<1>4. Len(lines) \in Nat BY DEF Lines
<1>5. \E g : g = [n \in 0 .. Len(lines) |-> KeptRound(g, lines, n)]
  BY <1>3, <1>4 DEF Good
<1>6. KeptRounds(lines) = [n \in 0 .. Len(lines) |-> KeptRound(KeptRounds(lines), lines, n)]
  BY <1>5 DEF KeptRounds
<1>7. Payable(lines) = KeptRounds(lines)[Len(lines)]
  BY DEF Payable, KeptRounds, KeptRound
<1>8. ASSUME NEW n \in 0 .. Len(lines)
      PROVE  KeptRounds(lines)[n] = KeptRound(KeptRounds(lines), lines, n)
  BY <1>6
<1> QED BY <1>7, <1>8

(* The start of a list, one line longer.                                    *)
LEMMA StartOfLines ==
  ASSUME NEW lines \in Lines
  PROVE  /\ SubSeq(lines, 1, 0) = << >> /\ SubSeq(lines, 1, Len(lines)) = lines
         /\ \A n \in 1 .. Len(lines) :
              /\ SubSeq(lines, 1, n - 1) \in Lines /\ lines[n] \in Suggested
              /\ SubSeq(lines, 1, n) = Append(SubSeq(lines, 1, n - 1), lines[n])
<1>0. Len(lines) \in Nat /\ \A n \in 1 .. Len(lines) : lines[n] \in Suggested BY DEF Lines
<1>1. SubSeq(lines, 1, 0) = << >> OBVIOUS
<1>2. SubSeq(lines, 1, Len(lines)) = lines BY DEF Lines
<1>3. ASSUME NEW n \in 1 .. Len(lines)
      PROVE  /\ SubSeq(lines, 1, n - 1) \in Lines
             /\ SubSeq(lines, 1, n) = Append(SubSeq(lines, 1, n - 1), lines[n])
  <2>1. SubSeq(lines, 1, n - 1) \in Lines BY <1>0 DEF Lines
  <2>2. SubSeq(lines, 1, n) \in Lines BY <1>0 DEF Lines
  <2>3. Len(SubSeq(lines, 1, n)) = n /\ Len(SubSeq(lines, 1, n - 1)) = n - 1 BY <1>0 DEF Lines
  <2>4. \A m \in 1 .. n : SubSeq(lines, 1, n)[m] = lines[m] BY <1>0 DEF Lines
  <2>5. \A m \in 1 .. n - 1 : SubSeq(lines, 1, n - 1)[m] = lines[m] BY <1>0 DEF Lines
  <2> DEFINE a == SubSeq(lines, 1, n)
             b == Append(SubSeq(lines, 1, n - 1), lines[n])
  <2>6. b \in Lines /\ Len(b) = n /\ \A m \in 1 .. n : b[m] = lines[m]
    BY <1>0, <2>1, <2>3, <2>5 DEF Lines
  <2>7. a = b BY <2>2, <2>3, <2>4, <2>6 DEF Lines
  <2> QED BY <2>1, <2>7
<1> QED BY <1>0, <1>1, <1>2, <1>3

(* Lines of zero add nothing: what is posted sums to what was suggested.    *)
LEMMA PayableShares ==
  ASSUME NEW lines \in Lines, NEW buckets
  PROVE  Payable(lines) \in Seq(Allocation) /\ SumOf(Payable(lines), buckets) = SumOf(lines, buckets)
<1> DEFINE g == KeptRounds(lines)
           start(n) == SubSeq(lines, 1, n)
           OK(n) == /\ g[n] \in Lines /\ g[n] \in Seq(Allocation)
                    /\ SumOf(g[n], buckets) = SumOf(start(n), buckets)
           Bad == {n \in 0 .. Len(lines) : ~ OK(n)}
<1>0. Len(lines) \in Nat BY DEF Lines
<1>1. \A n \in 0 .. Len(lines) : g[n] = KeptRound(g, lines, n) BY KeptRoundsExist
<1>2. OK(0)
  <2>1. g[0] = << >> BY <1>0, <1>1 DEF KeptRound
  <2>2. << >> \in Lines /\ << >> \in Seq(Allocation) BY DEF Lines
  <2> QED BY <2>1, <2>2, StartOfLines
<1>3. ASSUME NEW n \in 1 .. Len(lines), OK(n - 1) PROVE OK(n)
  <2> DEFINE before == g[n - 1]
             first == start(n - 1)
             a == lines[n]
  <2>1. /\ before \in Lines /\ before \in Seq(Allocation)
        /\ SumOf(before, buckets) = SumOf(first, buckets)
    BY <1>3
  <2>2. first \in Lines /\ a \in Suggested /\ start(n) = Append(first, a) BY StartOfLines
  <2>3. n \in 0 .. Len(lines) /\ n # 0 BY <1>0
  <2>4. g[n] = IF a.amount > 0 THEN Append(before, a) ELSE before
    BY <1>1, <2>3 DEF KeptRound
  <2> HIDE DEF g, start, before, first, a
  <2>5. /\ SumOf(Append(first, a), buckets)
             = SumOf(first, buckets) + (IF a.bucket \in buckets THEN a.amount ELSE 0)
        /\ SumOf(first, buckets) \in Nat
    BY <2>2, SumOfLonger
  <2>6. CASE a.amount > 0
    <3>1. a \in Allocation BY <2>2, <2>6 DEF Suggested, Allocation
    <3>2. Append(before, a) \in Seq(Allocation) BY <2>1, <3>1
    <3>3. Append(before, a) \in Lines
          /\ SumOf(Append(before, a), buckets)
               = SumOf(before, buckets) + (IF a.bucket \in buckets THEN a.amount ELSE 0)
      BY <2>1, <2>2, SumOfLonger
    <3> QED BY <2>1, <2>2, <2>4, <2>5, <2>6, <3>2, <3>3
  <2>7. CASE ~ (a.amount > 0)
    <3>1. a.amount = 0 BY <2>2, <2>7 DEF Suggested
    <3>2. SumOf(Append(first, a), buckets) = SumOf(first, buckets) BY <2>5, <3>1
    <3> QED BY <2>1, <2>2, <2>4, <2>7, <3>2
  <2> QED BY <2>6, <2>7
<1> HIDE DEF g, OK
<1>4. Bad = {}
  <2> SUFFICES ASSUME Bad # {} PROVE FALSE OBVIOUS
  <2>1. Bad \subseteq Nat OBVIOUS
  <2>2. PICK n \in Bad : \A m \in Bad : n <= m BY <2>1, LeastNatural
  <2>3. n # 0 BY <1>2, <2>2
  <2>4. n - 1 \in 0 .. Len(lines) /\ n \in 1 .. Len(lines) /\ ~ (n <= n - 1) BY <2>2, <2>3, <1>0
  <2>5. OK(n - 1) BY <2>2, <2>4
  <2> QED BY <1>3, <2>2, <2>4, <2>5
<1>5. OK(Len(lines)) BY <1>0, <1>4
<1> QED BY <1>5, KeptRoundsExist, StartOfLines DEF OK, g

\* what session s has seen of its preview, and how far the payment posted from it came
PreviewOK(s) ==
  LET p == preview[s] IN
  /\ p.at \in {"none", "fees", "shown", "posted"}
  /\ p.at # "none" => p.of \in Loans /\ p.amount \in Nat \ {0} /\ p.loan \in LoanRow
  /\ p.at \in {"shown", "posted"} =>
       /\ Payable(p.suggestions) \in Seq(Allocation)
       /\ SumOf(Payable(p.suggestions), Buckets) <= p.amount
       /\ p.amount - SumOf(Payable(p.suggestions), Buckets) <= Tolerance
       /\ SumOf(Payable(p.suggestions), {"PRINCIPAL"}) <= p.loan.outstanding
  /\ p.at = "posted" <=> pc[s] # "idle"
  /\ p.at = "posted" =>
       /\ req[s] = [loan |-> p.of, amount |-> p.amount, allocations |-> Payable(p.suggestions)]
       /\ snap[s] \in LoanRow
       /\ pc[s] = "rejected" => snap[s].status \notin OpenStatuses \/ ~ Valid(req[s], snap[s])

PreviewInv == DOMAIN preview = Previewers /\ \A s \in Previewers : PreviewOK(s)

(* Nobody has previewed yet.                                                *)
LEMMA InitPreview == PreviewInit => PreviewInv
<1> SUFFICES ASSUME PreviewInit PROVE PreviewInv OBVIOUS
<1>1. Previewers \subseteq Sessions BY PreviewConstants DEF Sessions
<1>2. ASSUME NEW s \in Previewers PROVE preview[s] = NoPreview /\ pc[s] = "idle"
  BY <1>1 DEF PreviewInit, Init
<1>3. DOMAIN preview = Previewers BY DEF PreviewInit
<1> QED BY <1>2, <1>3 DEF PreviewInv, PreviewOK, NoPreview

(* A preview and a session that stay as they are.                           *)
LEMMA SamePreview ==
  ASSUME NEW s \in Previewers, PreviewOK(s), preview'[s] = preview[s],
         pc'[s] = pc[s], req'[s] = req[s], snap'[s] = snap[s]
  PROVE  PreviewOK(s)'
BY DEF PreviewOK

(* A session of applyPayment under way keeps its request and its copy of    *)
(* the loan, and is not refused any more.                                   *)
LEMMA UnderWay ==
  ASSUME PaymentsInv, PaymentsInv', NEW s \in Applies, pc[s] # "idle", Step(s) \/ Fail(s)
  PROVE  req'[s] = req[s] /\ snap'[s] = snap[s] /\ pc'[s] \notin {"idle", "rejected"}
<1>0. s \in Sessions /\ s \notin Reverses /\ s \notin Waives
  BY PaymentsConstants DEF Sessions
<1>1. DOMAIN pc = Sessions BY DEF PaymentsInv, Shapes
<1>2. CASE ReadNumber(s) BY <1>0, <1>1, <1>2 DEF ReadNumber, Goto
<1>3. CASE InsertPayment(s)
  <2>1. UNCHANGED locals /\ pc'[s] \in {"aborted", "alloc"}
    BY <1>0, <1>1, <1>3 DEF InsertPayment, Goto
  <2> QED BY <2>1 DEF locals
<1>4. CASE InsertAllocation(s) BY <1>0, <1>1, <1>4 DEF InsertAllocation, Goto, AfterItem, locals
<1>5. CASE NextAllocation(s) BY <1>0, <1>1, <1>5 DEF NextAllocation, Goto
<1>6. CASE UpdateLoan(s) BY <1>0, <1>1, <1>6 DEF UpdateLoan, Goto, locals
<1>7. CASE RefreshDelinquency(s) BY <1>0, <1>1, <1>7 DEF RefreshDelinquency, Goto, locals
<1>8. CASE MarkReversed(s) BY <1>0, <1>1, <1>8 DEF MarkReversed, Goto, locals
<1>9. CASE ReadItem(s) BY <1>0, <1>1, <1>9 DEF ReadItem, Goto
<1>10. CASE ReadFee(s) BY <1>0, <1>1, <1>10 DEF ReadFee, Goto
<1>11. CASE NoFee(s) BY <1>0, <1>1, <1>11 DEF NoFee, Goto, locals
<1>12. CASE CompareColumns(s) BY <1>0, <1>1, <1>12 DEF CompareColumns, Goto
<1>13. CASE SaveColumns(s)
  BY <1>0, <1>1, <1>13 DEF SaveColumns, Goto, AfterSave, AfterItem, locals
<1>14. CASE Commit(s) BY <1>0, <1>1, <1>14 DEF Commit, Goto, locals
<1>15. CASE BreakDeadlock(s) \/ Fail(s)
  <2>1. Abort(s) BY <1>15 DEF BreakDeadlock, Fail
  <2> QED BY <1>0, <1>1, <2>1 DEF Abort, Goto, locals
<1>16. ~ LoadLoan(s) /\ ~ LoadPayment(s) /\ ~ ReverseAllocation(s) /\ ~ WaiveFee(s)
  BY <1>0 DEF LoadLoan, Load, LoadPayment, ReverseAllocation, WaiveFee
<1> QED BY <1>2, <1>3, <1>4, <1>5, <1>6, <1>7, <1>8, <1>9, <1>10, <1>11, <1>12, <1>13,
           <1>14, <1>15, <1>16 DEF Step

(* A step of a session leaves the others alone.                             *)
LEMMA OthersStay ==
  ASSUME PaymentsInv, PaymentsInv', NEW s \in Sessions, Step(s) \/ Fail(s),
         NEW t \in Sessions \ {s}
  PROVE  pc'[t] = pc[t] /\ req'[t] = req[t] /\ snap'[t] = snap[t]
<1>1. CASE Commit(s)
  <2>1. DOMAIN pc = Sessions BY DEF PaymentsInv, Shapes
  <2> QED BY <1>1, <2>1 DEF Commit, Goto, locals
<1>2. CASE ~ Commit(s)
  <2>1. Own(s) BY <1>2, InnerIsOwn DEF Inner
  <2> QED BY <2>1 DEF Own
<1> QED BY <1>1, <1>2

(* A preview only reads.                                                    *)
LEMMA PreviewReads ==
  ASSUME PaymentsInv, PreviewInv, NEW s \in Previewers, PreviewLoan(s) \/ PreviewFees(s)
  PROVE  PreviewInv'
<1>0. UNCHANGED vars /\ UNCHANGED <<db, pc, req, snap>>
  BY DEF PreviewLoan, PreviewFees, vars, locals
<1>1. DOMAIN preview = Previewers /\ \A t \in Previewers : PreviewOK(t) BY DEF PreviewInv
<1>2. DOMAIN preview' = Previewers /\ \A t \in Previewers \ {s} : preview'[t] = preview[t]
  BY <1>1 DEF PreviewLoan, PreviewFees
<1>3. \A t \in Previewers \ {s} : PreviewOK(t)'
  <2> SUFFICES ASSUME NEW t \in Previewers \ {s} PROVE PreviewOK(t)' OBVIOUS
  <2> QED BY <1>0, <1>1, <1>2, SamePreview
<1>4. Database BY DEF PaymentsInv
<1>5. CASE PreviewLoan(s)
  <2>1. PICK l \in Loans, x \in Amounts :
          preview' = [preview EXCEPT ![s] = [NoPreview EXCEPT !.at = "fees", !.of = l,
                                                             !.amount = x, !.loan = db[l]]]
    BY <1>5 DEF PreviewLoan
  <2>2. db[l] \in LoanRow BY <1>4, RowKinds DEF Database
  <2>3. x \in Nat \ {0} BY PreviewConstants
  <2>4. /\ preview'[s].at = "fees" /\ preview'[s].of = l /\ preview'[s].amount = x
        /\ preview'[s].loan = db[l]
    BY <1>1, <2>1 DEF NoPreview
  <2>5. pc'[s] = "idle" BY <1>0, <1>5 DEF PreviewLoan
  <2> QED BY <1>2, <1>3, <2>2, <2>3, <2>4, <2>5 DEF PreviewInv, PreviewOK
<1>6. CASE PreviewFees(s)
  <2> DEFINE p == preview[s]
             lines == Suggestions(p.amount, p.loan, FeesByDue[p.of])
  <2>1. p.at = "fees" /\ p.of \in Loans /\ p.amount \in Nat \ {0} /\ p.loan \in LoanRow
        /\ pc[s] = "idle"
    BY <1>1, <1>6 DEF PreviewFees, PreviewOK
  <2>2. preview' = [preview EXCEPT ![s].at = "shown", ![s].suggestions = lines]
    BY <1>6 DEF PreviewFees
  <2>3. FeesByDue[p.of] \in Seq(Fees) BY <2>1, PreviewConstants
  <2>4. ASSUME NEW f \in Fees PROVE Owing(f) \in Int
    <3>1. db[f] \in FeeRow \cup {None} BY <1>4, RowKinds DEF Database
    <3>2. FeeAmount[f] \in Nat BY PaymentsConstants
    <3> QED BY <3>1, <3>2 DEF Owing, FeeRow
  <2> HIDE DEF p
  <2>5. /\ lines \in Lines
        /\ SumOf(lines, Buckets) <= p.amount /\ p.amount - SumOf(lines, Buckets) <= Tolerance
        /\ SumOf(lines, {"PRINCIPAL"}) <= p.loan.outstanding
    <3>1. p.amount \in Nat BY <2>1
    <3> QED BY <2>1, <2>3, <2>4, <3>1, SuggestionsShare
  <2>6. /\ Payable(lines) \in Seq(Allocation)
        /\ SumOf(Payable(lines), Buckets) = SumOf(lines, Buckets)
        /\ SumOf(Payable(lines), {"PRINCIPAL"}) = SumOf(lines, {"PRINCIPAL"})
    BY <2>5, PayableShares
  <2> HIDE DEF lines
  <2>7. /\ preview'[s].at = "shown" /\ preview'[s].of = p.of /\ preview'[s].amount = p.amount
        /\ preview'[s].loan = p.loan /\ preview'[s].suggestions = lines
    BY <1>1, <2>2 DEF p
  <2>8. pc'[s] = "idle" BY <1>0, <2>1
  <2>9. PreviewOK(s)' BY <2>1, <2>5, <2>6, <2>7, <2>8 DEF PreviewOK, SumOf
  <2> QED BY <1>2, <1>3, <2>9 DEF PreviewInv
<1> QED BY <1>5, <1>6

(* The suggestions are a request like any other.                            *)
LEMMA PostIsRequest ==
  ASSUME PreviewInv, NEW s \in Previewers, PostSuggestions(s)
  PROVE  \E q : /\ WellFormed(q) /\ Load(s, q)
                /\ q = [loan |-> preview[s].of, amount |-> preview[s].amount,
                        allocations |-> Payable(preview[s].suggestions)]
<1> DEFINE q == [loan |-> preview[s].of, amount |-> preview[s].amount,
                 allocations |-> Payable(preview[s].suggestions)]
<1>1. PreviewOK(s) /\ preview[s].at = "shown" BY DEF PreviewInv, PostSuggestions
<1>2. preview[s].of \in Loans /\ Payable(preview[s].suggestions) \in Seq(Allocation)
  BY <1>1 DEF PreviewOK
<1>3. WellFormed(q) BY <1>2 DEF WellFormed
<1>4. Load(s, q) BY DEF PostSuggestions
<1> QED BY <1>3, <1>4

(* Posting them.                                                            *)
LEMMA PostKeeps ==
  ASSUME PaymentsInv, PreviewInv, NEW s \in Previewers, PostSuggestions(s)
  PROVE  PreviewInv'
<1>0. s \in Sessions BY PreviewConstants DEF Sessions
<1>1. DOMAIN preview = Previewers /\ \A t \in Previewers : PreviewOK(t) BY DEF PreviewInv
<1>2. PICK q : /\ WellFormed(q) /\ Load(s, q)
               /\ q = [loan |-> preview[s].of, amount |-> preview[s].amount,
                       allocations |-> Payable(preview[s].suggestions)]
  BY PostIsRequest
<1>3. Shapes /\ Database BY DEF PaymentsInv
<1>4. /\ req'[s] = q /\ snap'[s] = db[q.loan]
      /\ pc'[s] = IF db[q.loan].status \in OpenStatuses /\ Valid(q, db[q.loan])
                    THEN "number" ELSE "rejected"
      /\ \A t \in Sessions \ {s} : pc'[t] = pc[t] /\ req'[t] = req[t] /\ snap'[t] = snap[t]
  BY <1>0, <1>2, <1>3 DEF Load, Goto, Shapes
<1>5. db[q.loan] \in LoanRow BY <1>2, <1>3, RowKinds DEF WellFormed, Database
<1>6. preview' = [preview EXCEPT ![s].at = "posted"] /\ preview[s].at = "shown"
  BY DEF PostSuggestions
<1>7. /\ DOMAIN preview' = Previewers
      /\ \A t \in Previewers \ {s} : preview'[t] = preview[t]
      /\ preview'[s].at = "posted" /\ preview'[s].of = preview[s].of
      /\ preview'[s].amount = preview[s].amount /\ preview'[s].loan = preview[s].loan
      /\ preview'[s].suggestions = preview[s].suggestions
  <2> DEFINE p == preview[s]
  <2>1. preview'[s] = [p EXCEPT !.at = "posted"] BY <1>1, <1>6
  <2>2. p.at = "shown" BY <1>6
  <2>3. DOMAIN preview' = Previewers /\ \A t \in Previewers \ {s} : preview'[t] = preview[t]
    BY <1>1, <1>6
  <2> QED BY <1>1, <1>6, <2>1, <2>2, <2>3
<1>8. ASSUME NEW t \in Previewers \ {s} PROVE PreviewOK(t)'
  <2>1. t \in Sessions \ {s} BY PreviewConstants DEF Sessions
  <2> QED BY <1>1, <1>4, <1>7, <2>1, SamePreview
<1>9. PreviewOK(s)'
  <2>1. PreviewOK(s) BY <1>1
  <2>2. pc'[s] # "idle" BY <1>4
  <2>3. pc'[s] = "rejected" => snap'[s].status \notin OpenStatuses \/ ~ Valid(q, snap'[s])
    BY <1>4
  <2>4. Valid(req[s], snap[s])' <=> Valid(req'[s], snap'[s]) BY DEF Valid, SumOf
  <2> QED BY <1>2, <1>4, <1>5, <1>6, <1>7, <2>1, <2>2, <2>3, <2>4 DEF PreviewOK
<1> QED BY <1>7, <1>8, <1>9 DEF PreviewInv

(* A session of the previewing clients, or any other.                       *)
LEMMA SessionKeepsPreview ==
  ASSUME PaymentsInv, PaymentsInv', PreviewInv, NEW s \in Sessions, Posted(s),
         Step(s) \/ Fail(s), UNCHANGED preview
  PROVE  PreviewInv'
<1>1. DOMAIN preview = Previewers /\ \A t \in Previewers : PreviewOK(t) BY DEF PreviewInv
<1>2. ASSUME NEW t \in Previewers PROVE PreviewOK(t)'
  <2>0. t \in Applies /\ t \in Sessions BY PreviewConstants DEF Sessions
  <2>1. CASE t # s
    <3>1. pc'[t] = pc[t] /\ req'[t] = req[t] /\ snap'[t] = snap[t]
      BY <2>0, <2>1, OthersStay
    <3> QED BY <3>1, <1>1, SamePreview
  <2>2. CASE t = s
    <3>1. preview[s].at = "posted" /\ PreviewOK(s) BY <1>1, <2>2 DEF Posted
    <3>2. pc[s] # "idle" BY <3>1 DEF PreviewOK
    <3>3. req'[s] = req[s] /\ snap'[s] = snap[s] /\ pc'[s] \notin {"idle", "rejected"}
      BY <2>0, <2>2, <3>2, UnderWay
    <3>4. preview'[s] = preview[s] OBVIOUS
    <3>5. preview'[s].at = "posted" BY <3>1, <3>4
    <3> QED BY <2>2, <3>1, <3>3, <3>4, <3>5 DEF PreviewOK
  <2> QED BY <2>1, <2>2
<1> QED BY <1>1, <1>2 DEF PreviewInv

(* Every step of a client who previews, or beside one, keeps everything.    *)
LEMMA PreviewStep ==
  PaymentsInv /\ Balances /\ Covers /\ PreviewInv /\ [PreviewNext]_previewVars
    => (PaymentsInv /\ Balances /\ Covers /\ PreviewInv)'
<1> SUFFICES ASSUME PaymentsInv, Balances, Covers, PreviewInv, [PreviewNext]_previewVars
             PROVE  (PaymentsInv /\ Balances /\ Covers /\ PreviewInv)'
  OBVIOUS
<1>0. Previewers \subseteq Sessions BY PreviewConstants DEF Sessions
<1>n. ASSUME [Next]_vars PROVE (PaymentsInv /\ Balances /\ Covers)'
  BY <1>n, NextKeeps, BalancesKept, CoversKept
<1>s. ASSUME UNCHANGED <<db, pc, req, snap, preview>> PROVE PreviewInv'
  <2>1. \A t \in Previewers : PreviewOK(t) BY DEF PreviewInv
  <2>2. \A t \in Previewers : PreviewOK(t)' BY <1>s, <2>1, SamePreview
  <2> QED BY <1>s, <2>2 DEF PreviewInv
<1>1. ASSUME NEW s \in Previewers, PreviewLoan(s) \/ PreviewFees(s)
      PROVE  (PaymentsInv /\ Balances /\ Covers /\ PreviewInv)'
  <2>1. UNCHANGED vars BY <1>1 DEF PreviewLoan, PreviewFees
  <2>2. PreviewInv' BY <1>1, PreviewReads
  <2> QED BY <1>n, <2>1, <2>2
<1>2. ASSUME NEW s \in Previewers, PostSuggestions(s)
      PROVE  (PaymentsInv /\ Balances /\ Covers /\ PreviewInv)'
  <2>0. s \in Sessions BY <1>0
  <2>1. PICK q : WellFormed(q) /\ Load(s, q) BY <1>2, PostIsRequest
  <2>2. PaymentsInv' BY <2>0, <2>1, LoadStep
  <2>3. ~ Commit(s) BY <2>1 DEF Load, Commit
  <2>4. Inner(s) BY <2>1, <2>3 DEF Inner
  <2>5. Balances' BY <2>0, <2>2, <2>4, BalancesInner
  <2>6. Covers' BY <2>0, <2>2, <2>4, CoversInner
  <2>7. PreviewInv' BY <1>2, PostKeeps
  <2> QED BY <2>2, <2>5, <2>6, <2>7
<1>3. ASSUME NEW s \in Sessions, Posted(s), Step(s) \/ Fail(s), UNCHANGED preview
      PROVE  (PaymentsInv /\ Balances /\ Covers /\ PreviewInv)'
  <2>1. [Next]_vars BY <1>3 DEF Next
  <2>2. (PaymentsInv /\ Balances /\ Covers)' BY <2>1, <1>n
  <2>3. PreviewInv' BY <1>3, <2>2, SessionKeepsPreview
  <2> QED BY <2>2, <2>3
<1>4. ASSUME NEW f \in Fees, CreateFee(f), UNCHANGED preview
      PROVE  (PaymentsInv /\ Balances /\ Covers /\ PreviewInv)'
  <2>1. [Next]_vars BY <1>4 DEF Next
  <2>2. UNCHANGED <<pc, req, snap>> BY <1>4 DEF CreateFee, locals
  <2>3. \A t \in Previewers : PreviewOK(t)
    BY DEF PreviewInv
  <2>4. \A t \in Previewers : PreviewOK(t)' BY <1>4, <2>2, <2>3, SamePreview
  <2>5. PreviewInv' BY <1>4, <2>4 DEF PreviewInv
  <2> QED BY <1>n, <2>1, <2>5
<1>5. CASE UNCHANGED previewVars
  <2>1. UNCHANGED vars /\ UNCHANGED preview BY <1>5 DEF previewVars
  <2>2. UNCHANGED <<db, pc, req, snap>> BY <2>1 DEF vars, locals
  <2>3. PreviewInv' BY <1>s, <2>1, <2>2
  <2> QED BY <1>n, <2>1, <2>3
<1> QED BY <1>1, <1>2, <1>3, <1>4, <1>5 DEF PreviewNext

(* Payments posted from previews are payments like the others: everything   *)
(* above holds with such clients, whatever they ask about and however old   *)
(* the numbers they post are.                                               *)
THEOREM PreviewsInductive ==
  PreviewSpec => [](PaymentsInv /\ Balances /\ Covers /\ PreviewInv)
<1>1. PreviewInit => PaymentsInv /\ Balances /\ Covers /\ PreviewInv
  <2> SUFFICES ASSUME PreviewInit PROVE PaymentsInv /\ Balances /\ Covers /\ PreviewInv OBVIOUS
  <2>1. Init BY DEF PreviewInit
  <2> QED BY <2>1, InitInv, InitBalances, InitCovers, InitPreview
<1> QED BY <1>1, PreviewStep, PTL DEF PreviewSpec

(* So the numbers, the types and the coverage of balances, installments and *)
(* fees are those of the theorems above also with payments from previews.   *)
THEOREM PreviewsKeepPayments ==
  PreviewSpec => [](/\ TypeOK /\ NumbersDense
                    /\ NoReversal => NeverOverReduced /\ PaidItemIsCovered /\ PaidFeeIsCovered)
<1>1. PaymentsInv /\ Balances /\ Covers =>
        /\ TypeOK /\ NumbersDense
        /\ NoReversal => NeverOverReduced /\ PaidItemIsCovered /\ PaidFeeIsCovered
  BY InvTypes, BalancesMean, CoversMean DEF PaymentsInv, Database
<1> QED BY <1>1, PreviewsInductive, PTL

(* previewAllocation never suggests what validateAllocations refuses: a     *)
(* payment posted as it was suggested is refused only if the loan was       *)
(* closed or its balance went down after the preview read it, or if there   *)
(* was nothing to suggest.                                                  *)
THEOREM PreviewsAreAccepted == PreviewSpec => []SuggestionsAreAccepted
<1>1. PaymentsInv /\ PreviewInv => SuggestionsAreAccepted
  <2> SUFFICES ASSUME PaymentsInv, PreviewInv, NEW s \in Previewers, pc[s] = "rejected",
                      snap[s].status \in OpenStatuses, req[s].allocations # << >>
               PROVE  snap[s].outstanding < preview[s].loan.outstanding
    BY DEF SuggestionsAreAccepted
  <2> DEFINE p == preview[s]
             posted == Payable(p.suggestions)
  <2>1. PreviewOK(s) BY DEF PreviewInv
  <2>2. p.at = "posted" BY <2>1 DEF PreviewOK
  <2>3. /\ req[s] = [loan |-> p.of, amount |-> p.amount, allocations |-> posted]
        /\ snap[s] \in LoanRow /\ ~ Valid(req[s], snap[s])
    BY <2>1, <2>2 DEF PreviewOK
  <2>4. /\ p.amount \in Nat /\ p.loan.outstanding \in Nat
        /\ posted \in Seq(Allocation)
        /\ SumOf(posted, Buckets) <= p.amount
        /\ p.amount - SumOf(posted, Buckets) <= Tolerance
        /\ SumOf(posted, {"PRINCIPAL"}) <= p.loan.outstanding
    BY <2>1, <2>2 DEF PreviewOK, LoanRow
  <2>5. snap[s].outstanding \in Nat BY <2>3 DEF LoanRow
  <2> HIDE DEF posted, p
  <2>6. SumOf(posted, Buckets) \in Nat /\ SumOf(posted, {"PRINCIPAL"}) \in Nat
    BY <2>4, SumOfNat
  <2>7. posted # << >> BY <2>3
  <2>8. SumOf(posted, Buckets) - p.amount <= Tolerance BY <2>4, <2>6 DEF Tolerance
  <2>9. ~ (SumOf(posted, {"PRINCIPAL"}) <= snap[s].outstanding + Tolerance)
    BY <2>3, <2>4, <2>7, <2>8 DEF Valid
  <2> QED BY <2>4, <2>5, <2>6, <2>9 DEF Tolerance, p
<1> QED BY <1>1, PreviewsInductive, PTL
=============================================================================
