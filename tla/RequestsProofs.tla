--------------------------- MODULE RequestsProofs ---------------------------
(***************************************************************************)
(* For any requests, tenants and size of the pool, whether or not the      *)
(* policies of the migration bind the session: the numbers of loans, who   *)
(* holds a connection, and what the page that creates loans creates.       *)
(***************************************************************************)
EXTENDS LoanForm, FiniteSetTheorems, TLAPS

TxOps == {"createLoan", "activateLoan", "applyPayment", "reversePayment", "modifyLoan"}

Row == [tenant : Tenants, year : Nat, number : Nat, by : Requests]

Handler == [at : {"idle", "running"} \cup Codes, op : Routes, tenant : Tenants \cup {NoTenant},
            step : Nat, seq : Nat, year : Nat]

(* Types, and where a running handler can be.                               *)
RequestTypeOK ==
  /\ req \in [Requests -> Handler]
  /\ loans \subseteq Row /\ IsFiniteSet(loans)
  /\ year \in Nat
  /\ owner \in [Connections -> Requests \cup {Nobody}]
  /\ \A q \in Requests :
       req[q].at = "running" => /\ req[q].tenant \in Tenants
                                /\ req[q].step \in 1 .. Len(Program[req[q].op])

(* The programs, position by position, as the steps below need them.        *)
LEMMA ProgramFacts ==
  ASSUME NEW op \in Routes
  PROVE  /\ Len(Program[op]) \in 1 .. 7
         /\ \A i \in 1 .. Len(Program[op]) :
              /\ Program[op][i] = "begin" <=> (op \in TxOps /\ i = 2)
              /\ Program[op][i] = "commit" => i = Len(Program[op])
              /\ op \in TxOps /\ i = Len(Program[op]) => Program[op][i] = "commit"
              /\ Program[op][i] \in {"number", "year", "insert"} => op = "createLoan"
              /\ Program[op][i] = "read" => op \notin TxOps
              /\ op = "createLoan" => /\ Program[op][i] = "number" => i = 3
                                      /\ Program[op][i] = "year" => i = 4
                                      /\ Program[op][i] = "insert" => i = 5
                                      /\ Program[op][i] = "commit" <=> i = 7
                                      /\ i = 3 => Program[op][i] = "number"
                                      /\ i = 5 => Program[op][i] = "insert"
                                      /\ Len(Program[op]) = 7
<1>1. op \in Routes OBVIOUS
<1>2. CASE op = "createLoan"
  <2>1. Program[op] = <<"context", "begin", "number", "year", "insert", "second", "commit">>
    BY <1>1, <1>2 DEF Program
  <2> QED BY <2>1, <1>2 DEF TxOps
<1>3. CASE op \in {"activateLoan", "applyPayment", "reversePayment"}
  <2>1. Program[op] = <<"context", "begin", "second", "commit">>
    BY <1>1, <1>3 DEF Program
  <2> QED BY <2>1, <1>3 DEF TxOps
<1>4. CASE op = "modifyLoan"
  <2>1. Program[op] = <<"context", "begin", "second", "second", "commit">>
    BY <1>1, <1>4 DEF Program
  <2> QED BY <2>1, <1>4 DEF TxOps
<1>5. CASE op \in {"listLoans", "getLoan", "getPayments", "previewPayment"}
  <2>1. Program[op] = <<"context", "read">> BY <1>1, <1>5 DEF Program
  <2> QED BY <2>1, <1>5 DEF TxOps
<1>6. CASE op \in {"getDisbursements", "getSchedule", "getFees", "listBorrowers"}
  <2>1. Program[op] = <<"read">> BY <1>1, <1>6 DEF Program
  <2> QED BY <2>1, <1>6 DEF TxOps
<1>7. CASE op = "createBorrower"
  <2>1. Program[op] = <<"encrypt", "save">> BY <1>1, <1>7 DEF Program
  <2> QED BY <2>1, <1>7 DEF TxOps
<1>8. CASE op \in {"createDisbursement", "approveDisbursement", "addFee", "waiveFee",
                   "updateBorrower"}
  <2>1. Program[op] = <<"read", "write">> BY <1>1, <1>8 DEF Program
  <2> QED BY <2>1, <1>8 DEF TxOps
<1> QED BY <1>2, <1>3, <1>4, <1>5, <1>6, <1>7, <1>8
       DEF Routes, LoanRoutes, AdminRoutes, StaffRoutes, ReaderRoutes, OpenRoutes

(* A request that has been answered.                                        *)
LEMMA AnsweredFacts ==
  ASSUME NEW code \in Codes
  PROVE  /\ [Idle EXCEPT !.at = code] \in Handler
         /\ [Idle EXCEPT !.at = code].at = code /\ code \notin {"idle", "running"}
<1>1. "listLoans" \in Routes BY DEF Routes, LoanRoutes, ReaderRoutes
<1> QED BY <1>1 DEF Idle, Handler, Codes

(* What advancing a handler changes: its place, or that it is answered.     *)
LEMMA AdvancedFacts ==
  ASSUME RequestTypeOK, NEW q \in Requests, req[q].at = "running"
  PROVE  /\ Advanced(q) \in Handler
         /\ \/ /\ req[q].step = Len(Program[req[q].op])
               /\ Advanced(q).at = "200"
            \/ /\ req[q].step # Len(Program[req[q].op])
               /\ Advanced(q).op = req[q].op /\ Advanced(q).tenant = req[q].tenant
               /\ Advanced(q).seq = req[q].seq /\ Advanced(q).year = req[q].year
               /\ Advanced(q).at = "running" /\ Advanced(q).step = req[q].step + 1
               /\ Advanced(q).step \in 1 .. Len(Program[req[q].op])
<1>1. req[q] \in Handler BY DEF RequestTypeOK
<1>2. Len(Program[req[q].op]) \in 1 .. 7 BY <1>1, ProgramFacts DEF Handler
<1>3. req[q].step \in 1 .. Len(Program[req[q].op]) BY DEF RequestTypeOK
<1>4. CASE req[q].step = Len(Program[req[q].op])
  <2>1. Advanced(q) = [Idle EXCEPT !.at = "200"] BY <1>4 DEF Advanced
  <2>2. "200" \in Codes BY DEF Codes
  <2> QED BY <2>1, <2>2, <1>4, AnsweredFacts
<1>5. CASE req[q].step # Len(Program[req[q].op])
  <2>1. Advanced(q) = [req[q] EXCEPT !.step = req[q].step + 1] BY <1>5 DEF Advanced
  <2> QED BY <2>1, <1>1, <1>2, <1>3, <1>5 DEF Handler
<1> QED BY <1>4, <1>5

(* A request replaced by one that is well formed keeps the types.           *)
LEMMA ReplaceKeepsTypes ==
  ASSUME RequestTypeOK, NEW q \in Requests, NEW r \in Handler,
         req' = [req EXCEPT ![q] = r],
         r.at = "running" => r.tenant \in Tenants /\ r.step \in 1 .. Len(Program[r.op]),
         loans' \subseteq Row, IsFiniteSet(loans'), year' = year,
         owner' \in [Connections -> Requests \cup {Nobody}]
  PROVE  RequestTypeOK'
<1>1. req' \in [Requests -> Handler] BY DEF RequestTypeOK
<1>2. \A p \in Requests : req'[p] = IF p = q THEN r ELSE req[p] BY DEF RequestTypeOK
<1> QED BY <1>1, <1>2 DEF RequestTypeOK

(* A statement of a handler that succeeds keeps the types.                   *)
LEMMA HandledTypes ==
  ASSUME RequestTypeOK, NEW q \in Requests, req[q].at = "running", Handled(q),
         loans' \subseteq Row, IsFiniteSet(loans'), year' = year,
         owner' \in [Connections -> Requests \cup {Nobody}]
  PROVE  RequestTypeOK'
<1>1. req' = [req EXCEPT ![q] = Advanced(q)] BY DEF Handled
<1>2. req[q].tenant \in Tenants BY DEF RequestTypeOK
<1> QED BY <1>1, <1>2, AdvancedFacts, ReplaceKeepsTypes

(* A handler that throws keeps the types.                                    *)
LEMMA ThrowsTypes ==
  ASSUME RequestTypeOK, NEW q \in Requests, NEW code \in Codes, Throws(q, code)
  PROVE  RequestTypeOK'
<1> DEFINE r == [Idle EXCEPT !.at = code]
<1>2. r \in Handler /\ r.at # "running" BY AnsweredFacts
<1>3. req' = [req EXCEPT ![q] = r] BY DEF Throws
<1>4. owner' \in [Connections -> Requests \cup {Nobody}] BY DEF Throws, RequestTypeOK
<1>5. loans' \subseteq Row /\ IsFiniteSet(loans') /\ year' = year
  BY DEF Throws, RequestTypeOK
<1> HIDE DEF r
<1> QED BY <1>2, <1>3, <1>4, <1>5, ReplaceKeepsTypes

(* Only a running request is handled.                                       *)
LEMMA RunningHandles ==
  ASSUME NEW q, Handle(q) PROVE req[q].at = "running"
<1>1. SetContext(q) \/ Read(q) \/ Write(q) \/ Begin(q) \/ Number(q) => req[q].at = "running"
  BY DEF SetContext, Read, Write, Begin, Number, At
<1>2. TermsRefused(q) \/ InsertLoan(q) \/ InsertRefused(q) \/ Second(q) => req[q].at = "running"
  BY DEF TermsRefused, InsertLoan, InsertRefused, Second, At
<1>3. SecondFails(q) \/ Commit(q) \/ Encrypt(q) \/ ReadYear(q) => req[q].at = "running"
  BY DEF SecondFails, Commit, Encrypt, ReadYear, At
<1>4. SaveBorrower(q) \/ GiveUp(q) => req[q].at = "running"
  BY DEF SaveBorrower, GiveUp, At
<1> QED BY <1>1, <1>2, <1>3, <1>4 DEF Handle

(* Every step keeps the types.                                               *)
LEMMA TypesKept ==
  RequestTypeOK /\ [Next]_vars => RequestTypeOK'
<1> SUFFICES ASSUME RequestTypeOK, [Next]_vars PROVE RequestTypeOK' OBVIOUS
<1>a. loans \subseteq Row /\ IsFiniteSet(loans) /\ year \in Nat
      /\ owner \in [Connections -> Requests \cup {Nobody}]
  BY DEF RequestTypeOK
<1>b. "400" \in Codes /\ "500" \in Codes BY DEF Codes
<1>1. CASE UNCHANGED vars BY <1>1 DEF vars, RequestTypeOK
<1>2. ASSUME NEW q \in Requests, Call(q) PROVE RequestTypeOK'
  <2>1. PICK op \in Ops, role \in Roles, token \in {"access", "id"},
             tenant \in Tenants \cup {NoTenant}, valid \in BOOLEAN :
          Arrive(q, op, role, token, tenant, valid)
    BY <1>2 DEF Call
  <2>2. op \in Routes BY RequestConstants
  <2>3. Idle \in Handler
    BY DEF Idle, Handler, Routes, LoanRoutes, ReaderRoutes
  <2> DEFINE verdict == Verdict(op, role, token, tenant, valid)
  <2>4. verdict = "running" => tenant \in Tenants
    BY DEF Verdict, HasTenant
  <2>5. verdict \in {"running"} \cup Codes BY DEF Verdict, Codes
  <2> DEFINE r == IF verdict = "running"
                    THEN [Idle EXCEPT !.at = "running", !.op = op, !.tenant = tenant, !.step = 1]
                    ELSE [Idle EXCEPT !.at = verdict]
  <2>6. req' = [req EXCEPT ![q] = r] BY <2>1 DEF Arrive
  <2>7. r \in Handler BY <2>2, <2>3, <2>5 DEF Handler
  <2>8. r.at = "running" => r.tenant \in Tenants /\ r.step \in 1 .. Len(Program[r.op])
    <3>1. CASE verdict = "running"
      <4>1. r.tenant = tenant /\ r.step = 1 /\ r.op = op
        BY <3>1, <2>3 DEF Idle
      <4>2. Len(Program[op]) \in 1 .. 7 BY <2>2, ProgramFacts
      <4>3. tenant \in Tenants BY <3>1, <2>4
      <4>4. 1 \in 1 .. Len(Program[op]) BY <4>2
      <4> HIDE DEF r
      <4> QED BY <4>1, <4>3, <4>4
    <3>2. CASE verdict # "running"
      <4>1. r.at = verdict BY <3>2 DEF Idle
      <4> QED BY <4>1, <3>2
    <3> QED BY <3>1, <3>2
  <2>9. UNCHANGED <<loans, owner, year>> BY <2>1 DEF Arrive
  <2> HIDE DEF r
  <2> QED BY <2>6, <2>7, <2>8, <2>9, <1>a, ReplaceKeepsTypes
<1>3. ASSUME NEW q \in Requests, Handle(q) PROVE RequestTypeOK'
  <2>a. req[q] \in Handler BY DEF RequestTypeOK
  <2>c. req[q].at = "running" BY <1>3, RunningHandles
  <2>1. CASE SetContext(q) BY <2>1, <2>c, <1>a, HandledTypes DEF SetContext
  <2>2. CASE Read(q) BY <2>2, <2>c, <1>a, HandledTypes DEF Read
  <2>3. CASE Write(q) BY <2>3, <2>c, <1>a, HandledTypes DEF Write
  <2>4. CASE Begin(q)
    <3>1. owner' \in [Connections -> Requests \cup {Nobody}] BY <2>4, <1>a DEF Begin
    <3> QED BY <3>1, <2>4, <2>c, <1>a, HandledTypes DEF Begin
  <2>5. CASE Number(q)
    <3> DEFINE seen == {x \in loans : x.tenant = req[q].tenant /\ Admits(Held(q), x.tenant)}
               r == [Advanced(q) EXCEPT !.seq = Cardinality(seen) + 1]
    <3>1. Cardinality(seen) \in Nat
      <4>1. seen \subseteq loans OBVIOUS
      <4> QED BY <4>1, <1>a, FS_Subset, FS_CardinalityType
    <3>2. Advanced(q) \in Handler BY <2>c, AdvancedFacts
    <3> HIDE DEF seen
    <3>3. r \in Handler /\ r.at = Advanced(q).at /\ r.op = Advanced(q).op
          /\ r.tenant = Advanced(q).tenant /\ r.step = Advanced(q).step
      BY <3>1, <3>2 DEF Handler
    <3>4. req' = [req EXCEPT ![q] = r] BY <2>5 DEF Number, seen
    <3>5. req[q].tenant \in Tenants BY <2>c DEF RequestTypeOK
    <3>6. r.at = "running" => r.tenant \in Tenants /\ r.step \in 1 .. Len(Program[r.op])
      BY <3>3, <3>5, <2>c, AdvancedFacts
    <3>7. UNCHANGED <<loans, owner, year>> BY <2>5 DEF Number
    <3> HIDE DEF r
    <3> QED BY <3>3, <3>4, <3>6, <3>7, <1>a, ReplaceKeepsTypes
  <2>6. CASE TermsRefused(q) BY <2>6, <1>b, ThrowsTypes DEF TermsRefused
  <2>7. CASE InsertLoan(q) BY <2>7, <2>c, <1>a, HandledTypes DEF InsertLoan
  <2>8. CASE InsertRefused(q) BY <2>8, <1>b, ThrowsTypes DEF InsertRefused
  <2>9. CASE Second(q) BY <2>9, <2>c, <1>a, HandledTypes DEF Second
  <2>10. CASE SecondFails(q) BY <2>10, <1>b, ThrowsTypes DEF SecondFails
  <2>11. CASE Commit(q)
    <3> DEFINE x == [tenant |-> req[q].tenant, year |-> req[q].year,
                     number |-> req[q].seq, by |-> q]
    <3>1. x \in Row
      <4>1. req[q].tenant \in Tenants BY <2>c DEF RequestTypeOK
      <4> QED BY <4>1, <2>a DEF Row, Handler
    <3>2. loans' = loans \/ loans' = loans \cup {x} BY <2>11 DEF Commit
    <3> HIDE DEF x
    <3>3. loans' \subseteq Row BY <3>1, <3>2, <1>a
    <3>4. IsFiniteSet(loans') BY <3>2, <1>a, FS_AddElement
    <3>5. owner' \in [Connections -> Requests \cup {Nobody}] BY <2>11, <1>a DEF Commit
    <3>6. year' = year BY <2>11 DEF Commit
    <3> QED BY <3>3, <3>4, <3>5, <3>6, <2>11, <2>c, HandledTypes DEF Commit
  <2>12. CASE Encrypt(q) BY <2>12, <2>c, <1>a, <1>b, HandledTypes, ThrowsTypes DEF Encrypt
  <2>13. CASE SaveBorrower(q)
    <3>1. CASE Throws(q, "500") BY <3>1, <1>b, ThrowsTypes
    <3>2. CASE ~Throws(q, "500")
      <4>1. Handled(q) /\ UNCHANGED <<owner, loans, year>>
        BY <3>2, <2>13 DEF SaveBorrower
      <4> QED BY <4>1, <2>c, <1>a, HandledTypes
    <3> QED BY <3>1, <3>2
  <2>14. CASE GiveUp(q) BY <2>14, <1>b, ThrowsTypes DEF GiveUp
  <2>15. CASE ReadYear(q)
    <3> DEFINE r == [Advanced(q) EXCEPT !.year = year]
    <3>1. Advanced(q) \in Handler BY <2>c, AdvancedFacts
    <3>2. r \in Handler /\ r.at = Advanced(q).at /\ r.op = Advanced(q).op
          /\ r.tenant = Advanced(q).tenant /\ r.step = Advanced(q).step
      BY <3>1, <1>a DEF Handler
    <3>3. req' = [req EXCEPT ![q] = r] BY <2>15 DEF ReadYear
    <3>4. req[q].tenant \in Tenants BY <2>c DEF RequestTypeOK
    <3>5. r.at = "running" => r.tenant \in Tenants /\ r.step \in 1 .. Len(Program[r.op])
      BY <3>2, <3>4, <2>c, AdvancedFacts DEF Codes
    <3>6. UNCHANGED <<loans, owner, year>> BY <2>15 DEF ReadYear
    <3> HIDE DEF r
    <3> QED BY <3>2, <3>3, <3>5, <3>6, <1>a, ReplaceKeepsTypes
  <2> QED BY <1>3, <2>1, <2>2, <2>3, <2>4, <2>5, <2>6, <2>7, <2>8, <2>9, <2>10, <2>11, <2>12,
             <2>13, <2>14, <2>15 DEF Handle
<1>4. CASE NewYear
  <2>1. year' = year + 1 /\ UNCHANGED <<req, loans, owner>> BY <1>4 DEF NewYear
  <2> QED BY <2>1 DEF RequestTypeOK
<1> QED BY <1>1, <1>2, <1>3, <1>4 DEF Next

----------------------------------------------------------------------------
(* Loan numbers *)

Mine(t) == {x \in loans : x.tenant = t}

Below(t, n) == {x \in Mine(t) : x.number < n}

Creating(q, step) ==
  req[q].at = "running" /\ req[q].op = "createLoan" /\ req[q].step > step

(* A creation that has counted holds a number at most one past the loans    *)
(* with smaller ones; one that has inserted holds one nobody else has in    *)
(* its year.                                                                *)
NumbersClaimed ==
  \A q \in Requests :
    /\ Creating(q, 3) =>
         req[q].seq \in 1 .. Cardinality(Below(req[q].tenant, req[q].seq)) + 1
    /\ Creating(q, 5) => /\ Rivals(q) = {}
                         /\ \A x \in loans : ~SameNumber(q, x)

NumberInv == RequestTypeOK /\ NumbersClaimed /\ NumbersFollowTheCount

(* A tenant has finitely many loans.                                         *)
LEMMA MineFinite ==
  ASSUME RequestTypeOK, NEW t, NEW n
  PROVE  /\ IsFiniteSet(Mine(t)) /\ Cardinality(Mine(t)) \in Nat
         /\ IsFiniteSet(Below(t, n)) /\ Cardinality(Below(t, n)) \in Nat
         /\ Cardinality(Below(t, n)) <= Cardinality(Mine(t))
<1>1. Mine(t) \subseteq loans /\ Below(t, n) \subseteq Mine(t) BY DEF Mine, Below
<1> QED BY <1>1, FS_Subset, FS_CardinalityType DEF RequestTypeOK

(* The property, in the terms of the invariant.                             *)
LEMMA NumbersReadable ==
  NumbersFollowTheCount <=>
    \A t \in Tenants : \A x \in Mine(t) :
      /\ x.number \in 1 .. Cardinality(Below(t, x.number)) + 1
      /\ \A y \in Mine(t) : x.year = y.year /\ x.number = y.number => x = y
BY DEF NumbersFollowTheCount, Mine, Below

(* Loans are only ever added, so what a number may be only grows.           *)
LEMMA BelowGrows ==
  ASSUME RequestTypeOK, RequestTypeOK', loans \subseteq loans', NEW t, NEW n
  PROVE  Cardinality(Below(t, n)) <= Cardinality(Below(t, n)')
<1>1. Below(t, n) \subseteq Below(t, n)' BY DEF Below, Mine
<1>2. IsFiniteSet(loans') BY DEF RequestTypeOK
<1>3. Below(t, n)' \subseteq loans' BY DEF Below, Mine
<1>4. IsFiniteSet(Below(t, n)') BY <1>2, <1>3, FS_Subset
<1> QED BY <1>1, <1>4, FS_Subset

(* A request that counts, inserts or commits nothing disturbs no number.    *)
LEMMA QuietRequest ==
  ASSUME NumberInv, NEW q \in Requests, NEW r, req' = [req EXCEPT ![q] = r], loans' = loans,
         \/ r.at # "running"
         \/ r.op # "createLoan"
         \/ r.step \in 1 .. 3
         \/ /\ r.tenant = req[q].tenant /\ r.seq = req[q].seq /\ r.op = req[q].op
            /\ req[q].at = "running" /\ req[q].step > 3 /\ r.step > 3
            /\ r.step > 5 => req[q].step > 5 /\ r.year = req[q].year
  PROVE  NumbersClaimed' /\ NumbersFollowTheCount'
<1> USE DEF NumberInv
<1>1. NumbersFollowTheCount' BY DEF NumbersFollowTheCount
<1>2. \A p \in Requests : req'[p] = IF p = q THEN r ELSE req[p] BY DEF RequestTypeOK
<1>3. \A t, n : Below(t, n)' = Below(t, n) BY DEF Below, Mine
<1>4. \A p \in Requests : Creating(p, 3)' =>
        Creating(p, 3) /\ req'[p].tenant = req[p].tenant /\ req'[p].seq = req[p].seq
  BY <1>2 DEF Creating
<1>5. \A p \in Requests : Creating(p, 5)' =>
        /\ Creating(p, 5) /\ req'[p].tenant = req[p].tenant /\ req'[p].seq = req[p].seq
        /\ req'[p].year = req[p].year
  BY <1>2 DEF Creating
<1>6. ASSUME NEW p \in Requests, Creating(p, 5)' PROVE Rivals(p)' = {}
  <2> SUFFICES ASSUME NEW o \in Requests \ {p}, Creating(o, 5)', req'[o].tenant = req'[p].tenant,
                      req'[o].year = req'[p].year, req'[o].seq = req'[p].seq
               PROVE FALSE
    BY DEF Rivals, Creating
  <2>1. o \in Rivals(p) BY <1>5, <1>6 DEF Rivals, Creating
  <2> QED BY <2>1, <1>5, <1>6 DEF NumbersClaimed
<1>7. ASSUME NEW p \in Requests, Creating(p, 5)', NEW x \in loans' PROVE ~SameNumber(p, x)'
  BY <1>5, <1>7 DEF NumbersClaimed, SameNumber
<1>8. ASSUME NEW p \in Requests, Creating(p, 3)'
      PROVE (req[p].seq \in 1 .. Cardinality(Below(req[p].tenant, req[p].seq)) + 1)'
  <2>1. req[p].seq \in 1 .. Cardinality(Below(req[p].tenant, req[p].seq)) + 1
    BY <1>4, <1>8 DEF NumbersClaimed
  <2>2. Below(req[p].tenant, req[p].seq)' = Below(req[p].tenant, req[p].seq)
    BY <1>4, <1>8 DEF Below, Mine
  <2> QED BY <2>1, <2>2, <1>4, <1>8
<1> QED BY <1>1, <1>6, <1>7, <1>8 DEF NumbersClaimed

(* Where a handler is, from the statement it is about to send.              *)
LEMMA Positions ==
  ASSUME RequestTypeOK, NEW q \in Requests, NEW s, At(q, s)
  PROVE  /\ req[q].at = "running"
         /\ s = "number" => req[q].op = "createLoan" /\ req[q].step = 3
         /\ s = "year" => req[q].op = "createLoan" /\ req[q].step = 4
         /\ s = "insert" => req[q].op = "createLoan" /\ req[q].step = 5
         /\ s = "commit" => Advanced(q).at = "200"
         /\ s = "commit" /\ req[q].op = "createLoan" => req[q].step = 7
         /\ s \notin {"number", "insert"} /\ req[q].op = "createLoan" => req[q].step \notin {3, 5}
         /\ s = "begin" => req[q].op \in TxOps /\ req[q].step = 2
         /\ s = "read" => req[q].op \notin TxOps
         /\ s # "commit" /\ req[q].op \in TxOps =>
              /\ Advanced(q).at = "running" /\ Advanced(q).step = req[q].step + 1
              /\ Advanced(q).op = req[q].op /\ Advanced(q).tenant = req[q].tenant
              /\ Advanced(q).seq = req[q].seq /\ Advanced(q).year = req[q].year
<1>1. req[q].at = "running" BY DEF At
<1>2. req[q].op \in Routes BY DEF RequestTypeOK, Handler
<1>3. req[q].step \in 1 .. Len(Program[req[q].op]) BY <1>1 DEF RequestTypeOK
<1>4. Program[req[q].op][req[q].step] = s BY DEF At
<1>5. ASSUME s # "commit", req[q].op \in TxOps PROVE req[q].step # Len(Program[req[q].op])
  BY <1>2, <1>3, <1>4, <1>5, ProgramFacts
<1>6. s # "commit" /\ req[q].op \in TxOps =>
        /\ Advanced(q).at = "running" /\ Advanced(q).step = req[q].step + 1
        /\ Advanced(q).op = req[q].op /\ Advanced(q).tenant = req[q].tenant
        /\ Advanced(q).seq = req[q].seq /\ Advanced(q).year = req[q].year
  BY <1>1, <1>5, AdvancedFacts
<1>7. s = "commit" => Advanced(q).at = "200"
  <2> SUFFICES ASSUME s = "commit" PROVE Advanced(q).at = "200" OBVIOUS
  <2>1. req[q].step = Len(Program[req[q].op]) BY <1>2, <1>3, <1>4, ProgramFacts
  <2> QED BY <2>1, <1>1, AdvancedFacts
<1> QED BY <1>1, <1>2, <1>3, <1>4, <1>6, <1>7, ProgramFacts

(* A statement that neither counts nor inserts leaves the numbers alone.     *)
LEMMA QuietHandled ==
  ASSUME NumberInv, NEW q \in Requests, NEW s, s \notin {"number", "insert"}, At(q, s),
         Handled(q), loans' = loans
  PROVE  NumbersClaimed' /\ NumbersFollowTheCount'
<1> DEFINE r == Advanced(q)
<1>1. req' = [req EXCEPT ![q] = r] BY DEF Handled
<1>2. req[q].at = "running" /\ (req[q].op = "createLoan" => req[q].step \notin {3, 5})
  BY Positions DEF NumberInv
<1>3. req[q].step \in Nat \ {0} BY <1>2, ProgramFacts DEF NumberInv, RequestTypeOK, Handler
<1>4. \/ r.at = "200"
      \/ /\ r.op = req[q].op /\ r.tenant = req[q].tenant /\ r.seq = req[q].seq
         /\ r.year = req[q].year /\ r.step = req[q].step + 1
  BY <1>2, AdvancedFacts DEF NumberInv
<1> HIDE DEF r
<1>5. CASE r.at = "200" \/ r.op # "createLoan" BY <1>5, <1>1, QuietRequest
<1>6. CASE /\ r.op = "createLoan"
           /\ r.op = req[q].op /\ r.tenant = req[q].tenant /\ r.seq = req[q].seq
           /\ r.year = req[q].year /\ r.step = req[q].step + 1
  <2>1. req[q].step \notin {3, 5} BY <1>2, <1>6
  <2>2. r.step \in 1 .. 3 \/ (req[q].step > 3 /\ r.step > 3 /\ (r.step > 5 => req[q].step > 5))
    BY <2>1, <1>3, <1>6
  <2> QED BY <2>2, <1>1, <1>2, <1>6, QuietRequest
<1> QED BY <1>4, <1>5, <1>6

(* So does a handler that throws.                                            *)
LEMMA QuietThrows ==
  ASSUME NumberInv, NEW q \in Requests, NEW code \in Codes, Throws(q, code)
  PROVE  NumbersClaimed' /\ NumbersFollowTheCount'
<1> DEFINE r == [Idle EXCEPT !.at = code]
<1>2. r.at # "running" BY AnsweredFacts
<1>3. req' = [req EXCEPT ![q] = r] /\ loans' = loans BY DEF Throws
<1> HIDE DEF r
<1> QED BY <1>2, <1>3, QuietRequest

(* Reading the year: nobody has inserted under it yet.                       *)
LEMMA YearStep ==
  ASSUME NumberInv, NEW q \in Requests, ReadYear(q)
  PROVE  NumbersClaimed' /\ NumbersFollowTheCount'
<1> DEFINE r == [Advanced(q) EXCEPT !.year = year]
<1>1. req' = [req EXCEPT ![q] = r] /\ loans' = loans BY DEF ReadYear
<1>2. req[q].at = "running" /\ req[q].op = "createLoan" /\ req[q].step = 4
  BY Positions DEF ReadYear, NumberInv
<1>3. /\ Advanced(q) \in Handler /\ Advanced(q).step = 5 /\ Advanced(q).op = req[q].op
      /\ Advanced(q).tenant = req[q].tenant /\ Advanced(q).seq = req[q].seq
  BY <1>2, Positions, AdvancedFacts DEF ReadYear, NumberInv, TxOps
<1>4. /\ r.step = 5 /\ r.op = req[q].op
      /\ r.tenant = req[q].tenant /\ r.seq = req[q].seq
  BY <1>3 DEF Handler
<1> HIDE DEF r
<1>5. req[q].step > 3 /\ r.step > 3 /\ ~(r.step > 5) BY <1>2, <1>4
<1> QED BY <1>1, <1>2, <1>4, <1>5, QuietRequest

(* Counting: every loan seen has a smaller number than the one taken.       *)
LEMMA NumberStep ==
  ASSUME NumberInv, NEW q \in Requests, Number(q)
  PROVE  NumbersClaimed' /\ NumbersFollowTheCount'
<1> USE DEF NumberInv
<1> DEFINE t == req[q].tenant
           seen == {x \in loans : x.tenant = t /\ Admits(Held(q), x.tenant)}
           k == Cardinality(seen)
           r == [Advanced(q) EXCEPT !.seq = k + 1]
<1>1. req' = [req EXCEPT ![q] = r] /\ loans' = loans BY DEF Number
<1>2. req[q].at = "running" /\ req[q].op = "createLoan" /\ req[q].step = 3
  BY Positions DEF Number
<1>3. t \in Tenants BY <1>2 DEF RequestTypeOK
<1>4. seen = Mine(t) \/ seen = {} BY DEF Mine
<1> HIDE DEF seen
<1>5. k \in Nat BY <1>4, MineFinite, FS_EmptySet
<1>6. k + 1 \in 1 .. Cardinality(Below(t, k + 1)) + 1
  <2>1. CASE seen = {}
    <3>1. k = 0 BY <2>1, FS_EmptySet
    <3> QED BY <3>1, MineFinite
  <2>2. CASE seen = Mine(t)
    <3>1. ASSUME NEW x \in Mine(t) PROVE x.number <= k
      <4>1. x.number \in 1 .. Cardinality(Below(t, x.number)) + 1
        BY <1>3, NumbersReadable
      <4>2. x \notin Below(t, x.number)
        <5>1. x.number \in Nat BY DEF Mine, RequestTypeOK, Row
        <5> QED BY <5>1 DEF Below
      <4>3. Below(t, x.number) \subseteq Mine(t) BY DEF Below
      <4>4. Below(t, x.number) # Mine(t) BY <4>2
      <4>5. Cardinality(Below(t, x.number)) < Cardinality(Mine(t))
        <5> DEFINE B == Below(t, x.number)
        <5>1. IsFiniteSet(B) /\ Cardinality(B) \in Nat /\ Cardinality(Mine(t)) \in Nat
          BY MineFinite
        <5>2. B \cup {x} \subseteq Mine(t) /\ x \notin B BY <4>2, <4>3
        <5> HIDE DEF B
        <5>3. Cardinality(B \cup {x}) = Cardinality(B) + 1 BY <5>1, <5>2, FS_AddElement
        <5>4. Cardinality(B \cup {x}) <= Cardinality(Mine(t)) BY <5>2, MineFinite, FS_Subset
        <5>5. Cardinality(B) < Cardinality(Mine(t)) BY <5>1, <5>3, <5>4
        <5> QED BY <5>5 DEF B
      <4> QED BY <4>1, <4>5, <2>2, MineFinite
    <3>2. \A x \in Mine(t) : x.number < k + 1
      <4>1. \A x \in Mine(t) : x.number \in Nat BY DEF Mine, RequestTypeOK, Row
      <4> QED BY <3>1, <4>1, <1>5
    <3>3. Below(t, k + 1) = Mine(t) BY <3>2 DEF Below
    <3> QED BY <3>3, <2>2, <1>5
  <2> QED BY <1>4, <2>1, <2>2
<1>7. Advanced(q) \in Handler /\ Advanced(q).step = 4 /\ Advanced(q).tenant = t
  BY <1>2, Positions, AdvancedFacts DEF Number, TxOps
<1>8. r.seq = k + 1 /\ r.tenant = t /\ r.step = 4
  BY <1>5, <1>7 DEF Handler
<1> HIDE DEF r, k, t
<1>9. NumbersFollowTheCount' BY <1>1 DEF NumbersFollowTheCount
<1>10. \A p \in Requests : req'[p] = IF p = q THEN r ELSE req[p] BY <1>1 DEF RequestTypeOK
<1>11. ASSUME NEW p \in Requests, Creating(p, 5)'
       PROVE Rivals(p)' = {} /\ \A x \in loans' : ~SameNumber(p, x)'
  <2>1. p # q BY <1>11, <1>10, <1>8 DEF Creating
  <2>2. Creating(p, 5) /\ req'[p] = req[p] BY <2>1, <1>11, <1>10 DEF Creating
  <2>3. \A o \in Requests : o \in Rivals(p)' => o # q BY <1>10, <1>8 DEF Rivals
  <2>4. Rivals(p)' \subseteq Rivals(p) BY <2>2, <2>3, <1>10 DEF Rivals
  <2>5. Rivals(p) = {} /\ \A x \in loans : ~SameNumber(p, x) BY <2>2 DEF NumbersClaimed
  <2> QED BY <2>2, <2>4, <2>5, <1>1 DEF SameNumber
<1>12. ASSUME NEW p \in Requests, Creating(p, 3)'
       PROVE (req[p].seq \in 1 .. Cardinality(Below(req[p].tenant, req[p].seq)) + 1)'
  <2>1. CASE p = q
    <3>1. req'[p].seq = k + 1 /\ req'[p].tenant = t BY <2>1, <1>10, <1>8
    <3>2. Below(req[p].tenant, req[p].seq)' = Below(t, k + 1) BY <3>1, <1>1 DEF Below, Mine
    <3> QED BY <3>1, <3>2, <1>6
  <2>2. CASE p # q
    <3>1. Creating(p, 3) /\ req'[p] = req[p] BY <2>2, <1>12, <1>10 DEF Creating
    <3>2. Below(req[p].tenant, req[p].seq)' = Below(req[p].tenant, req[p].seq)
      BY <3>1, <1>1 DEF Below, Mine
    <3>3. req[p].seq \in 1 .. Cardinality(Below(req[p].tenant, req[p].seq)) + 1
      BY <3>1 DEF NumbersClaimed
    <3> QED BY <3>1, <3>2, <3>3
  <2> QED BY <2>1, <2>2
<1> QED BY <1>9, <1>11, <1>12 DEF NumbersClaimed

(* Inserting: the unique key makes the number this transaction's own.       *)
LEMMA InsertStep ==
  ASSUME NumberInv, NEW q \in Requests, InsertLoan(q)
  PROVE  NumbersClaimed' /\ NumbersFollowTheCount'
<1> USE DEF NumberInv
<1> DEFINE r == Advanced(q)
<1>1. req' = [req EXCEPT ![q] = r] /\ loans' = loans BY DEF InsertLoan, Handled
<1>2. req[q].at = "running" /\ req[q].op = "createLoan" /\ req[q].step = 5
  BY Positions DEF InsertLoan
<1>3. r.op = req[q].op /\ r.tenant = req[q].tenant /\ r.seq = req[q].seq /\ r.year = req[q].year
  BY <1>2, Positions DEF InsertLoan, TxOps
<1>4. Rivals(q) = {} /\ \A x \in loans : ~SameNumber(q, x) BY DEF InsertLoan
<1> HIDE DEF r
<1>5. NumbersFollowTheCount' BY <1>1 DEF NumbersFollowTheCount
<1>6. \A p \in Requests : req'[p] = IF p = q THEN r ELSE req[p] BY <1>1 DEF RequestTypeOK
<1>8. \A p \in Requests : /\ req'[p].tenant = req[p].tenant /\ req'[p].seq = req[p].seq
                           /\ req'[p].year = req[p].year
  BY <1>3, <1>6
<1>9. \A p \in Requests : Creating(p, 3)' => Creating(p, 3) BY <1>2, <1>6 DEF Creating
<1>10. \A p \in Requests : Creating(p, 5)' => Creating(p, 5) \/ p = q BY <1>6 DEF Creating
<1>11. ASSUME NEW p \in Requests, Creating(p, 5)', NEW o \in Rivals(p)' PROVE FALSE
  <2>1. o \in Requests /\ o # p /\ Creating(o, 5)' /\ req[o].tenant = req[p].tenant
        /\ req[o].seq = req[p].seq /\ req[o].year = req[p].year
    BY <1>8 DEF Rivals, Creating
  <2>2. CASE p = q
    <3>1. o \in Rivals(q) BY <2>1, <2>2, <1>10 DEF Rivals, Creating
    <3> QED BY <3>1, <1>4
  <2>3. CASE o = q
    <3>1. p \in Rivals(q) BY <2>1, <2>3, <1>10, <1>11 DEF Rivals, Creating
    <3> QED BY <3>1, <1>4
  <2>4. CASE p # q /\ o # q
    <3>1. Creating(p, 5) /\ o \in Rivals(p) BY <2>1, <2>4, <1>10, <1>11 DEF Rivals, Creating
    <3> QED BY <3>1 DEF NumbersClaimed
  <2> QED BY <2>2, <2>3, <2>4
<1>12. ASSUME NEW p \in Requests, Creating(p, 5)', NEW x \in loans' PROVE ~SameNumber(p, x)'
  BY <1>1, <1>4, <1>8, <1>10, <1>12 DEF NumbersClaimed, SameNumber
<1>13. ASSUME NEW p \in Requests, Creating(p, 3)'
       PROVE (req[p].seq \in 1 .. Cardinality(Below(req[p].tenant, req[p].seq)) + 1)'
  <2>1. req[p].seq \in 1 .. Cardinality(Below(req[p].tenant, req[p].seq)) + 1
    BY <1>9, <1>13 DEF NumbersClaimed
  <2>2. Below(req[p].tenant, req[p].seq)' = Below(req[p].tenant, req[p].seq)
    BY <1>1, <1>8 DEF Below, Mine
  <2> QED BY <2>1, <2>2, <1>8
<1> QED BY <1>5, <1>11, <1>12, <1>13 DEF NumbersClaimed

(* Committing: the loan keeps what its transaction claimed.                 *)
LEMMA CommitStep ==
  ASSUME NumberInv, RequestTypeOK', NEW q \in Requests, Commit(q)
  PROVE  NumbersClaimed' /\ NumbersFollowTheCount'
<1> USE DEF NumberInv
<1>a. At(q, "commit") /\ Handled(q) BY DEF Commit
<1>1. CASE req[q].op # "createLoan"
  <2>1. loans' = loans BY <1>1 DEF Commit
  <2>2. "commit" \notin {"number", "insert"} OBVIOUS
  <2> QED BY <1>a, <2>1, <2>2, QuietHandled
<1>2. CASE req[q].op = "createLoan"
  <2>c. PICK x : x = [tenant |-> req[q].tenant, year |-> req[q].year,
                      number |-> req[q].seq, by |-> q]
    OBVIOUS
  <2>d. PICK r : r = Advanced(q) OBVIOUS
  <2>1. req[q].at = "running" /\ req[q].step = 7 /\ r.at = "200"
    BY <1>a, <1>2, <2>d, Positions
  <2>2. loans' = loans \cup {x} BY <1>2, <2>c DEF Commit
  <2>3. req' = [req EXCEPT ![q] = r] BY <1>a, <2>d DEF Handled
  <2>4. x.tenant = req[q].tenant /\ x.number = req[q].seq /\ x.year = req[q].year BY <2>c
  <2>5. \A p \in Requests : req'[p] = IF p = q THEN r ELSE req[p] BY <2>3 DEF RequestTypeOK
  <2>6. Creating(q, 3) /\ Creating(q, 5) BY <1>2, <2>1 DEF Creating
  <2>7. /\ x.number \in 1 .. Cardinality(Below(x.tenant, x.number)) + 1
        /\ Rivals(q) = {} /\ \A y \in loans : ~SameNumber(q, y)
    BY <2>4, <2>6 DEF NumbersClaimed
  <2>8. \A t, n : /\ Cardinality(Below(t, n)) <= Cardinality(Below(t, n)')
                  /\ Cardinality(Below(t, n)) \in Nat /\ Cardinality(Below(t, n)') \in Nat
    <3> TAKE t, n
    <3>1. Cardinality(Below(t, n)) <= Cardinality(Below(t, n)') BY <2>2, BelowGrows
    <3>2. Cardinality(Below(t, n)') \in Nat
      <4>1. Below(t, n)' \subseteq loans' /\ IsFiniteSet(loans') BY DEF Below, Mine, RequestTypeOK
      <4> QED BY <4>1, FS_Subset, FS_CardinalityType
    <3> QED BY <3>1, <3>2, MineFinite
  <2>9. \A u : Mine(u)' = Mine(u) \/ (u = x.tenant /\ Mine(u)' = Mine(u) \cup {x})
    BY <2>2 DEF Mine
  <2>10. NumbersFollowTheCount'
    <3> SUFFICES ASSUME NEW u \in Tenants, NEW y \in Mine(u)'
                 PROVE /\ y.number \in 1 .. Cardinality(Below(u, y.number)') + 1
                       /\ \A z \in Mine(u)' : y.year = z.year /\ y.number = z.number => y = z
      BY DEF NumbersFollowTheCount, Mine, Below
    <3>1. y.number \in 1 .. Cardinality(Below(u, y.number)) + 1
      <4>1. y \in Mine(u) \/ (y = x /\ u = x.tenant) BY <2>9
      <4> QED BY <4>1, <2>7, NumbersReadable
    <3>2. y.number \in 1 .. Cardinality(Below(u, y.number)') + 1
      BY <3>1, <2>8
    <3>3. ASSUME NEW z \in Mine(u)', y.year = z.year, y.number = z.number PROVE y = z
      <4>1. CASE y \in Mine(u) /\ z \in Mine(u) BY <4>1, <3>3, NumbersReadable
      <4>2. CASE u = x.tenant /\ y = x /\ z \in Mine(u)
        BY <4>2, <3>3, <2>4, <2>7 DEF SameNumber, Mine
      <4>3. CASE u = x.tenant /\ z = x /\ y \in Mine(u)
        BY <4>3, <3>3, <2>4, <2>7 DEF SameNumber, Mine
      <4> QED BY <4>1, <4>2, <4>3, <2>9
    <3> QED BY <3>2, <3>3
  <2>18. \A p \in Requests : \A k \in {3, 5} : Creating(p, k)' =>
           p # q /\ Creating(p, k) /\ req'[p] = req[p]
    BY <2>1, <2>5 DEF Creating
  <2>19. ASSUME NEW p \in Requests, Creating(p, 3)'
         PROVE (req[p].seq \in 1 .. Cardinality(Below(req[p].tenant, req[p].seq)) + 1)'
    <3>1. req'[p] = req[p] /\ Creating(p, 3) BY <2>18, <2>19
    <3>2. PICK u, n : u = req[p].tenant /\ n = req[p].seq OBVIOUS
    <3>3. n \in 1 .. Cardinality(Below(u, n)) + 1 BY <3>1, <3>2 DEF NumbersClaimed
    <3>4. n \in 1 .. Cardinality(Below(u, n)') + 1 BY <3>3, <2>8
    <3>5. Below(req[p].tenant, req[p].seq)' = Below(u, n)' BY <3>1, <3>2 DEF Below, Mine
    <3> QED BY <3>1, <3>2, <3>4, <3>5
  <2>20. ASSUME NEW p \in Requests, Creating(p, 5)'
         PROVE Rivals(p)' = {} /\ \A y \in loans' : ~SameNumber(p, y)'
    <3>1. Creating(p, 5) /\ p # q /\ req'[p] = req[p] BY <2>18, <2>20
    <3>2. Rivals(p) = {} /\ \A y \in loans : ~SameNumber(p, y) BY <3>1 DEF NumbersClaimed
    <3>3. Rivals(p)' \subseteq Rivals(p)
      <4> SUFFICES ASSUME NEW o \in Rivals(p)' PROVE o \in Rivals(p) OBVIOUS
      <4>1. o \in Requests \ {p} /\ Creating(o, 5)' BY DEF Rivals, Creating
      <4>2. Creating(o, 5) /\ req'[o] = req[o] BY <4>1, <2>18
      <4> QED BY <4>1, <4>2, <3>1 DEF Rivals, Creating
    <3>4. ~SameNumber(p, x)
      <4>1. p \notin Rivals(q) BY <2>7
      <4> QED BY <4>1, <3>1, <2>4 DEF Rivals, Creating, SameNumber
    <3> QED BY <3>1, <3>2, <3>3, <3>4, <2>2 DEF SameNumber
  <2> QED BY <2>10, <2>19, <2>20 DEF NumbersClaimed
<1> QED BY <1>1, <1>2

(* And a request that arrives.                                               *)
LEMMA ArrivalQuiet ==
  ASSUME NumberInv, NEW q \in Requests, Call(q)
  PROVE  NumbersClaimed' /\ NumbersFollowTheCount'
<1>1. PICK op \in Ops, role \in Roles, token \in {"access", "id"},
           tenant \in Tenants \cup {NoTenant}, valid \in BOOLEAN :
        Arrive(q, op, role, token, tenant, valid)
  BY DEF Call
<1> DEFINE verdict == Verdict(op, role, token, tenant, valid)
           r == IF verdict = "running"
                  THEN [Idle EXCEPT !.at = "running", !.op = op, !.tenant = tenant, !.step = 1]
                  ELSE [Idle EXCEPT !.at = verdict]
<1>2. req' = [req EXCEPT ![q] = r] /\ loans' = loans BY <1>1 DEF Arrive
<1>3. r.at # "running" \/ r.step \in 1 .. 3 BY DEF Idle
<1> HIDE DEF r
<1> QED BY <1>2, <1>3, QuietRequest

(* Every step keeps the numbers.                                             *)
LEMMA NumbersKept ==
  NumberInv /\ [Next]_vars => NumberInv'
<1> SUFFICES ASSUME NumberInv, [Next]_vars PROVE NumberInv' OBVIOUS
<1>1. RequestTypeOK' BY TypesKept DEF NumberInv
<1>2. CASE UNCHANGED vars \/ NewYear
  <2>1. req' = req /\ loans' = loans BY <1>2 DEF vars, NewYear
  <2>2. NumbersFollowTheCount' BY <2>1 DEF NumberInv, NumbersFollowTheCount
  <2>3. \A p \in Requests : Rivals(p)' = Rivals(p) BY <2>1 DEF Rivals
  <2>4. \A p \in Requests :
          Below(req[p].tenant, req[p].seq)' = Below(req[p].tenant, req[p].seq)
    BY <2>1 DEF Below, Mine
  <2>5. NumbersClaimed'
    BY <2>1, <2>3, <2>4 DEF NumberInv, NumbersClaimed, Creating, SameNumber
  <2> QED BY <1>1, <2>2, <2>5 DEF NumberInv
<1>3. ASSUME NEW q \in Requests, Call(q) PROVE NumberInv'
  BY <1>1, <1>3, ArrivalQuiet DEF NumberInv
<1>4. ASSUME NEW q \in Requests, Handle(q) PROVE NumbersClaimed' /\ NumbersFollowTheCount'
  <2>a. "400" \in Codes /\ "500" \in Codes BY DEF Codes
  <2>1. CASE SetContext(q) \/ Read(q)
    <3>1. CASE SetContext(q) BY <3>1, QuietHandled DEF SetContext
    <3>2. CASE Read(q) BY <3>2, QuietHandled DEF Read
    <3> QED BY <2>1, <3>1, <3>2
  <2>2. CASE Write(q) BY <2>2, QuietHandled DEF Write
  <2>3. CASE Begin(q) BY <2>3, QuietHandled DEF Begin
  <2>4. CASE Number(q) BY <2>4, NumberStep
  <2>5. CASE InsertLoan(q) BY <2>5, InsertStep
  <2>6. CASE Second(q) BY <2>6, QuietHandled DEF Second
  <2>7. CASE Commit(q) BY <2>7, <1>1, CommitStep DEF NumberInv
  <2>8. CASE TermsRefused(q) \/ InsertRefused(q) \/ SecondFails(q) \/ GiveUp(q)
    BY <2>8, <2>a, QuietThrows DEF TermsRefused, InsertRefused, SecondFails, GiveUp
  <2>9. CASE Encrypt(q) BY <2>9, <2>a, QuietThrows, QuietHandled DEF Encrypt
  <2>10. CASE SaveBorrower(q)
    <3>1. CASE Throws(q, "500") BY <3>1, <2>a, QuietThrows
    <3>2. CASE ~Throws(q, "500")
      <4>1. At(q, "save") /\ Handled(q) /\ loans' = loans BY <3>2, <2>10 DEF SaveBorrower
      <4> QED BY <4>1, QuietHandled
    <3> QED BY <3>1, <3>2
  <2>11. CASE ReadYear(q) BY <2>11, YearStep
  <2> QED BY <1>4, <2>1, <2>2, <2>3, <2>4, <2>5, <2>6, <2>7, <2>8, <2>9, <2>10, <2>11
      DEF Handle
<1> QED BY <1>1, <1>2, <1>3, <1>4 DEF Next, NumberInv

(* There are no loans to begin with.                                         *)
LEMMA InitialNumbers == Init => NumberInv
<1> SUFFICES ASSUME Init PROVE NumberInv OBVIOUS
<1>1. Idle \in Handler BY DEF Idle, Handler, Routes, LoanRoutes, ReaderRoutes
<1>2. RequestTypeOK
  <2>1. IsFiniteSet({}) BY FS_EmptySet
  <2>2. \A q \in Requests : req[q].at = "idle" BY DEF Init, Idle
  <2> QED BY <1>1, <2>1, <2>2 DEF Init, RequestTypeOK
<1>3. NumbersClaimed BY DEF Init, Idle, NumbersClaimed, Creating
<1>4. NumbersFollowTheCount BY DEF Init, NumbersFollowTheCount
<1> QED BY <1>2, <1>3, <1>4 DEF NumberInv

(* However many creations run at once and whenever the year ends, whatever  *)
(* tenant an earlier request left on a connection and whether or not the    *)
(* policies bind the session: the numbers createLoan gives follow the count *)
(* of the tenant's loans and are never given twice in a year.               *)
THEOREM NumbersFollow == Spec => []NumbersFollowTheCount
<1>1. NumberInv => NumbersFollowTheCount BY DEF NumberInv
<1> QED BY <1>1, InitialNumbers, NumbersKept, PTL DEF Spec

----------------------------------------------------------------------------
(* Connections *)

(* Who holds a connection is past the BEGIN of a transaction, and holds one.*)
OwnersHold ==
  \A c \in Connections : owner[c] # Nobody =>
    /\ req[owner[c]].at = "running" /\ req[owner[c]].op \in TxOps /\ req[owner[c]].step > 2
    /\ \A d \in Connections : owner[d] = owner[c] => d = c

HoldInv == RequestTypeOK /\ OwnersHold

(* A statement that is no COMMIT leaves its connection where it is.         *)
LEMMA HandledHolds ==
  ASSUME HoldInv, NEW q \in Requests, NEW s, s \notin {"begin", "commit"}, At(q, s),
         NEW r, req' = [req EXCEPT ![q] = r], owner' = owner,
         r.at = Advanced(q).at, r.op = Advanced(q).op, r.step = Advanced(q).step
  PROVE  OwnersHold'
<1> USE DEF HoldInv
<1>1. req[q].step \in Nat BY DEF RequestTypeOK, Handler
<1>2. \A p \in Requests : req'[p] = IF p = q THEN r ELSE req[p] BY DEF RequestTypeOK
<1>3. req[q].op \in TxOps =>
        r.at = "running" /\ r.op = req[q].op /\ r.step = req[q].step + 1
  BY Positions
<1> SUFFICES ASSUME NEW c \in Connections, owner[c] # Nobody
             PROVE /\ req'[owner[c]].at = "running" /\ req'[owner[c]].op \in TxOps
                   /\ req'[owner[c]].step > 2
  BY DEF OwnersHold
<1>6. owner[c] \in Requests BY DEF RequestTypeOK
<1>7. req[owner[c]].at = "running" /\ req[owner[c]].op \in TxOps /\ req[owner[c]].step > 2
  BY DEF OwnersHold
<1>8. CASE owner[c] = q BY <1>8, <1>1, <1>2, <1>3, <1>7
<1>9. CASE owner[c] # q BY <1>9, <1>2, <1>6, <1>7
<1> QED BY <1>8, <1>9

(* A statement of the service that only advances its handler.               *)
LEMMA PlainHolds ==
  ASSUME HoldInv, NEW q \in Requests, NEW s, s \notin {"begin", "commit"}, At(q, s),
         Handled(q), owner' = owner
  PROVE  OwnersHold'
<1>1. req' = [req EXCEPT ![q] = Advanced(q)] BY DEF Handled
<1> QED BY <1>1, HandledHolds

(* A transaction that ends gives back the one connection it holds.          *)
LEMMA EndHolds ==
  ASSUME HoldInv, NEW q \in Requests, NEW r, req' = [req EXCEPT ![q] = r],
         \A c \in Connections : owner'[c] = IF owner[c] = q THEN Nobody ELSE owner[c]
  PROVE  OwnersHold'
<1> USE DEF HoldInv
<1>6. \A c \in Connections : owner'[c] # Nobody =>
        owner'[c] = owner[c] /\ owner[c] # q /\ owner[c] \in Requests
  BY DEF RequestTypeOK
<1>7. \A p \in Requests : p # q => req'[p] = req[p] BY DEF RequestTypeOK
<1> SUFFICES ASSUME NEW c \in Connections, owner'[c] # Nobody
             PROVE /\ req'[owner'[c]].at = "running" /\ req'[owner'[c]].op \in TxOps
                   /\ req'[owner'[c]].step > 2
                   /\ \A d \in Connections : owner'[d] = owner'[c] => d = c
  BY DEF OwnersHold
<1>8. owner'[c] = owner[c] /\ owner[c] # q /\ owner[c] \in Requests BY <1>6
<1>9. \A d \in Connections : owner'[d] = owner'[c] => owner[d] = owner[c] BY <1>6, <1>8
<1> QED BY <1>7, <1>8, <1>9 DEF OwnersHold

(* So does a handler that throws.                                            *)
LEMMA ThrowsHolds ==
  ASSUME HoldInv, NEW q \in Requests, NEW code, Throws(q, code)
  PROVE  OwnersHold'
<1>1. req' = [req EXCEPT ![q] = [Idle EXCEPT !.at = code]] BY DEF Throws
<1>2. owner' = [c \in Connections |-> IF owner[c] = q THEN Nobody ELSE owner[c]] BY DEF Throws
<1> QED BY <1>1, <1>2, EndHolds

(* Every step keeps track of the connections.                                *)
LEMMA HoldKept ==
  HoldInv /\ [Next]_vars => HoldInv'
<1> SUFFICES ASSUME HoldInv, [Next]_vars PROVE HoldInv' OBVIOUS
<1>1. RequestTypeOK' BY TypesKept DEF HoldInv
<1>2. CASE UNCHANGED vars \/ NewYear
  BY <1>1, <1>2 DEF vars, NewYear, HoldInv, OwnersHold
<1>3. ASSUME NEW q \in Requests, Call(q) PROVE OwnersHold'
  <2>1. PICK op \in Ops, role \in Roles, token \in {"access", "id"},
             tenant \in Tenants \cup {NoTenant}, valid \in BOOLEAN :
          Arrive(q, op, role, token, tenant, valid)
    BY <1>3 DEF Call
  <2>2. owner' = owner /\ req[q].at = "idle" BY <2>1 DEF Arrive
  <2>5. \A p \in Requests : p # q => req'[p] = req[p]
    BY <2>1 DEF Arrive, HoldInv, RequestTypeOK
  <2>6. \A c \in Connections : owner[c] # Nobody => owner[c] # q /\ owner[c] \in Requests
    BY <2>2 DEF HoldInv, RequestTypeOK, OwnersHold
  <2> QED BY <2>2, <2>5, <2>6 DEF HoldInv, OwnersHold
<1>4. ASSUME NEW q \in Requests, Handle(q) PROVE OwnersHold'
  <2>1. CASE SetContext(q) BY <2>1, PlainHolds DEF SetContext
  <2>2. CASE Read(q) BY <2>2, PlainHolds DEF Read
  <2>3. CASE Write(q) BY <2>3, PlainHolds DEF Write
  <2>4. CASE Begin(q)
    <3>1. PICK c \in Free : owner' = [owner EXCEPT ![c] = q] BY <2>4 DEF Begin
    <3>2. req[q].at = "running" /\ req[q].op \in TxOps /\ req[q].step = 2
      BY <2>4, Positions DEF Begin, HoldInv
    <3>3. req' = [req EXCEPT ![q] = Advanced(q)] BY <2>4 DEF Begin, Handled
    <3>4. Advanced(q).at = "running" /\ Advanced(q).step = 3 /\ Advanced(q).op = req[q].op
      BY <2>4, <3>2, Positions DEF Begin, HoldInv
    <3>6. \A p \in Requests : req'[p] = IF p = q THEN Advanced(q) ELSE req[p]
      BY <3>3 DEF HoldInv, RequestTypeOK
    <3>7. \A d \in Connections : owner[d] # q BY <3>2, RequestConstants DEF HoldInv, OwnersHold
    <3>8. \A d \in Connections : owner'[d] = IF d = c THEN q ELSE owner[d]
      BY <3>1 DEF HoldInv, RequestTypeOK, Free
    <3> SUFFICES ASSUME NEW d \in Connections, owner'[d] # Nobody
                 PROVE /\ req'[owner'[d]].at = "running" /\ req'[owner'[d]].op \in TxOps
                       /\ req'[owner'[d]].step > 2
                       /\ \A e \in Connections : owner'[e] = owner'[d] => e = d
      BY DEF OwnersHold
    <3>9. CASE d = c BY <3>9, <3>2, <3>4, <3>6, <3>7, <3>8
    <3>10. CASE d # c
      <4>1. owner'[d] = owner[d] /\ owner[d] # Nobody /\ owner[d] # q
        BY <3>10, <3>7, <3>8
      <4>2. owner[d] \in Requests BY <4>1 DEF HoldInv, RequestTypeOK
      <4> QED BY <4>1, <4>2, <3>6, <3>8 DEF HoldInv, OwnersHold
    <3> QED BY <3>9, <3>10
  <2>5. CASE Number(q)
    <3>1. PICK n : req' = [req EXCEPT ![q] = [Advanced(q) EXCEPT !.seq = n]]
      BY <2>5 DEF Number
    <3>2. At(q, "number") /\ owner' = owner BY <2>5 DEF Number
    <3>3. Advanced(q) \in Handler BY <3>2, Positions, AdvancedFacts DEF HoldInv
    <3> DEFINE r == [Advanced(q) EXCEPT !.seq = n]
    <3>4. r.at = Advanced(q).at /\ r.op = Advanced(q).op /\ r.step = Advanced(q).step
      BY <3>3 DEF Handler
    <3> HIDE DEF r
    <3> QED BY <3>1, <3>2, <3>4, HandledHolds DEF r
  <2>6. CASE InsertLoan(q) BY <2>6, PlainHolds DEF InsertLoan
  <2>7. CASE Second(q) BY <2>7, PlainHolds DEF Second
  <2>8. CASE Commit(q)
    <3>1. req' = [req EXCEPT ![q] = Advanced(q)] /\ owner' = [owner EXCEPT ![Held(q)] = Nobody]
      BY <2>8 DEF Commit, Handled
    <3>2. \A c \in Connections : owner[c] = q => c = Held(q)
      <4> SUFFICES ASSUME NEW c \in Connections, owner[c] = q PROVE c = Held(q) OBVIOUS
      <4>1. Held(q) \in Connections /\ owner[Held(q)] = q BY DEF Held
      <4>2. q # Nobody BY RequestConstants
      <4> QED BY <4>1, <4>2 DEF HoldInv, OwnersHold
    <3>4. \A c \in Connections : owner'[c] # Nobody =>
            owner'[c] = owner[c] /\ owner[c] # q /\ owner[c] \in Requests
      BY <3>1, <3>2 DEF HoldInv, RequestTypeOK
    <3>5. \A p \in Requests : p # q => req'[p] = req[p] BY <3>1 DEF HoldInv, RequestTypeOK
    <3> SUFFICES ASSUME NEW c \in Connections, owner'[c] # Nobody
                 PROVE /\ req'[owner'[c]].at = "running" /\ req'[owner'[c]].op \in TxOps
                       /\ req'[owner'[c]].step > 2
                       /\ \A d \in Connections : owner'[d] = owner'[c] => d = c
      BY DEF OwnersHold
    <3>6. owner'[c] = owner[c] /\ owner[c] # q /\ owner[c] \in Requests BY <3>4
    <3>7. \A d \in Connections : owner'[d] = owner'[c] => owner[d] = owner[c] BY <3>4, <3>6
    <3> QED BY <3>5, <3>6, <3>7 DEF HoldInv, OwnersHold
  <2>9. CASE TermsRefused(q) \/ InsertRefused(q) \/ SecondFails(q) \/ GiveUp(q)
    BY <2>9, ThrowsHolds DEF TermsRefused, InsertRefused, SecondFails, GiveUp
  <2>10. CASE Encrypt(q) BY <2>10, PlainHolds, ThrowsHolds DEF Encrypt
  <2>11. CASE SaveBorrower(q)
    <3>1. CASE Throws(q, "500") BY <3>1, ThrowsHolds
    <3>2. CASE ~Throws(q, "500")
      <4>1. At(q, "save") /\ Handled(q) /\ owner' = owner BY <3>2, <2>11 DEF SaveBorrower
      <4> QED BY <4>1, PlainHolds
    <3> QED BY <3>1, <3>2
  <2>12. CASE ReadYear(q)
    <3>1. At(q, "year") /\ owner' = owner BY <2>12 DEF ReadYear
    <3>2. Advanced(q) \in Handler BY <3>1, Positions, AdvancedFacts DEF HoldInv
    <3> DEFINE r == [Advanced(q) EXCEPT !.year = year]
    <3>3. req' = [req EXCEPT ![q] = r] BY <2>12 DEF ReadYear
    <3>4. r.at = Advanced(q).at /\ r.op = Advanced(q).op /\ r.step = Advanced(q).step
      BY <3>2 DEF Handler
    <3> HIDE DEF r
    <3> QED BY <3>1, <3>3, <3>4, HandledHolds
  <2> QED BY <1>4, <2>1, <2>2, <2>3, <2>4, <2>5, <2>6, <2>7, <2>8, <2>9, <2>10, <2>11, <2>12
      DEF Handle
<1> QED BY <1>1, <1>2, <1>3, <1>4 DEF Next, HoldInv

(* No connection is taken to begin with.                                     *)
LEMMA InitialHolds == Init => HoldInv
<1> SUFFICES ASSUME Init PROVE HoldInv OBVIOUS
<1>1. RequestTypeOK BY InitialNumbers DEF NumberInv
<1>2. OwnersHold BY DEF Init, OwnersHold
<1> QED BY <1>1, <1>2 DEF HoldInv

(* No connection outlives its request, however many requests fail, time out *)
(* or are refused, and whatever the size of the pool.                       *)
THEOREM ConnectionsComeBack == Spec => []NoConnectionLeaks
<1>1. HoldInv => NoConnectionLeaks
  <2> SUFFICES ASSUME HoldInv, NEW c \in Connections, owner[c] # Nobody
               PROVE /\ req[owner[c]].at = "running"
                     /\ \E i \in 1 .. req[owner[c]].step - 1 :
                          Program[req[owner[c]].op][i] = "begin"
    BY DEF NoConnectionLeaks
  <2>1. req[owner[c]].at = "running" /\ req[owner[c]].op \in TxOps /\ req[owner[c]].step > 2
        /\ owner[c] \in Requests
    BY DEF HoldInv, RequestTypeOK, OwnersHold
  <2>2. req[owner[c]].op \in Routes /\ req[owner[c]].step \in Nat
        /\ req[owner[c]].step \in 1 .. Len(Program[req[owner[c]].op])
    BY <2>1 DEF HoldInv, RequestTypeOK, Handler
  <2>3. 2 \in 1 .. Len(Program[req[owner[c]].op]) BY <2>1, <2>2, ProgramFacts
  <2>4. Program[req[owner[c]].op][2] = "begin" BY <2>1, <2>2, <2>3, ProgramFacts
  <2>5. 2 \in 1 .. req[owner[c]].step - 1 BY <2>1, <2>2
  <2> QED BY <2>1, <2>4, <2>5
<1> QED BY <1>1, InitialHolds, HoldKept, PTL DEF Spec

(* The page that creates loans is one of the clients: what holds of any     *)
(* requests holds with the page in front of them.                           *)
THEOREM FormIsAClient == FormSpec => Spec
<1>1. FormInit => Init BY DEF FormInit
<1>2. [Browser \/ Server]_fvars => [Next]_vars
  <2> SUFFICES ASSUME [Browser \/ Server]_fvars PROVE [Next]_vars OBVIOUS
  <2>1. CASE Server BY <2>1 DEF Server, Next, Browser
  <2>2. CASE UNCHANGED fvars BY <2>2 DEF fvars
  <2>3. ASSUME NEW q \in FormRequests, Submit(q) PROVE Next
    <3>1. q \in Requests /\ "access" \in {"access", "id"} BY FormConstants
    <3>2. PICK maturity \in BOOLEAN :
            Arrive(q, "createLoan", FormRole, "access", FormTenant, maturity)
      BY <2>3 DEF Submit
    <3>3. Call(q) BY <3>1, <3>2, FormConstants DEF Call
    <3> QED BY <3>1, <3>3 DEF Next
  <2>4. CASE AnswerOk \/ AnswerError \/ AnswerLost \/ Leave
    BY <2>4 DEF AnswerOk, AnswerError, AnswerLost, Leave
  <2> QED BY <2>1, <2>2, <2>3, <2>4 DEF Browser
<1> QED BY <1>1, <1>2, PTL DEF FormSpec, Spec

----------------------------------------------------------------------------
(* The page that creates loans *)

(* A handler changes its own request only, and a loan it adds is committed  *)
(* by its last statement.                                                   *)
LEMMA HandleEffect ==
  ASSUME RequestTypeOK, NEW q \in Requests, Handle(q)
  PROVE  /\ \A p \in Requests : p # q => req'[p] = req[p]
         /\ req[q].at = "running" /\ req'[q].at # "idle"
         /\ \/ loans' = loans
            \/ /\ req'[q].at = "200"
               /\ \E x : x.by = q /\ loans' = loans \cup {x}
<1>a. req[q].at = "running" BY RunningHandles
<1>t. req \in [Requests -> Handler] /\ req[q] \in Handler BY DEF RequestTypeOK
<1>v. Advanced(q) \in Handler /\ Advanced(q).at # "idle" BY <1>a, AdvancedFacts
<1>h. ASSUME Handled(q) PROVE (\A p \in Requests : p # q => req'[p] = req[p]) /\ req'[q].at # "idle"
  BY <1>h, <1>t, <1>v DEF Handled
<1>w. ASSUME NEW code \in Codes, Throws(q, code)
      PROVE  (\A p \in Requests : p # q => req'[p] = req[p]) /\ req'[q].at # "idle" /\ loans' = loans
  BY <1>w, <1>t, AnsweredFacts DEF Throws
<1>b. "400" \in Codes /\ "500" \in Codes BY DEF Codes
<1>1. CASE SetContext(q) \/ Read(q) \/ Write(q) \/ Begin(q) \/ InsertLoan(q) \/ Second(q)
  BY <1>1, <1>a, <1>h DEF SetContext, Read, Write, Begin, InsertLoan, Second
<1>2. CASE TermsRefused(q) \/ InsertRefused(q) \/ SecondFails(q) \/ GiveUp(q)
  BY <1>2, <1>a, <1>b, <1>w DEF TermsRefused, InsertRefused, SecondFails, GiveUp
<1>3. CASE ReadYear(q)
  <2>1. req' = [req EXCEPT ![q] = [Advanced(q) EXCEPT !.year = year]] /\ loans' = loans
    BY <1>3 DEF ReadYear
  <2>2. req'[q].at = Advanced(q).at BY <2>1, <1>t, <1>v DEF Handler
  <2> QED BY <2>1, <2>2, <1>a, <1>t, <1>v
<1>4. CASE Number(q)
  <2>1. PICK n : req' = [req EXCEPT ![q] = [Advanced(q) EXCEPT !.seq = n]] /\ loans' = loans
    BY <1>4 DEF Number
  <2>2. req'[q].at = Advanced(q).at BY <2>1, <1>t, <1>v DEF Handler
  <2> QED BY <2>1, <2>2, <1>a, <1>t, <1>v
<1>5. CASE Commit(q)
  <2>1. Handled(q) /\ (loans' = loans \/ loans' = loans \cup
                        {[tenant |-> req[q].tenant, year |-> req[q].year,
                          number |-> req[q].seq, by |-> q]})
    BY <1>5 DEF Commit
  <2>2. req'[q].at = "200"
    <3>1. Program[req[q].op][req[q].step] = "commit" BY <1>5 DEF Commit, At
    <3>2. req[q].op \in Routes /\ req[q].step \in 1 .. Len(Program[req[q].op])
      BY <1>a, <1>t DEF RequestTypeOK, Handler
    <3>3. req[q].step = Len(Program[req[q].op]) BY <3>1, <3>2, ProgramFacts
    <3>4. Advanced(q).at = "200" BY <3>3, <1>a, AdvancedFacts
    <3> QED BY <2>1, <3>4, <1>t DEF Handled
  <2> QED BY <2>1, <2>2, <1>a, <1>h
<1>6. CASE Encrypt(q) BY <1>6, <1>a, <1>b, <1>h, <1>w DEF Encrypt
<1>7. CASE SaveBorrower(q) BY <1>7, <1>a, <1>b, <1>h, <1>w DEF SaveBorrower
<1> QED BY <1>1, <1>2, <1>3, <1>4, <1>5, <1>6, <1>7 DEF Handle

(* Submissions of the page that may have created a loan, or still may.      *)
Live == {q \in FormRequests : req[q].at \in {"running", "200"}}

(* All but the one the page is about were given up on a lost answer; what a *)
(* request created, it created once, and it has been answered.              *)
FormInv ==
  /\ IsFiniteSet(Live) /\ lostAnswers \in Nat
  /\ page = "editing" => Cardinality(Live) <= lostAnswers
  /\ page = "submitting" => /\ pending \in FormRequests
                            /\ Cardinality(Live \ {pending}) <= lostAnswers
  /\ Cardinality(Live) <= 1 + lostAnswers
  /\ \A x \in loans : req[x.by].at = "200"
  /\ \A x, y \in loans : x.by = y.by => x = y

(* A created loan is one of a live submission, and a submission creates one *)
(* loan.                                                                    *)
LEMMA LoansOfLive ==
  ASSUME RequestTypeOK, FormInv
  PROVE  SecondLoanNeedsALostAnswer
<1> DEFINE S == {x \in loans : x.by \in FormRequests}
           f == [x \in S |-> x.by]
<1>1. f \in Injection(S, Live)
  <2>1. \A x \in S : f[x] \in Live BY DEF FormInv, Live
  <2>2. \A x, y \in S : f[x] = f[y] => x = y BY DEF FormInv
  <2> QED BY <2>1, <2>2 DEF Injection, IsInjective
<1>2. IsFiniteSet(S)
  <2>1. S \subseteq loans OBVIOUS
  <2> QED BY <2>1, FS_Subset DEF RequestTypeOK
<1>3. IsFiniteSet(Live) /\ Cardinality(Live) <= 1 + lostAnswers /\ lostAnswers \in Nat
  BY DEF FormInv
<1> HIDE DEF S, f
<1>4. Cardinality(S) <= Cardinality(Live) BY <1>1, <1>3, FS_Injection
<1>5. Cardinality(S) \in Nat /\ Cardinality(Live) \in Nat BY <1>2, <1>3, FS_CardinalityType
<1>6. Cardinality(S) <= 1 + lostAnswers BY <1>3, <1>4, <1>5
<1> QED BY <1>6 DEF SecondLoanNeedsALostAnswer, S

(* Fewer live submissions, the same page, more lost answers.                *)
LEMMA FewerLive ==
  ASSUME NEW A, NEW B, IsFiniteSet(B), A \subseteq B
  PROVE  /\ IsFiniteSet(A) /\ Cardinality(A) <= Cardinality(B)
         /\ Cardinality(A) \in Nat /\ Cardinality(B) \in Nat
BY FS_Subset, FS_CardinalityType

(* Every step of the page and of the server keeps the loans of the page      *)
(* counted.                                                                  *)
LEMMA FormKept ==
  RequestTypeOK /\ FormInv /\ [Browser \/ Server]_fvars => FormInv'
<1> SUFFICES ASSUME RequestTypeOK, FormInv, [Browser \/ Server]_fvars PROVE FormInv' OBVIOUS
<1>f. /\ IsFiniteSet(Live) /\ lostAnswers \in Nat /\ Cardinality(Live) \in Nat
      /\ FormRequests \subseteq Requests /\ MaxLost \in Nat
  BY FormConstants, FS_CardinalityType DEF FormInv
<1>c. "running" \notin Codes /\ "idle" \notin Codes BY DEF Codes
(* a step of the page that sends nothing *)
<1>p. ASSUME UNCHANGED vars
      PROVE  /\ Live' = Live
             /\ (\A x \in loans : req[x.by].at = "200")'
             /\ (\A x, y \in loans : x.by = y.by => x = y)'
  BY <1>p DEF vars, Live, FormInv
<1>1. ASSUME NEW q \in FormRequests, Submit(q) PROVE FormInv'
  <2>1. PICK maturity \in BOOLEAN :
          Arrive(q, "createLoan", FormRole, "access", FormTenant, maturity)
    BY <1>1 DEF Submit
  <2>2. /\ page = "editing" /\ page' = "submitting" /\ pending' = q /\ lostAnswers' = lostAnswers
        /\ loans' = loans /\ req[q].at = "idle" /\ q \in Requests
    BY <1>1, <1>f, <2>1 DEF Submit, CanSubmit, Arrive
  <2>3. \A p \in Requests : p # q => req'[p] = req[p]
    BY <2>1 DEF Arrive, RequestTypeOK
  <2>4. Live' \subseteq Live \cup {q} /\ Live' \ {q} \subseteq Live
    BY <1>f, <2>3 DEF Live
  <2>5. q \notin Live BY <2>2 DEF Live
  <2>6. IsFiniteSet(Live \cup {q}) /\ Cardinality(Live \cup {q}) = Cardinality(Live) + 1
    BY <1>f, <2>5, FS_AddElement
  <2>7. Cardinality(Live) <= lostAnswers BY <2>2 DEF FormInv
  <2>8. /\ IsFiniteSet(Live') /\ Cardinality(Live') <= Cardinality(Live \cup {q})
        /\ Cardinality(Live') \in Nat
    BY <2>4, <2>6, FewerLive
  <2>9. Cardinality(Live' \ {q}) <= Cardinality(Live) /\ Cardinality(Live' \ {q}) \in Nat
    BY <1>f, <2>4, FewerLive
  <2>10. Cardinality(Live') <= 1 + lostAnswers BY <1>f, <2>6, <2>7, <2>8
  <2>11. Cardinality(Live' \ {q}) <= lostAnswers BY <1>f, <2>7, <2>9
  <2>12. \A x \in loans : req'[x.by].at = "200"
    <3> SUFFICES ASSUME NEW x \in loans PROVE req'[x.by].at = "200" OBVIOUS
    <3>1. x.by \in Requests /\ req[x.by].at = "200" BY DEF RequestTypeOK, Row, FormInv
    <3> QED BY <2>2, <2>3, <3>1
  <2> QED BY <1>1, <1>f, <2>2, <2>8, <2>10, <2>11, <2>12 DEF FormInv
<1>2. CASE AnswerOk
  <2>1. page' = "success" /\ lostAnswers' = lostAnswers /\ UNCHANGED vars
    BY <1>2 DEF AnswerOk
  <2> QED BY <1>p, <2>1 DEF FormInv
<1>3. CASE AnswerError
  <2>1. /\ page = "submitting" /\ page' = "editing" /\ lostAnswers' = lostAnswers /\ UNCHANGED vars
        /\ req[pending].at \notin {"running", "200"}
    BY <1>3, <1>c DEF AnswerError
  <2>2. pending \notin Live BY <2>1 DEF Live
  <2>3. Live \ {pending} = Live BY <2>2
  <2>4. Cardinality(Live) <= lostAnswers BY <2>1, <2>3 DEF FormInv
  <2> QED BY <1>p, <2>1, <2>4 DEF FormInv
<1>4. CASE AnswerLost
  <2>1. /\ page' = "editing" /\ lostAnswers' = lostAnswers + 1 /\ UNCHANGED vars
    BY <1>4 DEF AnswerLost
  <2>2. Cardinality(Live) <= lostAnswers' /\ Cardinality(Live) <= 1 + lostAnswers'
        /\ lostAnswers' \in Nat
    BY <1>f, <2>1 DEF FormInv
  <2> QED BY <1>p, <2>1, <2>2 DEF FormInv
<1>5. CASE Leave
  <2>1. page' = "left" /\ lostAnswers' = lostAnswers /\ UNCHANGED vars
    BY <1>5 DEF Leave
  <2> QED BY <1>p, <2>1 DEF FormInv
<1>6. CASE Server /\ ~NewYear
  <2>0. page' = page /\ pending' = pending /\ lostAnswers' = lostAnswers
    BY <1>6 DEF Server, formVars
  <2>1. PICK q \in Requests : (q \notin FormRequests /\ Call(q)) \/ Handle(q)
    BY <1>6 DEF Server
  <2>2. /\ \A p \in Requests : p # q => req'[p] = req[p]
        /\ req'[q].at \in {"running", "200"} => q \notin FormRequests \/ req[q].at = "running"
        /\ \/ loans' = loans /\ req[q].at # "200"
           \/ /\ req'[q].at = "200" /\ req[q].at = "running"
              /\ \E x : x.by = q /\ loans' = loans \cup {x}
    <3>1. CASE q \notin FormRequests /\ Call(q)
      <4>1. req[q].at = "idle" /\ loans' = loans /\ \A p \in Requests : p # q => req'[p] = req[p]
        BY <3>1 DEF Call, Arrive, RequestTypeOK
      <4> QED BY <3>1, <4>1
    <3>2. CASE Handle(q)
      BY <3>2, HandleEffect
    <3> QED BY <2>1, <3>1, <3>2
  <2>3. Live' \subseteq Live
    BY <1>f, <2>2 DEF Live
  <2>4. IsFiniteSet(Live') /\ Cardinality(Live') <= Cardinality(Live) /\ Cardinality(Live') \in Nat
    BY <1>f, <2>3, FewerLive
  <2>5. Cardinality(Live') <= 1 + lostAnswers /\ (page = "editing" => Cardinality(Live') <= lostAnswers)
    BY <1>f, <2>4 DEF FormInv
  <2>6. page = "submitting" => Cardinality(Live' \ {pending}) <= lostAnswers
    <3> SUFFICES ASSUME page = "submitting" PROVE Cardinality(Live' \ {pending}) <= lostAnswers
      OBVIOUS
    <3>1. Live' \ {pending} \subseteq Live \ {pending} /\ Live \ {pending} \subseteq Live
      BY <2>3
    <3>2. IsFiniteSet(Live \ {pending}) BY <1>f, <3>1, FewerLive
    <3>3. /\ Cardinality(Live' \ {pending}) <= Cardinality(Live \ {pending})
          /\ Cardinality(Live' \ {pending}) \in Nat /\ Cardinality(Live \ {pending}) \in Nat
      BY <3>1, <3>2, FewerLive
    <3>4. Cardinality(Live \ {pending}) <= lostAnswers BY DEF FormInv
    <3> QED BY <1>f, <3>3, <3>4
  <2>7. \A x \in loans : req'[x.by].at = "200"
    <3> SUFFICES ASSUME NEW x \in loans PROVE req'[x.by].at = "200" OBVIOUS
    <3>1. x.by \in Requests /\ req[x.by].at = "200" BY DEF RequestTypeOK, Row, FormInv
    <3> QED BY <2>2, <3>1
  <2>8. (\A x \in loans' : req'[x.by].at = "200") /\ (\A x, y \in loans' : x.by = y.by => x = y)
    <3>1. CASE loans' = loans BY <2>7, <3>1 DEF FormInv
    <3>2. CASE loans' # loans
      <4>1. PICK x : x.by = q /\ loans' = loans \cup {x} BY <2>2, <3>2
      <4>2. req'[q].at = "200" /\ req[q].at = "running" BY <2>2, <3>2
      <4>3. \A y \in loans : y.by # q BY <4>2 DEF FormInv
      <4> QED BY <2>7, <4>1, <4>2, <4>3 DEF FormInv
    <3> QED BY <3>1, <3>2
  <2> QED BY <2>0, <2>4, <2>5, <2>6, <2>8 DEF FormInv
<1>8. CASE Server /\ NewYear
  <2>1. page' = page /\ pending' = pending /\ lostAnswers' = lostAnswers
    BY <1>8 DEF Server, formVars
  <2>2. req' = req /\ loans' = loans BY <1>8 DEF NewYear
  <2> QED BY <2>1, <2>2 DEF FormInv, Live
<1>7. CASE UNCHANGED fvars
  <2>1. UNCHANGED vars /\ page' = page /\ pending' = pending /\ lostAnswers' = lostAnswers
    BY <1>7 DEF fvars, formVars
  <2> QED BY <1>p, <2>1 DEF FormInv
<1> QED BY <1>1, <1>2, <1>3, <1>4, <1>5, <1>6, <1>7, <1>8 DEF Browser

(* However often the user clicks, cancels or tries again, the page creates  *)
(* one loan, and one more for each answer that was lost on its way.         *)
THEOREM OneLoanPerClick == FormSpec => []SecondLoanNeedsALostAnswer
<1>1. FormInit => RequestTypeOK BY InitialNumbers DEF FormInit, NumberInv
<1>2. FormInit => FormInv
  <2> SUFFICES ASSUME FormInit PROVE FormInv OBVIOUS
  <2>1. Live = {} BY FormConstants DEF FormInit, Init, Idle, Live
  <2>2. loans = {} /\ page = "editing" /\ lostAnswers = 0 BY DEF FormInit, Init
  <2>3. IsFiniteSet({}) /\ Cardinality({}) = 0 BY FS_EmptySet
  <2> QED BY <2>1, <2>2, <2>3 DEF FormInv
<1>3. RequestTypeOK /\ FormInv => SecondLoanNeedsALostAnswer BY LoansOfLive
<1> QED BY <1>1, <1>2, <1>3, TypesKept, FormKept, FormIsAClient, PTL DEF FormSpec, Spec
=============================================================================
