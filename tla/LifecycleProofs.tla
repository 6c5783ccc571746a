-------------------------- MODULE LifecycleProofs --------------------------
(***************************************************************************)
(* Proofs about LoanLifecycle, for any number of requests and any terms:   *)
(* the rows keep their types, a schedule is the work of one call and is    *)
(* not taken from under a payment, the balance is backed by disbursements, *)
(* the terms are recorded, and the schedule follows the loan.              *)
(***************************************************************************)
EXTENDS LoanLifecycle, SumTheorems

----------------------------------------------------------------------------
(* The inductive invariant *)

\* a loan that was activated; a transaction under way; one whose entity is in the
\* database for itself
Begun   == OpenStatuses \cup {"PAID_OFF"}
Running == {"compare", "save", "delete", "items", "commit"}
Saved   == {"delete", "items", "commit"}

Shapes ==
  /\ TypeOK
  /\ draws \in [Draws -> DrawRows \cup {None}]
  /\ own \in [Writers -> LoanRows \cup {None}]
  /\ DOMAIN ent = Requests /\ DOMAIN change = Requests

\* disbursements cover a balance, which is said while no payment was given back but of
\* those the balance counts
Backed(row) == row.outstanding <= AmountOf(funded)
Sound == PaymentsIn("REVERSED") = {} \/ flaws = {}

\* where each kind of request may be, and what it holds there
DrawOK(s) ==
  /\ pc[s] \in {"idle", "sum", "insert"} \cup Ended
  /\ pc[s] \in {"sum", "insert"} => draws[s] = None /\ ent[s] \in Amounts

ApprovalOK(s) ==
  /\ pc[s] \in {"idle", "approve"} \cup Ended
  /\ pc[s] = "approve" => change[s] \in Drawn

TransactionOK(s) ==
  /\ pc[s] \in {"idle"} \cup Running \cup Ended
  /\ pc[s] \in Running => ent[s] \in LoanRows
  /\ pc[s] \notin Saved => own[s] = None

\* the balance a transaction may write back
BackedOK(s) ==
  Sound => /\ pc[s] \in Running => Backed(ent[s])
           /\ own[s] # None => Backed(own[s])

\* every term is the original one or one that a modification asked for
TermsFrom(row, M) ==
  /\ row.rate = Loan0.rate \/ \E m \in M : change[m].rate = row.rate
  /\ row.maturity = Loan0.maturity \/ \E m \in M : change[m].maturity = row.maturity
TermsOK(s) ==
  LET M == records \cup ({s} \cap Modifications) IN
  /\ pc[s] \in Running => TermsFrom(ent[s], M)
  /\ own[s] # None => TermsFrom(own[s], M)

\* modifications find the loan begun and it stays so; activations begin it
OpenOK(s) ==
  /\ s \in Modifications /\ pc[s] \in Running => loan.status \in Begun
  /\ pc[s] \in Running => ent[s].status \in Begun
  /\ pc[s] = "save" => "status" \in cols[s] \/ loan.status \in Begun
  /\ pc[s] \in Saved => Seen(s).status \in Begun

Kept(s) == TransactionOK(s) /\ BackedOK(s) /\ TermsOK(s) /\ OpenOK(s)

\* a payment, and the installment its allocation holds
PayerOK(s) ==
  /\ pc[s] \in {"idle", "allocate", "settle"} \cup Ended
  /\ pc[s] # "done" => payments[s] = None
  /\ pc[s] \in {"allocate", "settle"} =>
       /\ ent[s] \in LoanRows /\ ent[s].status \in OpenStatuses /\ loan.status \in Begun
       /\ change[s].amount \in Receipts /\ change[s].item \in ItemRows \cup {None}
       /\ Sound => Backed(ent[s])
  /\ pc[s] = "settle" => change[s].item \in schedule \cup {None}

\* a reversal, and the balance it has incremented
ReversalOK(s) ==
  /\ pc[s] \in {"idle", "increment", "unpay"} \cup Ended
  /\ pc[s] \in {"increment", "unpay"} => change[s] \in Received
  /\ own[s] = IF pc[s] = "unpay"
                THEN [loan EXCEPT !.outstanding = @ + payments[change[s]].amount]
                ELSE None

OK(s) ==
  /\ s \in Draws => DrawOK(s)
  /\ s \in Approvals => ApprovalOK(s)
  /\ s \in Transactions => Kept(s)
  /\ s \in Payers => PayerOK(s)
  /\ s \in Reversals => ReversalOK(s)

\* the row lock
OneHolder == \A s, t \in Writers : own[s] # None /\ own[t] # None => s = t
Balance ==
  /\ Sound => Backed(loan)
  /\ flaws = {} => loan.outstanding + Applied <= AmountOf(funded)
Recorded ==
  /\ \A s \in Modifications : s \in records <=> pc[s] = "done"
  /\ \A s \in Activations : s \in activated <=> pc[s] = "done"
  /\ IsFiniteSet(records) /\ IsFiniteSet(activated)
  /\ TermsFrom(loan, records)

Shared ==
  /\ Paid \subseteq funded /\ Balance /\ OneHolder /\ Recorded
  /\ SchedulesAreWhole /\ PaidItemsStay

LifecycleInv == Shapes /\ Shared /\ \A s \in Requests : OK(s)

----------------------------------------------------------------------------
(* Facts about the constants and the rows *)

(* The kinds of requests are disjoint.                                      *)
LEMMA Kinds ==
  /\ Requests = Draws \cup Approvals \cup Payers \cup Reversals \cup Transactions
  /\ Transactions = Activations \cup Modifications /\ Writers = Transactions \cup Reversals
  /\ \A s \in Transactions : /\ s \in Requests /\ s \in Writers
                             /\ s \notin Draws \cup Approvals \cup Payers \cup Reversals
  /\ \A s \in Reversals : /\ s \in Requests /\ s \in Writers
                          /\ s \notin Draws \cup Approvals \cup Payers \cup Transactions
  /\ \A s \in Draws : /\ s \in Requests
                      /\ s \notin Approvals \cup Payers \cup Writers \cup Reversals \cup Transactions
  /\ \A s \in Approvals : /\ s \in Requests
                          /\ s \notin Draws \cup Payers \cup Writers \cup Reversals \cup Transactions
  /\ \A s \in Payers : /\ s \in Requests
                       /\ s \notin Draws \cup Approvals \cup Writers \cup Reversals \cup Transactions
  /\ \A s \in Activations : s \in Transactions /\ s \notin Modifications
  /\ \A s \in Modifications : s \in Transactions /\ s \notin Activations
BY LifecycleConstants DEF Requests, Writers, Transactions

(* The columns of a loan row.                                               *)
LEMMA LoanRowFacts ==
  ASSUME NEW row \in LoanRows
  PROVE  /\ row # None /\ DOMAIN row = LoanColumns
         /\ row.status \in {"PENDING", "APPROVED", "PAID_OFF"} \cup OpenStatuses
         /\ row.outstanding \in Nat /\ row.rate \in Rates
         /\ row.maturity \in Spans /\ row.maturity \in Nat \ {0}
<1>1. row # None BY LifecycleConstants
<1>2. DOMAIN row = LoanColumns BY DEF LoanRows, LoanColumns
<1>3. /\ row.status \in {"PENDING", "APPROVED", "PAID_OFF"} \cup OpenStatuses
      /\ row.outstanding \in Nat /\ row.rate \in Rates /\ row.maturity \in Spans
  BY DEF LoanRows
<1>4. row.maturity \in Nat \ {0} BY <1>3, LifecycleConstants
<1> QED BY <1>1, <1>2, <1>3, <1>4

(* A function that gives every column a value of its type is a loan row.    *)
LEMMA ColumnsMakeRow ==
  ASSUME NEW row, row = [c \in LoanColumns |-> row[c]],
         row.status \in {"PENDING", "APPROVED", "PAID_OFF"} \cup OpenStatuses,
         row.outstanding \in Nat, row.rate \in Rates, row.maturity \in Spans
  PROVE  row \in LoanRows
<1>1. row = [status |-> row.status, outstanding |-> row.outstanding,
             rate |-> row.rate, maturity |-> row.maturity]
  BY DEF LoanColumns
<1> QED BY <1>1 DEF LoanRows

(* A row saved column by column, some from the entity and some from the     *)
(* database, is a row with the columns of the one or of the other.          *)
LEMMA MixedLoan ==
  ASSUME NEW old \in LoanRows, NEW new \in LoanRows, NEW C,
         NEW row, row = [c \in LoanColumns |-> IF c \in C THEN new[c] ELSE old[c]]
  PROVE  /\ row \in LoanRows
         /\ row.status = IF "status" \in C THEN new.status ELSE old.status
         /\ row.outstanding = IF "outstanding" \in C THEN new.outstanding ELSE old.outstanding
         /\ row.rate = IF "rate" \in C THEN new.rate ELSE old.rate
         /\ row.maturity = IF "maturity" \in C THEN new.maturity ELSE old.maturity
<1>1. /\ row.status = IF "status" \in C THEN new.status ELSE old.status
      /\ row.outstanding = IF "outstanding" \in C THEN new.outstanding ELSE old.outstanding
      /\ row.rate = IF "rate" \in C THEN new.rate ELSE old.rate
      /\ row.maturity = IF "maturity" \in C THEN new.maturity ELSE old.maturity
  BY DEF LoanColumns
<1>2. row = [c \in LoanColumns |-> row[c]] OBVIOUS
<1>3. /\ row.status \in {"PENDING", "APPROVED", "PAID_OFF"} \cup OpenStatuses
      /\ row.outstanding \in Nat /\ row.rate \in Rates /\ row.maturity \in Spans
  BY <1>1, LoanRowFacts
<1>4. row \in LoanRows BY <1>2, <1>3, ColumnsMakeRow
<1> QED BY <1>1, <1>4

(* The disbursed amounts are amounts.                                       *)
LEMMA AmountNat ==
  ASSUME Shapes, NEW D \in SUBSET Drawn
  PROVE  AmountOf(D) \in Nat
<1> DEFINE f == [d \in D |-> draws[d].amount]
<1>1. IsFiniteSet(D) BY LifecycleConstants, FS_Subset DEF Drawn
<1>2. \A d \in D : draws[d] \in DrawRows BY DEF Shapes, TypeOK
<1>3. \A d \in D : f[d] \in Nat BY <1>2, LifecycleConstants DEF DrawRows
<1> HIDE DEF f
<1>4. SumFunctionOnSet(f, D) \in Nat BY <1>1, <1>3, SumNat
<1> QED BY <1>4 DEF AmountOf, f

(* More disbursements, with the amounts they had, are worth no less.        *)
LEMMA AmountGrows ==
  ASSUME NEW f, NEW g, NEW S, NEW T, IsFiniteSet(T), S \subseteq T,
         \A x \in S : f[x] \in Nat /\ g[x] = f[x], \A x \in T : g[x] \in Nat
  PROVE  SumFunctionOnSet(f, S) <= SumFunctionOnSet(g, T)
<1>1. IsFiniteSet(S) BY FS_Subset
<1>2. SumFunctionOnSet(f, S) = SumFunctionOnSet(g, S) BY <1>1, SumSame
<1>3. SumFunctionOnSet(g, S) <= SumFunctionOnSet(g, T) BY SumSubset
<1> QED BY <1>2, <1>3

(* What a transaction sees of the loan is a row.                            *)
LEMMA SeenTyped ==
  ASSUME Shapes, NEW s \in Transactions
  PROVE  /\ loan \in LoanRows /\ Seen(s) \in LoanRows
         /\ own[s] # None => own[s] \in LoanRows /\ Seen(s) = own[s]
         /\ own[s] = None => Seen(s) = loan
BY Kinds DEF Shapes, TypeOK, Seen

(* A payment that was received is a row, and amounts are natural numbers.   *)
LEMMA ReceivedFacts ==
  ASSUME Shapes, NEW p \in Received
  PROVE  /\ p \in Payers /\ payments[p] # None /\ payments[p] \in PaymentRows
         /\ payments[p].amount \in Receipts /\ payments[p].amount \in Nat
         /\ payments[p].item \in ItemRows \cup {None}
         /\ payments[p].status \in {"APPLIED", "REVERSED"}
<1>1. p \in Payers /\ payments[p] # None BY DEF Received, PaymentsIn
<1>2. payments[p] \in PaymentRows BY <1>1 DEF Shapes, TypeOK
<1> QED BY <1>1, <1>2, LifecycleConstants DEF PaymentRows

(* What the payments in force took off the balance is a natural number.     *)
LEMMA AppliedNat ==
  ASSUME Shapes
  PROVE  Applied \in Nat /\ IsFiniteSet(PaymentsIn("APPLIED"))
<1> DEFINE S == PaymentsIn("APPLIED")
           f == [p \in S |-> payments[p].amount]
<1>1. S \subseteq Payers BY DEF PaymentsIn
<1>2. IsFiniteSet(S) BY <1>1, LifecycleConstants, FS_Subset
<1>3. \A p \in S : payments[p].amount \in Nat BY ReceivedFacts DEF Received
<1>4. \A p \in S : f[p] \in Nat BY <1>3
<1> HIDE DEF f, S
<1>5. SumFunctionOnSet(f, S) \in Nat BY <1>2, <1>4, SumNat
<1> QED BY <1>2, <1>5 DEF Applied, f, S

(* A payment adds its amount.                                               *)
LEMMA AppliedGrows ==
  ASSUME Shapes, NEW s \in Payers, payments[s] = None, NEW row \in PaymentRows,
         row.status = "APPLIED", payments' = [payments EXCEPT ![s] = row]
  PROVE  Applied' = Applied + row.amount
<1> DEFINE S == PaymentsIn("APPLIED")
           f == [p \in S |-> payments[p].amount]
           g == [p \in S \cup {s} |-> payments'[p].amount]
<1>0. payments \in [Payers -> PaymentRows \cup {None}] /\ row # None
  BY LifecycleConstants DEF Shapes, TypeOK
<1>1. payments'[s] = row /\ \A p \in Payers \ {s} : payments'[p] = payments[p] BY <1>0
<1>2. s \notin S /\ S \subseteq Payers BY DEF PaymentsIn
<1>3. PaymentsIn("APPLIED")' = S \cup {s} BY <1>0, <1>1, <1>2 DEF PaymentsIn
<1>4. \A p \in S : payments[p].amount \in Nat BY ReceivedFacts DEF Received
<1>5. \A p \in S : f[p] \in Int /\ g[p] = f[p] BY <1>1, <1>2, <1>4
<1>6. row.amount \in Nat BY LifecycleConstants DEF PaymentRows
<1>7. g[s] = row.amount BY <1>1
<1>8. IsFiniteSet(S) BY AppliedNat
<1>9. Applied = SumFunctionOnSet(f, S) BY DEF Applied
<1>10. Applied' = SumFunctionOnSet(g, S \cup {s}) BY <1>3 DEF Applied
<1> HIDE DEF f, g, S
<1> QED BY <1>2, <1>5, <1>6, <1>7, <1>8, <1>9, <1>10, SumGrow

(* A payment given back takes its amount away.                              *)
LEMMA AppliedShrinks ==
  ASSUME Shapes, NEW p \in PaymentsIn("APPLIED"),
         payments' = [payments EXCEPT ![p].status = "REVERSED"]
  PROVE  Applied = payments[p].amount + Applied' /\ Applied' \in Nat
<1> DEFINE S == PaymentsIn("APPLIED")
           f == [q \in S |-> payments[q].amount]
           g == [q \in S \ {p} |-> payments'[q].amount]
<1>0. payments \in [Payers -> PaymentRows \cup {None}] /\ p \in Payers /\ payments[p] \in PaymentRows
  BY ReceivedFacts DEF Shapes, TypeOK, Received
<1>1. payments'[p].status = "REVERSED" /\ \A q \in Payers \ {p} : payments'[q] = payments[q]
  BY <1>0 DEF PaymentRows
<1>2. S \subseteq Payers BY DEF PaymentsIn
<1>3. PaymentsIn("APPLIED")' = S \ {p} BY <1>1, <1>2 DEF PaymentsIn
<1>4. \A q \in S : payments[q].amount \in Nat BY ReceivedFacts DEF Received
<1>5. \A q \in S : f[q] \in Int BY <1>4
<1>6. \A q \in S \ {p} : f[q] \in Int /\ g[q] = f[q] BY <1>1, <1>2, <1>4
<1>n. \A q \in S \ {p} : g[q] \in Nat BY <1>1, <1>2, <1>4
<1>7. IsFiniteSet(S) BY AppliedNat
<1>8. f[p] = payments[p].amount OBVIOUS
<1>9. Applied = SumFunctionOnSet(f, S) BY DEF Applied
<1>10. Applied' = SumFunctionOnSet(g, S \ {p}) BY <1>3 DEF Applied
<1>11. p \in S OBVIOUS
<1> HIDE DEF f, g, S
<1>12. SumFunctionOnSet(f, S) = f[p] + SumFunctionOnSet(f, S \ {p}) BY <1>5, <1>7, <1>11, SumRemove
<1>13. IsFiniteSet(S \ {p}) BY <1>7, FS_Subset
<1>14. SumFunctionOnSet(f, S \ {p}) = SumFunctionOnSet(g, S \ {p}) BY <1>6, <1>13, SumSame
<1>15. SumFunctionOnSet(g, S \ {p}) \in Nat BY <1>n, <1>13, SumNat
<1> QED BY <1>8, <1>9, <1>10, <1>12, <1>14, <1>15

----------------------------------------------------------------------------
(* What a step of one request leaves true of the others *)

\* disbursements stay and keep their amounts, and what is disbursed was funded
DrawsGrow ==
  /\ Drawn \subseteq Drawn'
  /\ \A d \in funded : draws'[d].amount = draws[d].amount
  /\ funded \subseteq funded'
  /\ Paid' \subseteq funded'

\* the tables: records and payments only appear, a loan that has begun does not go back,
\* no schedule is taken from under an allocation, and a locked row of the loan stays
TablesGrow ==
  /\ Sound' => Sound
  /\ records \subseteq records' /\ \A m \in records : change'[m] = change[m]
  /\ loan.status \in Begun => loan'.status \in Begun
  /\ Held \cap schedule \subseteq schedule'
  /\ Received \subseteq Received' /\ \A p \in Received : payments'[p].amount = payments[p].amount
  /\ loan' = loan \/ \A t \in Reversals : own[t] # None => own'[t] = None

\* a request that does not take part
Bystander(t) ==
  /\ pc'[t] = pc[t] /\ ent'[t] = ent[t] /\ change'[t] = change[t]
  /\ t \in Writers => own'[t] = own[t]
  /\ t \in Transactions => cols'[t] = cols[t]
  /\ t \in Draws /\ draws[t] = None => draws'[t] = None
  /\ t \in Payers /\ payments[t] = None => payments'[t] = None

(* The amount that was ever disbursed only grows.                           *)
LEMMA FundedGrows ==
  ASSUME Shapes, Shapes', DrawsGrow
  PROVE  AmountOf(funded) \in Nat /\ AmountOf(funded)' \in Nat /\ AmountOf(funded) <= AmountOf(funded)'
<1> DEFINE f == [d \in funded |-> draws[d].amount]
           g == [d \in funded' |-> draws'[d].amount]
<1>1. funded \subseteq Drawn /\ funded' \subseteq Drawn' BY DEF Shapes, TypeOK
<1>2. IsFiniteSet(funded') BY <1>1, LifecycleConstants, FS_Subset DEF Drawn
<1>3. \A d \in funded : f[d] \in Nat
  <2>1. \A d \in funded : draws[d] \in DrawRows BY <1>1 DEF Shapes, TypeOK
  <2> QED BY <2>1, LifecycleConstants DEF DrawRows
<1>4. \A d \in funded' : g[d] \in Nat
  <2>1. \A d \in funded' : draws'[d] \in DrawRows BY <1>1 DEF Shapes, TypeOK
  <2> QED BY <2>1, LifecycleConstants DEF DrawRows
<1>5. \A d \in funded : g[d] = f[d] /\ funded \subseteq funded' BY DEF DrawsGrow
<1> HIDE DEF f, g
<1>6. SumFunctionOnSet(f, funded) <= SumFunctionOnSet(g, funded')
  BY <1>2, <1>3, <1>4, <1>5, AmountGrows DEF DrawsGrow
<1>7. AmountOf(funded)' = SumFunctionOnSet(g, funded') BY DEF AmountOf, g
<1>8. SumFunctionOnSet(g, funded') \in Nat BY <1>2, <1>4, SumNat
<1> QED BY <1>1, <1>6, <1>7, <1>8, AmountNat DEF AmountOf, f

(* A balance that is covered stays covered.                                 *)
LEMMA BackedStays ==
  ASSUME Shapes, Shapes', DrawsGrow, NEW row \in LoanRows, Backed(row)
  PROVE  row.outstanding <= AmountOf(funded)'
<1>1. row.outstanding \in Nat BY LoanRowFacts
<1>2. row.outstanding <= AmountOf(funded) BY DEF Backed
<1> QED BY <1>1, <1>2, FundedGrows

(* What is true of a transaction stays true while others work.              *)
LEMMA TransactionKeeps ==
  ASSUME Shapes, Shapes', DrawsGrow, TablesGrow, NEW t \in Transactions, Kept(t), Bystander(t)
  PROVE  Kept(t)'
<1>0. TransactionOK(t) /\ BackedOK(t) /\ TermsOK(t) /\ OpenOK(t) BY DEF Kept
<1>b. /\ pc'[t] = pc[t] /\ ent'[t] = ent[t] /\ change'[t] = change[t]
      /\ own'[t] = own[t] /\ cols'[t] = cols[t]
  BY Kinds DEF Bystander
<1>1. TransactionOK(t)' BY <1>0, <1>b DEF TransactionOK
<1>2. BackedOK(t)'
  <2> SUFFICES ASSUME Sound'
               PROVE  /\ pc'[t] \in Running => ent'[t].outstanding <= AmountOf(funded)'
                      /\ own'[t] # None => own'[t].outstanding <= AmountOf(funded)'
    BY DEF BackedOK, Backed
  <2>1. Sound BY DEF TablesGrow
  <2>2. pc[t] \in Running => ent[t] \in LoanRows /\ Backed(ent[t])
    BY <1>0, <2>1 DEF TransactionOK, BackedOK
  <2>3. own[t] # None => own[t] \in LoanRows /\ Backed(own[t])
    BY <1>0, <2>1, SeenTyped DEF BackedOK
  <2> QED BY <1>b, <2>2, <2>3, BackedStays
<1>3. TermsOK(t)'
  <2> DEFINE M == records \cup ({t} \cap Modifications)
             N == records' \cup ({t} \cap Modifications)
  <2>1. M \subseteq N /\ \A m \in M : change'[m] = change[m] BY <1>b DEF TablesGrow
  <2>2. ASSUME NEW row, TermsFrom(row, M)
        PROVE  /\ row.rate = Loan0.rate \/ \E m \in N : change'[m].rate = row.rate
               /\ row.maturity = Loan0.maturity \/ \E m \in N : change'[m].maturity = row.maturity
    BY <2>1, <2>2 DEF TermsFrom
  <2>3. /\ pc'[t] \in Running => TermsFrom(ent'[t], M)
        /\ own'[t] # None => TermsFrom(own'[t], M)
    BY <1>0, <1>b DEF TermsOK
  <2> QED BY <2>2, <2>3 DEF TermsOK, TermsFrom
<1>4. OpenOK(t)'
  <2>1. Seen(t)' = IF own[t] # None THEN own[t] ELSE loan' BY <1>b DEF Seen
  <2>2. loan.status \in Begun => loan'.status \in Begun BY DEF TablesGrow
  <2>3. Seen(t).status \in Begun => Seen(t)'.status \in Begun BY <2>1, <2>2 DEF Seen
  <2> QED BY <1>0, <1>b, <2>2, <2>3 DEF OpenOK
<1> QED BY <1>1, <1>2, <1>3, <1>4 DEF Kept

(* What is true of a payment stays true while others work.                  *)
LEMMA PayerKeeps ==
  ASSUME Shapes, Shapes', DrawsGrow, TablesGrow, NEW t \in Payers, PayerOK(t), Bystander(t)
  PROVE  PayerOK(t)'
<1>b. /\ pc'[t] = pc[t] /\ ent'[t] = ent[t] /\ change'[t] = change[t]
      /\ payments[t] = None => payments'[t] = None
  BY DEF Bystander
<1>1. loan.status \in Begun => loan'.status \in Begun BY DEF TablesGrow
<1>2. ASSUME pc[t] \in {"allocate", "settle"}, Sound' PROVE ent'[t].outstanding <= AmountOf(funded)'
  <2>1. ent[t] \in LoanRows /\ Backed(ent[t]) BY <1>2 DEF PayerOK, TablesGrow
  <2> QED BY <1>b, <2>1, BackedStays
<1>3. ASSUME pc[t] = "settle" PROVE change'[t].item \in schedule' \cup {None}
  <2>1. change[t].item \in schedule \cup {None} BY <1>3 DEF PayerOK
  <2>2. change[t].item # None => change[t].item \in Held BY <1>3 DEF Held, Allocated
  <2> QED BY <1>b, <2>1, <2>2 DEF TablesGrow
<1> QED BY <1>b, <1>1, <1>2, <1>3 DEF PayerOK, Backed

(* What is true of a reversal stays true while others work.                 *)
LEMMA ReversalKeeps ==
  ASSUME Shapes, TablesGrow, NEW t \in Reversals, ReversalOK(t), Bystander(t)
  PROVE  ReversalOK(t)'
<1>b. pc'[t] = pc[t] /\ change'[t] = change[t] /\ own'[t] = own[t] BY Kinds DEF Bystander
<1>1. pc[t] \in {"increment", "unpay"} => change'[t] \in Received' BY <1>b DEF ReversalOK, TablesGrow
<1>2. CASE pc[t] = "unpay"
  <2>1. own[t] = [loan EXCEPT !.outstanding = @ + payments[change[t]].amount] /\ change[t] \in Received
    BY <1>2 DEF ReversalOK
  <2>2. loan \in LoanRows /\ payments[change[t]].amount \in Nat
    BY <2>1, ReceivedFacts DEF Shapes, TypeOK
  <2>3. own[t] # None
    <3>1. loan.outstanding \in Nat BY <2>2, LoanRowFacts
    <3>2. own[t] \in LoanRows BY <2>1, <2>2, <3>1 DEF LoanRows
    <3> QED BY <3>2, LoanRowFacts
  <2>4. loan' = loan BY <1>b, <2>3 DEF TablesGrow
  <2>5. payments'[change[t]].amount = payments[change[t]].amount BY <2>1 DEF TablesGrow
  <2> QED BY <1>b, <1>1, <1>2, <2>1, <2>4, <2>5 DEF ReversalOK
<1>3. CASE pc[t] # "unpay" BY <1>b, <1>1, <1>3 DEF ReversalOK
<1> QED BY <1>2, <1>3

(* A step of one request keeps the invariant if it keeps the types, the     *)
(* shared part and what is said of this request.                            *)
LEMMA Preserve ==
  ASSUME LifecycleInv, NEW s \in Requests, Shapes', Shared', DrawsGrow, TablesGrow, OK(s)',
         \A t \in Requests \ {s} : Bystander(t)
  PROVE  LifecycleInv'
<1>0. Shapes BY DEF LifecycleInv
<1>1. ASSUME NEW t \in Requests PROVE OK(t)'
  <2>1. CASE t = s BY <2>1
  <2>2. CASE t # s
    <3>0. OK(t) /\ Bystander(t) BY <2>2 DEF LifecycleInv
    <3>1. t \in Draws => DrawOK(t)' BY <3>0 DEF OK, DrawOK, Bystander
    <3>2. t \in Approvals => ApprovalOK(t)' BY <3>0 DEF OK, ApprovalOK, Bystander, DrawsGrow
    <3>3. t \in Transactions => Kept(t)' BY <1>0, <3>0, TransactionKeeps DEF OK
    <3>4. t \in Payers => PayerOK(t)' BY <1>0, <3>0, PayerKeeps DEF OK
    <3>5. t \in Reversals => ReversalOK(t)' BY <1>0, <3>0, ReversalKeeps DEF OK
    <3> QED BY <3>1, <3>2, <3>3, <3>4, <3>5 DEF OK
  <2> QED BY <2>1, <2>2
<1> QED BY <1>1 DEF LifecycleInv

\* the disbursements do not take part
DrawsStay == UNCHANGED <<draws, funded>>
LEMMA DrawsStayGrow ==
  ASSUME Shapes, Shared, DrawsStay
  PROVE  DrawsGrow /\ AmountOf(funded)' = AmountOf(funded) /\ Paid' \subseteq funded'
BY DEF DrawsStay, DrawsGrow, Shared, Paid, Drawn, AmountOf

(* What the invariant says of a request.                                    *)
LEMMA InvFacts ==
  ASSUME LifecycleInv
  PROVE  /\ Shapes /\ Shared /\ Balance /\ OneHolder /\ Recorded
         /\ \A s \in Draws : s \in Requests /\ DrawOK(s)
         /\ \A s \in Approvals : s \in Requests /\ ApprovalOK(s)
         /\ \A s \in Transactions :
              /\ s \in Requests /\ s \in Writers /\ Kept(s)
              /\ TransactionOK(s) /\ BackedOK(s) /\ TermsOK(s) /\ OpenOK(s)
         /\ \A s \in Payers : s \in Requests /\ PayerOK(s)
         /\ \A s \in Reversals : s \in Requests /\ s \in Writers /\ ReversalOK(s)
         /\ pc \in [Requests -> Labels] /\ DOMAIN ent = Requests /\ DOMAIN change = Requests
         /\ own \in [Writers -> LoanRows \cup {None}]
         /\ cols \in [Transactions -> SUBSET LoanColumns]
         /\ payments \in [Payers -> PaymentRows \cup {None}]
         /\ loan \in LoanRows /\ None \notin LoanRows /\ records \subseteq Modifications
BY Kinds, LifecycleConstants DEF LifecycleInv, Shapes, TypeOK, Shared, OK, Kept

(* A step that changes no table but takes or gives back the row lock.       *)
LEMMA QuietStep ==
  ASSUME LifecycleInv, NEW s \in Requests, UNCHANGED <<data, funded, activated, flaws>>,
         faults' \in 0 .. MaxFaults,
         NEW l \in Labels \ {"done"}, pc[s] # "done", pc' = [pc EXCEPT ![s] = l],
         DOMAIN ent' = Requests /\ \A t \in Requests \ {s} : ent'[t] = ent[t],
         DOMAIN change' = Requests /\ \A t \in Requests \ {s} : change'[t] = change[t],
         own' \in [Writers -> LoanRows \cup {None}],
         \A t \in Writers \ {s} : own'[t] = own[t],
         own' = own \/ own'[s] = None \/ RowFree(s),
         cols' \in [Transactions -> SUBSET LoanColumns],
         \A t \in Transactions \ {s} : cols'[t] = cols[t],
         OK(s)'
  PROVE  LifecycleInv'
<1> USE InvFacts
<1>d. UNCHANGED <<loan, draws, schedule, payments, records>> BY DEF data
<1>1. pc'[s] = l /\ \A t \in Requests \ {s} : pc'[t] = pc[t] OBVIOUS
<1>2. Shapes'
  <2>1. \A t \in Writers : own'[t] = None \/ own'[t] \in LoanRows OBVIOUS
  <2>2. pc' \in [Requests -> Labels] OBVIOUS
  <2> QED BY <1>d, <2>1, <2>2 DEF Shapes, TypeOK, Drawn
<1>3. DrawsGrow /\ AmountOf(funded)' = AmountOf(funded) /\ Paid' \subseteq funded'
  BY <1>d, DrawsStayGrow DEF DrawsStay
<1>4. \A m \in records : m \in Requests /\ m # s
  <2> SUFFICES ASSUME NEW m \in records PROVE m \in Requests /\ m # s OBVIOUS
  <2>1. m \in Modifications BY DEF Recorded
  <2>2. pc[m] = "done" BY <2>1 DEF Recorded
  <2> QED BY <2>1, <2>2, Kinds
<1>5. (Sound' <=> Sound) /\ Applied' = Applied /\ Received' = Received
  BY <1>d DEF Sound, PaymentsIn, Applied, Received
<1>6. TablesGrow BY <1>d, <1>4, <1>5 DEF TablesGrow
<1>7. \A t \in Requests \ {s} : Bystander(t)
  BY <1>d, <1>1 DEF Bystander
<1>8. OneHolder'
  <2> SUFFICES ASSUME NEW x \in Writers, NEW y \in Writers, own'[x] # None, own'[y] # None
               PROVE  x = y
    BY DEF OneHolder
  <2>1. CASE x # s /\ y # s BY <2>1 DEF OneHolder
  <2>2. CASE own' = own BY <2>2 DEF OneHolder
  <2>3. CASE RowFree(s) BY <2>3 DEF RowFree
  <2>4. CASE own'[s] = None BY <2>1, <2>4
  <2> QED BY <2>2, <2>3, <2>4
<1>9. Recorded'
  <2>1. (\A t \in Modifications : t \in records <=> pc[t] = "done")'
    BY <1>1, <1>d, Kinds DEF Recorded
  <2>2. (\A t \in Activations : t \in activated <=> pc[t] = "done")' BY <1>1, Kinds DEF Recorded
  <2>3. TermsFrom(loan, records)' BY <1>d, <1>4 DEF Recorded, TermsFrom
  <2> QED BY <1>d, <2>1, <2>2, <2>3 DEF Recorded
<1>10. Balance' BY <1>d, <1>3, <1>5 DEF Balance, Backed
<1>11. SchedulesAreWhole' /\ PaidItemsStay'
  BY <1>d, <1>5 DEF Shared, SchedulesAreWhole, PaidItemsStay, Cited
<1>12. Shared' BY <1>3, <1>8, <1>9, <1>10, <1>11 DEF Shared
<1> QED BY <1>2, <1>3, <1>6, <1>7, <1>12, Preserve

(* A request whose statement fails or is refused, or whose process dies.    *)
LEMMA RollbackStep ==
  ASSUME LifecycleInv, NEW s \in Requests, pc[s] # "done", Rollback(s),
         UNCHANGED <<data, funded, activated, flaws>>, faults' \in 0 .. MaxFaults
  PROVE  LifecycleInv'
<1> USE InvFacts
<1>1. pc' = [pc EXCEPT ![s] = "aborted"] /\ pc'[s] = "aborted" BY DEF Rollback, Goto
<1>2. "aborted" \in Labels \ {"done"} /\ "aborted" \in Ended BY DEF Labels, Ended
<1>3. ent' = [ent EXCEPT ![s] = None] /\ change' = [change EXCEPT ![s] = None]
  BY DEF Rollback, Forget
<1>4. cols' = [t \in Transactions |-> IF t = s THEN {} ELSE cols[t]] BY DEF Rollback, Forget
<1>5. own' = IF s \in Writers THEN [own EXCEPT ![s] = None] ELSE own BY DEF Rollback
<1>6. s \in Writers => own'[s] = None BY <1>5
<1>7. OK(s)'
  <2>1. s \in Draws => DrawOK(s)' BY <1>1, <1>2 DEF DrawOK
  <2>2. s \in Approvals => ApprovalOK(s)' BY <1>1, <1>2 DEF ApprovalOK
  <2>3. ASSUME s \in Transactions PROVE Kept(s)'
    <3>1. own'[s] = None BY <1>6, <2>3, Kinds
    <3> QED BY <1>1, <1>2, <3>1
         DEF Kept, TransactionOK, BackedOK, TermsOK, OpenOK, Running, Saved
  <2>4. ASSUME s \in Payers PROVE PayerOK(s)'
    <3>1. payments'[s] = None BY <2>4 DEF PayerOK, data
    <3> QED BY <1>1, <1>2, <3>1 DEF PayerOK
  <2>5. ASSUME s \in Reversals PROVE ReversalOK(s)'
    <3>1. own'[s] = None BY <1>6, <2>5, Kinds
    <3> QED BY <1>1, <1>2, <3>1 DEF ReversalOK
  <2> QED BY <2>1, <2>2, <2>3, <2>4, <2>5 DEF OK
<1>8. own' \in [Writers -> LoanRows \cup {None}] /\ \A t \in Writers \ {s} : own'[t] = own[t]
  BY <1>5
<1>9. own' = own \/ own'[s] = None BY <1>5, <1>6
<1>10. cols' \in [Transactions -> SUBSET LoanColumns]
       /\ \A t \in Transactions \ {s} : cols'[t] = cols[t]
  BY <1>4
<1> QED BY <1>1, <1>2, <1>3, <1>7, <1>8, <1>9, <1>10, QuietStep

(* A step of a request that takes no row lock and writes no table.          *)
LEMMA LocalStep ==
  ASSUME LifecycleInv, NEW s \in Requests, UNCHANGED <<data, own, hist>>,
         NEW l \in Labels \ {"done"}, pc[s] # "done", pc' = [pc EXCEPT ![s] = l],
         DOMAIN ent' = Requests /\ \A t \in Requests \ {s} : ent'[t] = ent[t],
         DOMAIN change' = Requests /\ \A t \in Requests \ {s} : change'[t] = change[t],
         cols' \in [Transactions -> SUBSET LoanColumns],
         \A t \in Transactions \ {s} : cols'[t] = cols[t],
         OK(s)'
  PROVE  LifecycleInv'
<1>1. own' = own /\ UNCHANGED <<funded, activated, flaws, faults>> BY DEF hist
<1>2. faults' \in 0 .. MaxFaults BY <1>1, InvFacts DEF Shapes, TypeOK
<1>3. own' \in [Writers -> LoanRows \cup {None}] /\ \A t \in Writers \ {s} : own'[t] = own[t]
  BY <1>1, InvFacts
<1> QED BY <1>1, <1>2, <1>3, QuietStep

----------------------------------------------------------------------------
(* Steps of the disbursement requests *)

(* Who may be at a statement.                                               *)
LEMMA AtStatement ==
  ASSUME LifecycleInv, NEW s \in Requests
  PROVE  /\ pc[s] \in {"sum", "insert"} => s \in Draws
         /\ pc[s] = "approve" => s \in Approvals
         /\ pc[s] \in Running => s \in Transactions
         /\ pc[s] \in {"allocate", "settle"} => s \in Payers
         /\ pc[s] \in {"increment", "unpay"} => s \in Reversals
<1> USE InvFacts DEF Running, Ended
<1>1. s \in Draws => pc[s] \in {"idle", "sum", "insert"} \cup Ended BY DEF DrawOK
<1>2. s \in Approvals => pc[s] \in {"idle", "approve"} \cup Ended BY DEF ApprovalOK
<1>3. s \in Transactions => pc[s] \in {"idle"} \cup Running \cup Ended BY DEF TransactionOK
<1>4. s \in Payers => pc[s] \in {"idle", "allocate", "settle"} \cup Ended BY DEF PayerOK
<1>5. s \in Reversals => pc[s] \in {"idle", "increment", "unpay"} \cup Ended BY DEF ReversalOK
<1>6. s \in Draws \cup Approvals \cup Payers \cup Reversals \cup Transactions BY Kinds
<1> HIDE InvFacts
<1> QED BY <1>1, <1>2, <1>3, <1>4, <1>5, <1>6

(* One kind at a time.                                                      *)
LEMMA OKOfDraw ==
  ASSUME NEW s \in Draws, DrawOK(s)' PROVE OK(s)'
BY Kinds DEF OK
LEMMA OKOfApproval ==
  ASSUME NEW s \in Approvals, ApprovalOK(s)' PROVE OK(s)'
BY Kinds DEF OK
LEMMA OKOfTransaction ==
  ASSUME NEW s \in Transactions, Kept(s)' PROVE OK(s)'
BY Kinds DEF OK
LEMMA OKOfPayer ==
  ASSUME NEW s \in Payers, PayerOK(s)' PROVE OK(s)'
BY Kinds DEF OK
LEMMA OKOfReversal ==
  ASSUME NEW s \in Reversals, ReversalOK(s)' PROVE OK(s)'
BY Kinds DEF OK

(* create reads the loan.                                                   *)
LEMMA LoadForDrawStep ==
  ASSUME LifecycleInv, NEW s \in Requests, LoadForDraw(s) PROVE LifecycleInv'
<1> USE InvFacts
<1>1. s \in Draws /\ pc[s] = "idle" /\ draws[s] = None BY DEF LoadForDraw
<1>2. PICK a \in Amounts : ent' = [ent EXCEPT ![s] = a] BY DEF LoadForDraw
<1> DEFINE l == IF loan.status \in {"APPROVED", "ACTIVE"} THEN "sum" ELSE "rejected"
<1>3. l \in Labels \ {"done"} /\ pc' = [pc EXCEPT ![s] = l] BY DEF LoadForDraw, Goto, Labels, Ended
<1>4. pc'[s] = l /\ ent'[s] = a BY <1>2, <1>3
<1>5. l = "sum" \/ l = "rejected" OBVIOUS
<1> HIDE DEF l
<1>6. DrawOK(s)' BY <1>1, <1>4, <1>5 DEF DrawOK, LoadForDraw, data, Ended
<1>7. OK(s)' BY <1>1, <1>6, OKOfDraw
<1> QED BY <1>1, <1>2, <1>3, <1>7, LocalStep DEF LoadForDraw

(* create sums what was drawn.                                              *)
LEMMA SumDrawsStep ==
  ASSUME LifecycleInv, NEW s \in Requests, SumDraws(s) PROVE LifecycleInv'
<1> USE InvFacts
<1>1. pc[s] = "sum" BY DEF SumDraws
<1>2. s \in Draws BY <1>1, AtStatement
<1> DEFINE l == IF AmountOf(Drawn) + ent[s] > Commitment THEN "rejected" ELSE "insert"
<1>3. l \in Labels \ {"done"} /\ pc' = [pc EXCEPT ![s] = l] BY DEF SumDraws, Goto, Labels, Ended
<1>4. pc'[s] = l BY <1>3
<1>5. l = "insert" \/ l = "rejected" OBVIOUS
<1> HIDE DEF l
<1>6. DrawOK(s)' BY <1>1, <1>2, <1>4, <1>5 DEF DrawOK, SumDraws, data, local, Ended
<1>7. OK(s)' BY <1>2, <1>6, OKOfDraw
<1> QED BY <1>1, <1>3, <1>7, LocalStep DEF SumDraws, local

(* approve reads the disbursement.                                          *)
LEMMA LoadForApprovalStep ==
  ASSUME LifecycleInv, NEW s \in Requests, LoadForApproval(s) PROVE LifecycleInv'
<1> USE InvFacts
<1>1. s \in Approvals /\ pc[s] = "idle" BY DEF LoadForApproval
<1>2. PICK d \in Drawn :
        IF draws[d].status = "PENDING"
          THEN Goto(s, "approve") /\ change' = [change EXCEPT ![s] = d]
          ELSE Goto(s, "rejected") /\ UNCHANGED change
  BY DEF LoadForApproval
<1>3. \/ pc' = [pc EXCEPT ![s] = "approve"] /\ change' = [change EXCEPT ![s] = d]
      \/ pc' = [pc EXCEPT ![s] = "rejected"] /\ change' = change
  BY <1>2 DEF Goto
<1>4. \/ pc'[s] = "approve" /\ change'[s] = d
      \/ pc'[s] = "rejected"
  BY <1>3
<1>5. "approve" \in Labels \ {"done"} /\ "rejected" \in Labels \ {"done"} BY DEF Labels, Ended
<1>6. ApprovalOK(s)' BY <1>4 DEF ApprovalOK, LoadForApproval, data, Ended, Drawn
<1>7. OK(s)' BY <1>1, <1>6, OKOfApproval
<1> QED BY <1>1, <1>3, <1>5, <1>7, LocalStep DEF LoadForApproval

(* A step that writes one disbursement: a new one, or another status.       *)
LEMMA WriteDraw ==
  ASSUME LifecycleInv, NEW d \in Draws, NEW row \in DrawRows, draws' = [draws EXCEPT ![d] = row],
         NEW s \in Draws \cup Approvals,
         draws[d] # None => row.amount = draws[d].amount, draws[d] = None => s = d,
         NEW F, F \subseteq {d}, funded' = funded \cup F, row.status = "DISBURSED" => d \in F,
         UNCHANGED <<loan, schedule, payments, records, local, faults, activated, flaws>>,
         pc' \in [Requests -> Labels], \A t \in Requests \ {s} : pc'[t] = pc[t], OK(s)'
  PROVE  LifecycleInv'
<1> USE InvFacts
<1>0. s \in Requests /\ s \notin Transactions /\ s \notin Payers BY Kinds
<1>n. row # None BY LifecycleConstants
<1>1. /\ draws' \in [Draws -> DrawRows \cup {None}] /\ draws'[d] = row
      /\ \A e \in Draws \ {d} : draws'[e] = draws[e]
  BY DEF Shapes
<1>2. Drawn' = Drawn \cup {d} BY <1>1, <1>n DEF Drawn
<1>3. funded \subseteq Drawn /\ funded' \subseteq Drawn' BY <1>2 DEF Shapes, TypeOK
<1>4. Shapes'
  <2>1. \A e \in Drawn' : draws'[e] \in DrawRows BY <1>1 DEF Drawn
  <2> QED BY <1>1, <1>3, <2>1 DEF Shapes, TypeOK, local
<1>5. Paid' \subseteq funded'
  <2> SUFFICES ASSUME NEW e \in Paid' PROVE e \in funded' OBVIOUS
  <2>1. e \in Draws /\ draws'[e] # None /\ draws'[e].status = "DISBURSED" BY DEF Paid, Drawn
  <2>2. CASE e = d BY <1>1, <2>1, <2>2
  <2>3. CASE e # d
    <3>1. e \in Paid BY <1>1, <2>1, <2>3 DEF Paid, Drawn
    <3> QED BY <3>1 DEF Shared
  <2> QED BY <2>2, <2>3
<1>6. DrawsGrow
  <2>1. \A e \in funded : draws'[e].amount = draws[e].amount
    <3> SUFFICES ASSUME NEW e \in funded PROVE draws'[e].amount = draws[e].amount OBVIOUS
    <3>1. e \in Draws /\ draws[e] # None BY <1>3 DEF Drawn
    <3>2. CASE e = d BY <1>1, <3>1, <3>2
    <3>3. CASE e # d BY <1>1, <3>1, <3>3
    <3> QED BY <3>2, <3>3
  <2> QED BY <1>2, <1>5, <2>1 DEF DrawsGrow
<1>7. UNCHANGED <<own, ent, change, cols>> BY DEF local
<1>8. (Sound' <=> Sound) /\ Applied' = Applied /\ Received' = Received
  BY DEF Sound, PaymentsIn, Applied, Received
<1>9. TablesGrow BY <1>7, <1>8 DEF TablesGrow
<1>10. \A t \in Requests \ {s} : Bystander(t)
  <2> SUFFICES ASSUME NEW t \in Requests \ {s} PROVE Bystander(t) OBVIOUS
  <2>1. t \in Draws /\ draws[t] = None => draws'[t] = None BY <1>1
  <2> QED BY <1>7, <2>1 DEF Bystander
<1>11. Recorded'
  <2>1. \A t \in Transactions : pc'[t] = pc[t] BY <1>0, Kinds
  <2>2. (\A t \in Modifications : t \in records <=> pc[t] = "done")' BY <2>1, Kinds DEF Recorded
  <2>3. (\A t \in Activations : t \in activated <=> pc[t] = "done")' BY <2>1, Kinds DEF Recorded
  <2>4. TermsFrom(loan, records)' BY <1>7 DEF Recorded, TermsFrom
  <2> QED BY <2>2, <2>3, <2>4 DEF Recorded
<1>12. Balance'
  <2>1. Sound => loan.outstanding <= AmountOf(funded)'
    BY <1>4, <1>6, BackedStays DEF Balance
  <2>2. flaws = {} => loan.outstanding + Applied <= AmountOf(funded)'
    <3>1. loan.outstanding \in Nat /\ Applied \in Nat BY LoanRowFacts, AppliedNat
    <3> QED BY <1>4, <1>6, <3>1, FundedGrows DEF Balance
  <2> QED BY <1>8, <2>1, <2>2 DEF Balance, Backed
<1>13. Shared'
  BY <1>5, <1>7, <1>8, <1>11, <1>12
     DEF Shared, OneHolder, SchedulesAreWhole, PaidItemsStay, Cited
<1> QED BY <1>0, <1>4, <1>6, <1>9, <1>10, <1>13, Preserve

(* create inserts the disbursement.                                         *)
LEMMA InsertDrawStep ==
  ASSUME LifecycleInv, NEW s \in Requests, InsertDraw(s) PROVE LifecycleInv'
<1> USE InvFacts
<1>1. pc[s] = "insert" BY DEF InsertDraw
<1>2. s \in Draws BY <1>1, AtStatement
<1>3. draws[s] = None /\ ent[s] \in Amounts BY <1>1, <1>2 DEF DrawOK
<1> DEFINE row == [amount |-> ent[s], status |-> "PENDING"]
<1>4. row \in DrawRows /\ row.status # "DISBURSED" BY <1>3 DEF DrawRows
<1>5. draws' = [draws EXCEPT ![s] = row] BY DEF InsertDraw
<1>6. pc' = [pc EXCEPT ![s] = "done"] /\ "done" \in Labels /\ "done" \in Ended
  BY DEF InsertDraw, Goto, Labels, Ended
<1>7. /\ pc' \in [Requests -> Labels] /\ pc'[s] = "done"
      /\ \A t \in Requests \ {s} : pc'[t] = pc[t]
  BY <1>6
<1>8. DrawOK(s)' BY <1>6, <1>7 DEF DrawOK
<1>9. OK(s)' BY <1>2, <1>8, OKOfDraw
<1> DEFINE F == {}
<1>10. F \subseteq {s} /\ funded' = funded \cup F BY DEF InsertDraw, hist
<1>11. UNCHANGED <<loan, schedule, payments, records, local, faults, activated, flaws>>
  BY DEF InsertDraw, hist
<1> HIDE DEF row, F
<1> QED BY <1>2, <1>3, <1>4, <1>5, <1>7, <1>9, <1>10, <1>11, WriteDraw

(* approve writes the disbursement.                                         *)
LEMMA SaveApprovalStep ==
  ASSUME LifecycleInv, NEW s \in Requests, SaveApproval(s) PROVE LifecycleInv'
<1> USE InvFacts
<1>1. pc[s] = "approve" BY DEF SaveApproval
<1>2. s \in Approvals BY <1>1, AtStatement
<1> DEFINE d == change[s]
           row == [draws[d] EXCEPT !.status = "APPROVED"]
<1>3. d \in Draws /\ draws[d] # None BY <1>1, <1>2 DEF ApprovalOK, Drawn
<1>4. draws[d] \in DrawRows BY <1>3 DEF Shapes
<1>5. row \in DrawRows /\ row.status # "DISBURSED" /\ row.amount = draws[d].amount
  BY <1>4 DEF DrawRows
<1>6. draws' = [draws EXCEPT ![d] = row] BY DEF SaveApproval
<1>7. pc' = [pc EXCEPT ![s] = "done"] /\ "done" \in Labels /\ "done" \in Ended
  BY DEF SaveApproval, Goto, Labels, Ended
<1>8. /\ pc' \in [Requests -> Labels] /\ pc'[s] = "done"
      /\ \A t \in Requests \ {s} : pc'[t] = pc[t]
  BY <1>7
<1>9. ApprovalOK(s)' BY <1>7, <1>8 DEF ApprovalOK
<1>10. OK(s)' BY <1>2, <1>9, OKOfApproval
<1> DEFINE F == {}
<1>11. F \subseteq {d} /\ funded' = funded \cup F BY DEF SaveApproval, hist
<1>12. UNCHANGED <<loan, schedule, payments, records, local, faults, activated, flaws>>
  BY DEF SaveApproval, hist
<1> HIDE DEF row, d, F
<1> QED BY <1>2, <1>3, <1>5, <1>6, <1>8, <1>10, <1>11, <1>12, WriteDraw

(* A disbursement is entered or settled in the database.                    *)
LEMMA FundStep ==
  ASSUME LifecycleInv, NEW d \in Draws, Fund(d) PROVE LifecycleInv'
<1> USE InvFacts
<1>1. pc' = pc /\ pc' \in [Requests -> Labels] /\ DrawOK(d) BY DEF Fund
<1>2. {d} \subseteq {d} /\ funded' = funded \cup {d} BY DEF Fund
<1>u. UNCHANGED <<loan, schedule, payments, records, local, faults, activated, flaws>> BY DEF Fund
<1>3. CASE draws[d] = None /\ pc[d] = "idle"
  <2>1. PICK a \in Amounts : draws' = [draws EXCEPT ![d] = [amount |-> a, status |-> "DISBURSED"]]
    BY <1>3 DEF Fund
  <2> DEFINE row == [amount |-> a, status |-> "DISBURSED"]
  <2>2. row \in DrawRows BY DEF DrawRows
  <2>3. draws' = [draws EXCEPT ![d] = row] BY <2>1
  <2>4. DrawOK(d)' BY <1>1, <1>3 DEF DrawOK
  <2>5. OK(d)' BY <2>4, OKOfDraw
  <2> HIDE DEF row
  <2> QED BY <1>1, <1>2, <1>3, <1>u, <2>2, <2>3, <2>5, WriteDraw
<1>4. CASE draws[d] # None
  <2> DEFINE row == [draws[d] EXCEPT !.status = "DISBURSED"]
  <2>1. draws[d] \in DrawRows BY <1>4 DEF Shapes
  <2>2. row \in DrawRows /\ row.amount = draws[d].amount BY <2>1 DEF DrawRows
  <2>3. draws' = [draws EXCEPT ![d] = row] BY <1>4 DEF Fund
  <2>4. DrawOK(d)' BY <1>1, <1>4 DEF DrawOK
  <2>5. OK(d)' BY <2>4, OKOfDraw
  <2> HIDE DEF row
  <2> QED BY <1>1, <1>2, <1>4, <1>u, <2>2, <2>3, <2>5, WriteDraw
<1> QED BY <1>3, <1>4 DEF Fund

(* A statement of a request fails, or its process is killed.                *)
LEMMA FailStep ==
  ASSUME LifecycleInv, NEW s \in Requests, Fail(s) PROVE LifecycleInv'
<1>1. faults' \in 0 .. MaxFaults BY LifecycleConstants, InvFacts DEF Fail, Shapes, TypeOK
<1> QED BY <1>1, RollbackStep DEF Fail, Ended

----------------------------------------------------------------------------
(* Steps of a transaction *)

(* activateLoan reads the loan: the balance becomes what was disbursed.     *)
LEMMA LoadForActivationStep ==
  ASSUME LifecycleInv, NEW s \in Transactions, LoadForActivation(s) PROVE LifecycleInv'
<1> USE InvFacts
<1>1. s \in Activations /\ s \notin Modifications /\ pc[s] = "idle" BY Kinds DEF LoadForActivation
<1>2. own'[s] = None BY <1>1 DEF LoadForActivation, TransactionOK, Saved
<1>c. change' = change /\ cols' = cols /\ UNCHANGED <<data, own, hist>> BY DEF LoadForActivation
<1>3. CASE loan.status = "PENDING" /\ Paid # {}
  <2> DEFINE a == AmountOf(Paid)
             e == [loan EXCEPT !.outstanding = a, !.status = "ACTIVE"]
  <2>1. ent' = [ent EXCEPT ![s] = e] /\ pc' = [pc EXCEPT ![s] = "compare"]
    BY <1>3 DEF LoadForActivation, Goto
  <2>2. a \in Nat
    <3>1. Paid \in SUBSET Drawn BY DEF Paid
    <3> QED BY <3>1, AmountNat
  <2>3. a <= AmountOf(funded)
    <3> DEFINE f == [d \in Paid |-> draws[d].amount]
               g == [d \in funded |-> draws[d].amount]
    <3>1. Paid \subseteq funded /\ funded \subseteq Drawn BY DEF Shared, Shapes, TypeOK
    <3>2. \A d \in funded : draws[d] \in DrawRows BY <3>1 DEF Shapes, TypeOK
    <3>3. \A d \in funded : g[d] \in Nat BY <3>2, LifecycleConstants DEF DrawRows
    <3>4. \A d \in Paid : f[d] \in Nat /\ g[d] = f[d] BY <3>1, <3>3
    <3>5. IsFiniteSet(funded) BY <3>1, LifecycleConstants, FS_Subset DEF Drawn
    <3> HIDE DEF f, g
    <3>6. SumFunctionOnSet(f, Paid) <= SumFunctionOnSet(g, funded)
      BY <3>1, <3>3, <3>4, <3>5, AmountGrows
    <3> QED BY <3>6 DEF f, g, AmountOf
  <2>4. /\ e \in LoanRows /\ e.status = "ACTIVE" /\ e.outstanding = a
        /\ e.rate = loan.rate /\ e.maturity = loan.maturity
    BY <2>2 DEF LoanRows, OpenStatuses
  <2>5. pc'[s] = "compare" /\ ent'[s] = e BY <2>1
  <2> HIDE DEF e, a
  <2>6. TransactionOK(s)' BY <1>2, <2>4, <2>5 DEF TransactionOK, Running, Saved
  <2>7. BackedOK(s)'
    <3>1. AmountOf(funded)' = AmountOf(funded) BY <1>c DEF data, hist, AmountOf
    <3> QED BY <1>2, <2>3, <2>4, <2>5, <3>1 DEF BackedOK, Backed
  <2>8. TermsOK(s)'
    <3>1. TermsFrom(loan, records) BY DEF Recorded
    <3>2. records' = records BY <1>c DEF data
    <3> QED BY <1>1, <1>2, <1>c, <2>4, <2>5, <3>1, <3>2 DEF TermsOK, TermsFrom
  <2>9. OpenOK(s)' BY <1>1, <2>4, <2>5 DEF OpenOK, Saved, Running, Begun, OpenStatuses
  <2>10. OK(s)' BY <2>6, <2>7, <2>8, <2>9, OKOfTransaction DEF Kept
  <2>11. "compare" \in Labels \ {"done"} BY DEF Labels, Ended
  <2> QED BY <1>1, <1>c, <2>1, <2>10, <2>11, LocalStep
<1>4. CASE ~ (loan.status = "PENDING" /\ Paid # {})
  <2>1. ent' = ent /\ pc' = [pc EXCEPT ![s] = "rejected"] BY <1>4 DEF LoadForActivation, Goto
  <2>2. pc'[s] = "rejected" BY <2>1
  <2>3. Kept(s)'
    BY <1>2, <2>2 DEF Kept, TransactionOK, BackedOK, TermsOK, OpenOK, Running, Saved, Ended
  <2>4. OK(s)' BY <2>3, OKOfTransaction
  <2>5. "rejected" \in Labels \ {"done"} BY DEF Labels, Ended
  <2> QED BY <1>1, <1>c, <2>1, <2>4, <2>5, LocalStep
<1> QED BY <1>3, <1>4

(* modifyLoan reads the loan and changes the entity.                        *)
LEMMA LoadForModificationStep ==
  ASSUME LifecycleInv, NEW s \in Transactions, LoadForModification(s) PROVE LifecycleInv'
<1> USE InvFacts
<1>1. s \in Modifications /\ pc[s] = "idle" BY DEF LoadForModification
<1>2. own'[s] = None BY <1>1 DEF LoadForModification, TransactionOK, Saved
<1>c. cols' = cols /\ UNCHANGED <<data, own, hist>> BY DEF LoadForModification
<1>3. PICK c \in Changes :
       IF loan.status \in OpenStatuses /\ (c.rate # None \/ c.maturity # None)
         THEN /\ change' = [change EXCEPT ![s] = c]
              /\ ent' = [ent EXCEPT ![s] =
                    [loan EXCEPT !.rate = IF c.rate # None THEN c.rate ELSE @,
                                 !.maturity = IF c.maturity # None THEN c.maturity ELSE @]]
              /\ Goto(s, "compare")
         ELSE Goto(s, "rejected") /\ UNCHANGED <<ent, change>>
  BY DEF LoadForModification
<1>4. CASE loan.status \in OpenStatuses /\ (c.rate # None \/ c.maturity # None)
  <2> DEFINE r == IF c.rate # None THEN c.rate ELSE loan.rate
             m == IF c.maturity # None THEN c.maturity ELSE loan.maturity
             e == [loan EXCEPT !.rate = r, !.maturity = m]
  <2>1. /\ ent' = [ent EXCEPT ![s] = e] /\ pc' = [pc EXCEPT ![s] = "compare"]
        /\ change' = [change EXCEPT ![s] = c]
    BY <1>3, <1>4 DEF Goto
  <2>2. r \in Rates /\ m \in Spans
    <3>1. c.rate # None => c.rate \in Rates BY DEF Rates, Terms
    <3>2. c.maturity # None => c.maturity \in Spans BY DEF Spans, Terms
    <3> QED BY <3>1, <3>2, LoanRowFacts
  <2>3. /\ e \in LoanRows /\ e.status = loan.status /\ e.outstanding = loan.outstanding
        /\ e.rate = r /\ e.maturity = m
    BY <2>2 DEF LoanRows
  <2>4. pc'[s] = "compare" /\ ent'[s] = e /\ change'[s] = c BY <2>1
  <2>5. (r = c.rate \/ r = loan.rate) /\ (m = c.maturity \/ m = loan.maturity) OBVIOUS
  <2> HIDE DEF e, r, m
  <2>6. TransactionOK(s)' BY <1>2, <2>3, <2>4 DEF TransactionOK, Running, Saved
  <2>7. BackedOK(s)'
    <3>1. AmountOf(funded)' = AmountOf(funded) /\ (Sound' <=> Sound)
      BY <1>c DEF data, hist, AmountOf, Sound, PaymentsIn
    <3> QED BY <1>2, <2>3, <2>4, <3>1 DEF Balance, BackedOK, Backed
  <2>8. TermsOK(s)'
    <3>1. TermsFrom(loan, records) /\ s \notin records BY <1>1 DEF Recorded
    <3>2. records' = records BY <1>c DEF data
    <3>3. \A n \in records : change'[n] = change[n] BY <2>1, <3>1, Kinds
    <3>4. e.rate = Loan0.rate \/ \E n \in records \cup {s} : change'[n].rate = e.rate
      <4>1. CASE r = c.rate BY <4>1, <2>3, <2>4
      <4>2. CASE r = loan.rate BY <4>2, <2>3, <3>1, <3>3 DEF TermsFrom
      <4> QED BY <2>5, <4>1, <4>2
    <3>5. e.maturity = Loan0.maturity \/ \E n \in records \cup {s} : change'[n].maturity = e.maturity
      <4>1. CASE m = c.maturity BY <4>1, <2>3, <2>4
      <4>2. CASE m = loan.maturity BY <4>2, <2>3, <3>1, <3>3 DEF TermsFrom
      <4> QED BY <2>5, <4>1, <4>2
    <3>6. records' \cup ({s} \cap Modifications) = records \cup {s} BY <1>1, <3>2
    <3> QED BY <1>2, <2>4, <3>4, <3>5, <3>6 DEF TermsOK, TermsFrom
  <2>9. OpenOK(s)'
    <3>1. loan' = loan BY <1>c DEF data
    <3> QED BY <1>4, <2>3, <2>4, <3>1 DEF OpenOK, Saved, Running, Begun
  <2>10. OK(s)' BY <2>6, <2>7, <2>8, <2>9, OKOfTransaction DEF Kept
  <2>11. "compare" \in Labels \ {"done"} BY DEF Labels, Ended
  <2> QED BY <1>1, <1>c, <2>1, <2>10, <2>11, LocalStep
<1>5. CASE ~ (loan.status \in OpenStatuses /\ (c.rate # None \/ c.maturity # None))
  <2>1. ent' = ent /\ change' = change /\ pc' = [pc EXCEPT ![s] = "rejected"]
    BY <1>3, <1>5 DEF Goto
  <2>2. pc'[s] = "rejected" BY <2>1
  <2>3. Kept(s)'
    BY <1>2, <2>2 DEF Kept, TransactionOK, BackedOK, TermsOK, OpenOK, Running, Saved, Ended
  <2>4. OK(s)' BY <2>3, OKOfTransaction
  <2>5. "rejected" \in Labels \ {"done"} BY DEF Labels, Ended
  <2> QED BY <1>1, <1>c, <2>1, <2>4, <2>5, LocalStep
<1> QED BY <1>4, <1>5

(* save() selects the row again and compares the columns.                   *)
LEMMA CompareLoanStep ==
  ASSUME LifecycleInv, NEW s \in Transactions, CompareLoan(s) PROVE LifecycleInv'
<1> USE InvFacts
<1>1. pc[s] = "compare" /\ pc' = [pc EXCEPT ![s] = "save"] BY DEF CompareLoan, Goto
<1>2. pc'[s] = "save" BY <1>1
<1> DEFINE C == Assigned(s) \cup {c \in LoanColumns : Seen(s)[c] # ent[s][c]}
<1>3. cols' = [cols EXCEPT ![s] = C] BY DEF CompareLoan
<1>4. C \in SUBSET LoanColumns BY DEF Assigned, LoanColumns
<1>5. own[s] = None /\ Seen(s) = loan BY <1>1, SeenTyped DEF TransactionOK, Saved
<1>6. cols'[s] = C BY <1>3
<1>7. UNCHANGED <<own, ent, change, data, hist>> BY DEF CompareLoan
<1>8. TransactionOK(s)' BY <1>1, <1>2, <1>5, <1>7 DEF TransactionOK, Running, Saved
<1>9. BackedOK(s)'
  <2>1. AmountOf(funded)' = AmountOf(funded) /\ (Sound' <=> Sound)
    BY <1>7 DEF data, hist, AmountOf, Sound, PaymentsIn
  <2> QED BY <1>1, <1>5, <1>7, <2>1 DEF BackedOK, Backed, Running
<1>10. TermsOK(s)' BY <1>1, <1>5, <1>7 DEF TermsOK, TermsFrom, data, Running
<1>11. OpenOK(s)'
  <2>1. "status" \in C \/ loan.status \in Begun
    <3>1. ent[s].status \in Begun BY <1>1 DEF OpenOK, Running
    <3>2. "status" \in LoanColumns BY DEF LoanColumns
    <3> QED BY <1>5, <3>1, <3>2
  <2> HIDE DEF C
  <2> QED BY <1>1, <1>2, <1>6, <1>7, <2>1 DEF OpenOK, Saved, Running, data
<1>12. OK(s)' BY <1>8, <1>9, <1>10, <1>11, OKOfTransaction DEF Kept
<1>13. "save" \in Labels \ {"done"} BY DEF Labels, Ended
<1> HIDE DEF C
<1>14. cols' \in [Transactions -> SUBSET LoanColumns] BY <1>3, <1>4
<1> QED BY <1>1, <1>3, <1>7, <1>12, <1>13, <1>14, LocalStep

(* save() updates the columns that differ, of the row as it is now.         *)
LEMMA SaveLoanStep ==
  ASSUME LifecycleInv, NEW s \in Transactions, SaveLoan(s) PROVE LifecycleInv'
<1> USE InvFacts
<1> DEFINE row == [c \in LoanColumns |-> IF c \in cols[s] THEN ent[s][c] ELSE loan[c]]
<1>1. pc[s] = "save" /\ pc' = [pc EXCEPT ![s] = "delete"] BY DEF SaveLoan, Goto
<1>2. pc'[s] = "delete" BY <1>1
<1>3. UNCHANGED <<ent, change, cols, data, hist>> BY DEF SaveLoan
<1>4. own[s] = None /\ ent[s] \in LoanRows BY <1>1 DEF TransactionOK, Saved, Running
<1>5. /\ row \in LoanRows
      /\ row.status = IF "status" \in cols[s] THEN ent[s].status ELSE loan.status
      /\ row.outstanding = IF "outstanding" \in cols[s] THEN ent[s].outstanding ELSE loan.outstanding
      /\ row.rate = IF "rate" \in cols[s] THEN ent[s].rate ELSE loan.rate
      /\ row.maturity = IF "maturity" \in cols[s] THEN ent[s].maturity ELSE loan.maturity
  BY <1>4, MixedLoan
<1>6. \/ own' = own /\ cols[s] = {}
      \/ own' = [own EXCEPT ![s] = row] /\ RowFree(s)
  BY DEF SaveLoan
<1> HIDE DEF row
<1>8. (own'[s] = None /\ cols[s] = {}) \/ own'[s] = row BY <1>4, <1>6
<1>9. own' \in [Writers -> LoanRows \cup {None}] /\ \A t \in Writers \ {s} : own'[t] = own[t]
  BY <1>5, <1>6
<1>10. TransactionOK(s)' BY <1>2, <1>3, <1>4 DEF TransactionOK, Running, Saved
<1>11. BackedOK(s)'
  <2>1. AmountOf(funded)' = AmountOf(funded) /\ (Sound' <=> Sound)
    BY <1>3 DEF data, hist, AmountOf, Sound, PaymentsIn
  <2>2. Sound => Backed(loan) /\ Backed(ent[s]) BY <1>1 DEF Balance, BackedOK, Running
  <2>3. Sound => row.outstanding <= AmountOf(funded) BY <1>5, <2>2 DEF Backed
  <2> QED BY <1>3, <1>8, <2>1, <2>2, <2>3 DEF BackedOK, Backed
<1>12. TermsOK(s)'
  <2> DEFINE M == records \cup ({s} \cap Modifications)
  <2>1. TermsFrom(loan, M) /\ TermsFrom(ent[s], M)
    BY <1>1 DEF Recorded, TermsOK, TermsFrom, Running
  <2> HIDE DEF M
  <2>2. TermsFrom(row, M) BY <1>5, <2>1 DEF TermsFrom
  <2>3. (records \cup ({s} \cap Modifications))' = M BY <1>3 DEF data, M
  <2> QED BY <1>3, <1>8, <2>1, <2>2, <2>3 DEF TermsOK, TermsFrom
<1>13. OpenOK(s)'
  <2>1. /\ ent[s].status \in Begun /\ ("status" \in cols[s] \/ loan.status \in Begun)
        /\ s \in Modifications => loan.status \in Begun
    BY <1>1 DEF OpenOK, Running
  <2>2. row.status \in Begun BY <1>5, <2>1
  <2>3. Seen(s)' = IF own'[s] # None THEN own'[s] ELSE loan BY <1>3 DEF Seen, data
  <2>4. row # None BY <1>5, LoanRowFacts
  <2>5. Seen(s)'.status \in Begun BY <1>8, <2>1, <2>2, <2>3, <2>4
  <2> QED BY <1>2, <1>3, <2>1, <2>5 DEF OpenOK, data
<1>14. OK(s)' BY <1>10, <1>11, <1>12, <1>13, OKOfTransaction DEF Kept
<1>15. "delete" \in Labels \ {"done"} BY DEF Labels, Ended
<1>16. faults' \in 0 .. MaxFaults BY <1>3 DEF hist, Shapes, TypeOK
<1>17. UNCHANGED <<funded, activated, flaws>> BY <1>3 DEF hist
<1> QED BY <1>1, <1>3, <1>6, <1>9, <1>14, <1>15, <1>16, <1>17, QuietStep

(* A transaction changes the schedule and nothing else.                     *)
LEMMA ScheduleStep ==
  ASSUME LifecycleInv, NEW s \in Transactions, NEW l \in {"items", "commit"},
         pc[s] \in Saved, pc' = [pc EXCEPT ![s] = l],
         UNCHANGED <<loan, draws, payments, records, local, hist>>, Held \cap schedule \subseteq schedule',
         \A i \in schedule' : i \in ItemRows, SchedulesAreWhole', PaidItemsStay'
  PROVE  LifecycleInv'
<1> USE InvFacts
<1>1. pc'[s] = l /\ \A t \in Requests \ {s} : pc'[t] = pc[t] OBVIOUS
<1>2. UNCHANGED <<ent, change, own, cols>> /\ UNCHANGED <<faults, funded, activated, flaws>>
  BY DEF local, hist
<1>3. l \in Labels /\ l \in Saved /\ l \in Running /\ l # "save" /\ pc[s] \in Running /\ pc[s] # "done"
  BY DEF Labels, Saved, Running
<1>4. Shapes' BY <1>2, <1>3 DEF Shapes, TypeOK, Drawn
<1>5. DrawsGrow /\ AmountOf(funded)' = AmountOf(funded) /\ Paid' \subseteq funded'
  BY <1>2, DrawsStayGrow DEF DrawsStay
<1>6. (Sound' <=> Sound) /\ Applied' = Applied /\ Received' = Received
  BY <1>2 DEF Sound, PaymentsIn, Applied, Received
<1>7. TablesGrow BY <1>2, <1>6 DEF TablesGrow
<1>8. \A t \in Requests \ {s} : Bystander(t) BY <1>1, <1>2 DEF Bystander
<1>9. Recorded'
  <2>1. (\A t \in Modifications : t \in records <=> pc[t] = "done")'
    BY <1>1, <1>3, Kinds DEF Recorded
  <2>2. (\A t \in Activations : t \in activated <=> pc[t] = "done")'
    BY <1>1, <1>2, <1>3, Kinds DEF Recorded
  <2>3. TermsFrom(loan, records)' BY <1>2 DEF Recorded, TermsFrom
  <2> QED BY <1>2, <2>1, <2>2, <2>3 DEF Recorded
<1>10. Shared'
  <2>1. Balance' BY <1>2, <1>5, <1>6 DEF Balance, Backed
  <2>2. OneHolder' BY <1>2 DEF OneHolder
  <2> QED BY <1>5, <1>9, <2>1, <2>2 DEF Shared
<1>11. TransactionOK(s)' BY <1>1, <1>2, <1>3 DEF TransactionOK
<1>12. BackedOK(s)' BY <1>1, <1>2, <1>3, <1>5, <1>6 DEF BackedOK, Backed
<1>13. TermsOK(s)' BY <1>1, <1>2, <1>3 DEF TermsOK, TermsFrom
<1>14. OpenOK(s)' BY <1>1, <1>2, <1>3 DEF OpenOK, Seen
<1>15. OK(s)' BY <1>11, <1>12, <1>13, <1>14, OKOfTransaction DEF Kept
<1> QED BY <1>4, <1>5, <1>7, <1>8, <1>10, <1>15, Preserve

(* A transaction whose statement is refused.                                *)
LEMMA RefusedStep ==
  ASSUME LifecycleInv, NEW s \in Requests, pc[s] # "done", Rollback(s), UNCHANGED data,
         UNCHANGED hist
  PROVE  LifecycleInv'
<1>1. faults' \in 0 .. MaxFaults BY InvFacts DEF hist, Shapes, TypeOK
<1> QED BY <1>1, RollbackStep DEF hist

(* generateSchedule deletes the schedule no payment refers to.              *)
LEMMA DeleteScheduleStep ==
  ASSUME LifecycleInv, NEW s \in Transactions, DeleteSchedule(s) PROVE LifecycleInv'
<1> USE InvFacts
<1>1. pc[s] = "delete" BY DEF DeleteSchedule
<1>2. CASE Cited \cap schedule # {}
  <2>1. Rollback(s) /\ UNCHANGED data /\ UNCHANGED hist BY <1>2 DEF DeleteSchedule, data
  <2> QED BY <1>1, <2>1, RefusedStep
<1>3. CASE Cited \cap schedule = {}
  <2>1. schedule' = {} /\ pc' = [pc EXCEPT ![s] = "items"] /\ UNCHANGED local
    BY <1>3 DEF DeleteSchedule, Goto
  <2>2. Cited = {} BY <1>3 DEF Shared, PaidItemsStay
  <2>3. UNCHANGED <<loan, draws, payments, records, local, hist>> BY <2>1 DEF DeleteSchedule
  <2>4. SchedulesAreWhole' BY <2>1 DEF SchedulesAreWhole
  <2>5. Cited' = Cited BY <2>3 DEF Cited, Received, PaymentsIn
  <2>6. PaidItemsStay' BY <2>2, <2>5 DEF PaidItemsStay
  <2>7. Held \cap schedule \subseteq schedule' BY DEF DeleteSchedule
  <2> QED BY <1>1, <2>1, <2>3, <2>4, <2>6, <2>7, ScheduleStep DEF Saved
<1> QED BY <1>2, <1>3

\* a loan row and an item, or another row, agree on the terms
SameTerms(x, y) == x.rate = y.rate /\ x.maturity = y.maturity

(* The periods of a call are items, and make a whole schedule.              *)
LEMMA ItemsOfFacts ==
  ASSUME NEW g \in Transactions \cup {None}, NEW e \in LoanRows
  PROVE  /\ \A i \in ItemsOf(g, e) : i \in ItemRows /\ SameTerms(i, e)
         /\ \E i \in ItemsOf(g, e) :
              /\ i.period = 1
              /\ ItemsOf(g, e) = {[i EXCEPT !.period = n] : n \in 1 .. i.maturity}
<1>1. e.maturity \in Nat \ {0} /\ e.maturity \in Spans /\ e.rate \in Rates BY LoanRowFacts
<1> DEFINE item(n) == [gen |-> g, period |-> n, rate |-> e.rate, maturity |-> e.maturity]
<1>2. ItemsOf(g, e) = {item(n) : n \in 1 .. e.maturity} BY DEF ItemsOf
<1>3. \A n \in 1 .. e.maturity : item(n) \in ItemRows /\ SameTerms(item(n), e)
  <2> SUFFICES ASSUME NEW n \in 1 .. e.maturity
               PROVE  item(n) \in ItemRows /\ SameTerms(item(n), e)
    OBVIOUS
  <2>1. n \in Nat \ {0} BY <1>1
  <2> QED BY <1>1, <2>1 DEF ItemRows, SameTerms
<1>4. 1 \in 1 .. e.maturity BY <1>1
<1>5. \A n : [item(1) EXCEPT !.period = n] = item(n) OBVIOUS
<1>6. item(1).maturity = e.maturity /\ item(1).period = 1 OBVIOUS
<1>7. {[item(1) EXCEPT !.period = n] : n \in 1 .. item(1).maturity} = {item(n) : n \in 1 .. e.maturity}
  BY <1>5, <1>6
<1>8. item(1) \in ItemsOf(g, e) BY <1>2, <1>4
<1>9. \A i \in ItemsOf(g, e) : i \in ItemRows /\ SameTerms(i, e) BY <1>2, <1>3
<1> QED BY <1>2, <1>6, <1>7, <1>8, <1>9

(* A schedule has a first period.                                           *)
LEMMA FirstPeriod ==
  ASSUME Shapes, SchedulesAreWhole, schedule # {}
  PROVE  \E i \in schedule : i.period = 1
<1>1. PICK i \in schedule : schedule = {[i EXCEPT !.period = n] : n \in 1 .. i.maturity}
  BY DEF SchedulesAreWhole
<1>2. i \in ItemRows BY DEF Shapes, TypeOK
<1>3. i.maturity \in Nat \ {0} BY <1>2, LifecycleConstants DEF ItemRows
<1>4. 1 \in 1 .. i.maturity BY <1>3
<1>5. [i EXCEPT !.period = 1] \in schedule BY <1>1, <1>4
<1>6. [i EXCEPT !.period = 1].period = 1 BY <1>2 DEF ItemRows
<1> QED BY <1>5, <1>6

(* generateSchedule inserts its items, where there are none.                *)
LEMMA InsertScheduleStep ==
  ASSUME LifecycleInv, NEW s \in Transactions, InsertSchedule(s)
  PROVE  /\ LifecycleInv'
         /\ pc'[s] = "commit" => schedule' = ItemsOf(s, ent[s])
<1> USE InvFacts
<1>1. pc[s] = "items" BY DEF InsertSchedule
<1> DEFINE items == ItemsOf(s, ent[s])
<1>2. CASE \E i \in schedule, j \in items : i.period = j.period
  <2>1. Rollback(s) /\ UNCHANGED data /\ UNCHANGED hist BY <1>2 DEF InsertSchedule, data
  <2>2. pc'[s] = "aborted" BY <2>1 DEF Rollback, Goto
  <2> QED BY <1>1, <2>1, <2>2, RefusedStep
<1>3. CASE ~ \E i \in schedule, j \in items : i.period = j.period
  <2>1. schedule' = schedule \cup items /\ pc' = [pc EXCEPT ![s] = "commit"] /\ UNCHANGED local
    BY <1>3 DEF InsertSchedule, Goto
  <2>2. UNCHANGED <<loan, draws, payments, records, local, hist>> BY <2>1 DEF InsertSchedule
  <2>3. ent[s] \in LoanRows BY <1>1 DEF TransactionOK, Running
  <2>4. PICK i \in items : i.period = 1 /\ items = {[i EXCEPT !.period = n] : n \in 1 .. i.maturity}
    BY <2>3, ItemsOfFacts
  <2>5. schedule = {} BY <1>3, <2>4, FirstPeriod DEF Shared
  <2>6. schedule' = items BY <2>1, <2>5
  <2>7. \A j \in schedule' : j \in ItemRows BY <2>3, <2>6, ItemsOfFacts
  <2> HIDE DEF items
  <2>8. SchedulesAreWhole' BY <2>4, <2>6 DEF SchedulesAreWhole
  <2>9. Cited' = Cited BY <2>2 DEF Cited, Received, PaymentsIn
  <2>10. PaidItemsStay' BY <2>5, <2>9 DEF Shared, PaidItemsStay
  <2>11. Held \cap schedule \subseteq schedule' BY <2>5
  <2> QED BY <1>1, <2>1, <2>2, <2>6, <2>7, <2>8, <2>10, <2>11, ScheduleStep DEF Saved, items
<1> QED BY <1>2, <1>3

(* A commit publishes the row of the loan, the record and the activation.   *)
LEMMA CommitStep ==
  ASSUME LifecycleInv, NEW s \in Transactions, Commit(s) PROVE LifecycleInv'
<1> USE InvFacts
<1>1. pc[s] = "commit" /\ pc' = [pc EXCEPT ![s] = "done"] /\ own' = [own EXCEPT ![s] = None]
  BY DEF Commit, Goto
<1>2. /\ pc'[s] = "done" /\ \A t \in Requests \ {s} : pc'[t] = pc[t]
      /\ own'[s] = None /\ \A t \in Writers \ {s} : own'[t] = own[t]
  BY <1>1
<1>3. /\ UNCHANGED <<draws, schedule, change, payments, faults, funded>>
      /\ loan' = Seen(s)
      /\ records' = records \cup ({s} \cap Modifications)
      /\ activated' = activated \cup ({s} \cap Activations)
      /\ flaws' = flaws \cup Overwrites(Seen(s))
  BY DEF Commit
<1>f. /\ DOMAIN ent' = Requests /\ \A t \in Requests \ {s} : ent'[t] = ent[t]
      /\ cols' \in [Transactions -> SUBSET LoanColumns]
      /\ \A t \in Transactions \ {s} : cols'[t] = cols[t]
  BY DEF Commit, Forget
<1>4. Seen(s) \in LoanRows BY SeenTyped
<1>5. Seen(s).status \in Begun BY <1>1 DEF OpenOK, Saved
<1>6. DrawsGrow /\ AmountOf(funded)' = AmountOf(funded) /\ Paid' \subseteq funded'
  BY <1>3, DrawsStayGrow DEF DrawsStay
<1>7. Shapes'
  <2>1. pc' \in [Requests -> Labels] BY <1>1 DEF Labels, Ended
  <2>2. own' \in [Writers -> LoanRows \cup {None}] BY <1>1
  <2>3. \A t \in Writers : own'[t] = None \/ own'[t] \in LoanRows BY <2>2
  <2>4. records' \subseteq Modifications /\ activated' \subseteq Activations
    BY <1>3 DEF Shapes, TypeOK
  <2>5. flaws' \subseteq {"overwritten", "overpaid", "twice"}
    BY <1>3 DEF Shapes, TypeOK, Overwrites
  <2> QED BY <1>3, <1>4, <1>f, <2>1, <2>2, <2>3, <2>4, <2>5 DEF Shapes, TypeOK, Drawn
<1>8. Applied' = Applied /\ Received' = Received /\ Cited' = Cited
      /\ PaymentsIn("REVERSED")' = PaymentsIn("REVERSED")
  BY <1>3 DEF PaymentsIn, Applied, Received, Cited
<1>9. (Sound' => Sound) /\ (flaws' = {} => flaws = {}) BY <1>3, <1>8 DEF Sound
<1>10. TablesGrow
  <2>1. loan' = loan \/ \A t \in Reversals : own[t] # None => own'[t] = None
    <3>1. CASE own[s] = None BY <1>3, <3>1, SeenTyped
    <3>2. CASE own[s] # None BY <1>2, <3>2 DEF OneHolder
    <3> QED BY <3>1, <3>2
  <2> QED BY <1>3, <1>5, <1>8, <1>9, <2>1 DEF TablesGrow
<1>11. \A t \in Requests \ {s} : Bystander(t) BY <1>2, <1>3, <1>f DEF Bystander
<1>12. OK(s)'
  <2>1. "done" \in Ended BY DEF Ended
  <2>2. Kept(s)'
    BY <1>2, <2>1 DEF Kept, TransactionOK, BackedOK, TermsOK, OpenOK, Running, Saved
  <2> QED BY <2>2, OKOfTransaction
<1>13. Balance'
  <2>1. Sound => Backed(Seen(s)) BY SeenTyped DEF Balance, BackedOK
  <2>2. loan.outstanding \in Nat /\ Seen(s).outstanding \in Nat /\ Applied \in Nat
    BY <1>4, LoanRowFacts, AppliedNat
  <2>3. ASSUME flaws' = {} PROVE Seen(s).outstanding + Applied <= AmountOf(funded)
    <3>1. flaws = {} /\ Overwrites(Seen(s)) = {} BY <1>3, <2>3
    <3>2. Sound BY <3>1 DEF Sound
    <3>3. Seen(s).outstanding <= AmountOf(funded) BY <2>1, <3>2 DEF Backed
    <3>4. loan.outstanding + Applied <= AmountOf(funded) BY <3>1 DEF Balance
    <3>5. Applied = 0 \/ Seen(s).outstanding <= loan.outstanding BY <2>2, <3>1 DEF Overwrites
    <3>6. AmountOf(funded) \in Nat BY <1>6, <1>7, FundedGrows
    <3> QED BY <2>2, <3>3, <3>4, <3>5, <3>6
  <2> QED BY <1>3, <1>6, <1>8, <1>9, <2>1, <2>3 DEF Balance, Backed
<1>14. Recorded'
  <2>1. (\A t \in Modifications : t \in records <=> pc[t] = "done")'
    BY <1>1, <1>2, <1>3, Kinds DEF Recorded
  <2>2. (\A t \in Activations : t \in activated <=> pc[t] = "done")'
    BY <1>1, <1>2, <1>3, Kinds DEF Recorded
  <2>3. IsFiniteSet(records') /\ IsFiniteSet(activated')
    <3>1. \A S : IsFiniteSet({s} \cap S) BY FS_Singleton, FS_Subset
    <3> QED BY <1>3, <3>1, FS_Union DEF Recorded
  <2>4. TermsFrom(Seen(s), records')
    <3>1. CASE own[s] # None BY <1>3, <3>1, SeenTyped DEF TermsOK
    <3>2. CASE own[s] = None BY <1>3, <3>2, SeenTyped DEF Recorded, TermsFrom
    <3> QED BY <3>1, <3>2
  <2>5. TermsFrom(loan, records)' BY <1>3, <2>4 DEF TermsFrom
  <2> QED BY <2>1, <2>2, <2>3, <2>5 DEF Recorded
<1>15. OneHolder' BY <1>2 DEF OneHolder
<1>16. SchedulesAreWhole' /\ PaidItemsStay'
  BY <1>3, <1>8 DEF Shared, SchedulesAreWhole, PaidItemsStay
<1>17. Shared' BY <1>6, <1>13, <1>14, <1>15, <1>16 DEF Shared
<1> QED BY <1>6, <1>7, <1>10, <1>11, <1>12, <1>17, Preserve

----------------------------------------------------------------------------
(* Steps of payments and reversals *)

(* applyPayment reads the loan and validates the allocation.                *)
LEMMA LoadForPaymentStep ==
  ASSUME LifecycleInv, NEW s \in Payers, LoadForPayment(s) PROVE LifecycleInv'
<1> USE InvFacts
<1>1. pc[s] = "idle" /\ payments[s] = None BY DEF LoadForPayment, PayerOK
<1>c. UNCHANGED <<data, own, cols, hist>> BY DEF LoadForPayment
<1>2. PICK a \in Receipts, b \in {"PRINCIPAL", "PREPAYMENT"}, i \in schedule \cup {None} :
       IF loan.status \in OpenStatuses /\ (b = "PRINCIPAL" => a <= loan.outstanding + Tolerance)
         THEN /\ change' = [change EXCEPT ![s] = [amount |-> a, bucket |-> b, item |-> i]]
              /\ ent' = [ent EXCEPT ![s] = loan]
              /\ Goto(s, "allocate")
         ELSE Goto(s, "rejected") /\ UNCHANGED <<ent, change>>
  BY DEF LoadForPayment
<1> DEFINE P == loan.status \in OpenStatuses /\ (b = "PRINCIPAL" => a <= loan.outstanding + Tolerance)
<1>3. CASE P
  <2>1. /\ change' = [change EXCEPT ![s] = [amount |-> a, bucket |-> b, item |-> i]]
        /\ ent' = [ent EXCEPT ![s] = loan] /\ pc' = [pc EXCEPT ![s] = "allocate"]
    BY <1>2, <1>3 DEF Goto
  <2>2. /\ pc'[s] = "allocate" /\ ent'[s] = loan
        /\ change'[s].amount = a /\ change'[s].item = i
    BY <2>1
  <2>3. i \in ItemRows \cup {None} BY DEF Shapes, TypeOK
  <2>4. AmountOf(funded)' = AmountOf(funded) /\ (Sound' <=> Sound)
    BY <1>c DEF data, hist, AmountOf, Sound, PaymentsIn
  <2>5. loan' = loan /\ payments' = payments BY <1>c DEF data
  <2>6. PayerOK(s)'
    BY <1>1, <1>3, <2>2, <2>3, <2>4, <2>5 DEF PayerOK, Backed, Balance, Begun, Ended
  <2>7. OK(s)' BY <2>6, OKOfPayer
  <2>8. "allocate" \in Labels \ {"done"} BY DEF Labels, Ended
  <2> QED BY <1>1, <1>c, <2>1, <2>7, <2>8, LocalStep
<1>4. CASE ~ P
  <2>1. ent' = ent /\ change' = change /\ pc' = [pc EXCEPT ![s] = "rejected"]
    BY <1>2, <1>4 DEF Goto
  <2>2. pc'[s] = "rejected" /\ payments' = payments BY <1>c, <2>1 DEF data
  <2>3. PayerOK(s)' BY <1>1, <2>2 DEF PayerOK, Ended
  <2>4. OK(s)' BY <2>3, OKOfPayer
  <2>5. "rejected" \in Labels \ {"done"} BY DEF Labels, Ended
  <2> QED BY <1>1, <1>c, <2>1, <2>4, <2>5, LocalStep
<1> QED BY <1>3, <1>4

(* applyPayment allocates to the installment, or finds it deleted.          *)
LEMMA AllocateStep ==
  ASSUME LifecycleInv, NEW s \in Payers, Allocate(s) PROVE LifecycleInv'
<1> USE InvFacts
<1>1. pc[s] = "allocate" /\ UNCHANGED <<data, hist>> BY DEF Allocate
<1>2. CASE change[s].item \in schedule \cup {None}
  <2>1. pc' = [pc EXCEPT ![s] = "settle"] /\ UNCHANGED <<own, ent, change, cols>>
    BY <1>2 DEF Allocate, Goto, local
  <2>2. pc'[s] = "settle" BY <2>1
  <2>3. AmountOf(funded)' = AmountOf(funded) /\ (Sound' <=> Sound)
    BY <1>1 DEF data, hist, AmountOf, Sound, PaymentsIn
  <2>4. UNCHANGED <<loan, schedule, payments>> BY <1>1 DEF data
  <2>5. PayerOK(s)' BY <1>1, <1>2, <2>1, <2>2, <2>3, <2>4 DEF PayerOK, Backed
  <2>6. OK(s)' BY <2>5, OKOfPayer
  <2>7. "settle" \in Labels \ {"done"} BY DEF Labels, Ended
  <2> QED BY <1>1, <2>1, <2>6, <2>7, LocalStep
<1>3. CASE change[s].item \notin schedule \cup {None}
  <2>1. Rollback(s) BY <1>3 DEF Allocate
  <2> QED BY <1>1, <2>1, RefusedStep
<1> QED BY <1>2, <1>3

(* applyPayment updates the loan and commits.                               *)
LEMMA SettleStep ==
  ASSUME LifecycleInv, NEW s \in Payers, Settle(s)
  PROVE  /\ LifecycleInv'
         /\ loan.status \in Begun /\ loan'.status \in Begun
         /\ loan'.rate = loan.rate /\ loan'.maturity = loan.maturity
<1> USE InvFacts
<1> DEFINE a == change[s].amount
           e == ent[s].outstanding
           balance == IF a <= e THEN e - a ELSE 0
           row == [amount |-> a, item |-> change[s].item, status |-> "APPLIED"]
<1>1. pc[s] = "settle" /\ RowFree(s) /\ pc' = [pc EXCEPT ![s] = "done"] BY DEF Settle, Goto
<1>2. PICK st \in {"CURRENT", IF balance <= 0 THEN "PAID_OFF" ELSE ent[s].status} :
        loan' = [loan EXCEPT !.outstanding = balance, !.status = st]
  BY DEF Settle
<1>3. /\ payments' = [payments EXCEPT ![s] = row]
      /\ flaws' = flaws \cup Overwrites(ent[s]) \cup (IF a > e THEN {"overpaid"} ELSE {})
      /\ change' = [change EXCEPT ![s] = None]
      /\ UNCHANGED <<draws, schedule, records, own, faults, funded, activated>>
  BY DEF Settle
<1>f. /\ DOMAIN ent' = Requests /\ \A t \in Requests \ {s} : ent'[t] = ent[t]
      /\ cols' \in [Transactions -> SUBSET LoanColumns]
      /\ \A t \in Transactions \ {s} : cols'[t] = cols[t]
  BY Kinds DEF Settle, Forget
<1>4. /\ ent[s] \in LoanRows /\ ent[s].status \in OpenStatuses /\ loan.status \in Begun
      /\ a \in Receipts /\ change[s].item \in ItemRows \cup {None}
      /\ change[s].item \in schedule \cup {None}
      /\ (Sound => Backed(ent[s])) /\ payments[s] = None
  BY <1>1 DEF PayerOK
<1>5. a \in Nat /\ e \in Nat /\ loan.outstanding \in Nat /\ Applied \in Nat
  BY <1>4, LifecycleConstants, LoanRowFacts, AppliedNat
<1>6. balance \in Nat /\ balance <= e /\ (a <= e => balance = e - a) BY <1>5
<1>7. row \in PaymentRows /\ row # None /\ row.status = "APPLIED" /\ row.amount = a
      /\ row.item = change[s].item
  BY <1>4, LifecycleConstants DEF PaymentRows
<1>8. st \in Begun BY <1>4 DEF Begun, OpenStatuses
<1> HIDE DEF balance, row
<1>9. /\ loan' \in LoanRows /\ loan'.status = st /\ loan'.outstanding = balance
      /\ loan'.rate = loan.rate /\ loan'.maturity = loan.maturity
  BY <1>2, <1>6, <1>8 DEF LoanRows, Begun
<1>10. pc'[s] = "done" /\ \A t \in Requests \ {s} : pc'[t] = pc[t] BY <1>1
<1>11. /\ payments'[s] = row /\ \A p \in Payers \ {s} : payments'[p] = payments[p]
       /\ payments' \in [Payers -> PaymentRows \cup {None}]
  BY <1>3, <1>7
<1>12. Shapes'
  <2>1. pc' \in [Requests -> Labels] BY <1>1 DEF Labels, Ended
  <2>2. flaws' \subseteq {"overwritten", "overpaid", "twice"}
    BY <1>3 DEF Shapes, TypeOK, Overwrites
  <2>3. DOMAIN change' = Requests BY <1>3
  <2> QED BY <1>3, <1>9, <1>11, <1>f, <2>1, <2>2, <2>3 DEF Shapes, TypeOK, Drawn
<1>13. DrawsGrow /\ AmountOf(funded)' = AmountOf(funded) /\ Paid' \subseteq funded'
  BY <1>3, DrawsStayGrow DEF DrawsStay
<1>14. /\ PaymentsIn("REVERSED")' = PaymentsIn("REVERSED")
       /\ Received' = Received \cup {s} /\ s \notin Received
  <2>1. PaymentsIn("REVERSED")' = PaymentsIn("REVERSED") /\ s \notin PaymentsIn("REVERSED")
    BY <1>4, <1>7, <1>11 DEF PaymentsIn
  <2>2. PaymentsIn("APPLIED")' = PaymentsIn("APPLIED") \cup {s} /\ s \notin PaymentsIn("APPLIED")
    BY <1>4, <1>7, <1>11 DEF PaymentsIn
  <2> QED BY <2>1, <2>2 DEF Received
<1>15. (Sound' => Sound) /\ (flaws' = {} => flaws = {}) BY <1>3, <1>14 DEF Sound
<1>16. s \notin records BY Kinds
<1>17. TablesGrow
  <2>1. \A m \in records : change'[m] = change[m] BY <1>3, <1>16
  <2>2. \A p \in Received : payments'[p].amount = payments[p].amount
    BY <1>11, <1>14, ReceivedFacts
  <2>3. \A t \in Reversals : own[t] # None => own'[t] = None BY <1>1, Kinds DEF RowFree
  <2> QED BY <1>3, <1>8, <1>9, <1>14, <1>15, <2>1, <2>2, <2>3 DEF TablesGrow
<1>18. \A t \in Requests \ {s} : Bystander(t)
  <2> SUFFICES ASSUME NEW t \in Requests \ {s} PROVE Bystander(t) OBVIOUS
  <2>1. change'[t] = change[t] BY <1>3
  <2>2. t \in Payers => payments'[t] = payments[t] BY <1>11
  <2> QED BY <1>3, <1>10, <1>f, <2>1, <2>2 DEF Bystander
<1>19. OK(s)'
  <2>1. PayerOK(s)' BY <1>10 DEF PayerOK, Ended
  <2> QED BY <2>1, OKOfPayer
<1>20. Balance'
  <2>1. Sound' => balance <= AmountOf(funded)
    <3>1. AmountOf(funded) \in Nat BY <1>12, <1>13, FundedGrows
    <3> QED BY <1>4, <1>5, <1>6, <1>15, <3>1 DEF Backed
  <2>2. Applied' = Applied + a BY <1>3, <1>4, <1>7, AppliedGrows
  <2>3. ASSUME flaws' = {} PROVE balance + Applied' <= AmountOf(funded)
    <3>1. flaws = {} /\ Overwrites(ent[s]) = {} /\ a <= e BY <1>3, <1>5, <2>3
    <3>2. Sound BY <3>1 DEF Sound
    <3>3. e <= AmountOf(funded) BY <1>4, <3>2 DEF Backed
    <3>4. loan.outstanding + Applied <= AmountOf(funded) BY <3>1 DEF Balance
    <3>5. Applied = 0 \/ e <= loan.outstanding BY <1>5, <3>1 DEF Overwrites
    <3>6. AmountOf(funded) \in Nat BY <1>12, <1>13, FundedGrows
    <3>7. e + Applied <= AmountOf(funded) BY <1>5, <3>3, <3>4, <3>5, <3>6
    <3> QED BY <1>5, <1>6, <2>2, <3>1, <3>6, <3>7
  <2> QED BY <1>9, <1>13, <2>1, <2>3 DEF Balance, Backed
<1>21. Recorded'
  <2>1. (\A t \in Modifications : t \in records <=> pc[t] = "done")'
    BY <1>3, <1>10, Kinds DEF Recorded
  <2>2. (\A t \in Activations : t \in activated <=> pc[t] = "done")'
    BY <1>3, <1>10, Kinds DEF Recorded
  <2>3. \A m \in records : change'[m] = change[m] BY <1>3, <1>16
  <2>4. TermsFrom(loan, records)' BY <1>3, <1>9, <2>3 DEF Recorded, TermsFrom
  <2> QED BY <1>3, <2>1, <2>2, <2>4 DEF Recorded
<1>22. PaidItemsStay'
  <2> SUFFICES ASSUME NEW p \in Received', payments'[p].item # None
               PROVE  payments'[p].item \in schedule'
    BY DEF PaidItemsStay, Cited
  <2>1. CASE p = s BY <1>3, <1>4, <1>7, <1>11, <2>1
  <2>2. CASE p # s
    <3>1. p \in Received /\ p \in Payers BY <1>14, <2>2, ReceivedFacts
    <3>2. payments'[p] = payments[p] BY <1>11, <2>2, <3>1
    <3> QED BY <1>3, <3>1, <3>2 DEF Shared, PaidItemsStay, Cited
  <2> QED BY <2>1, <2>2
<1>23. Shared'
  <2>1. OneHolder' /\ SchedulesAreWhole' BY <1>3 DEF Shared, OneHolder, SchedulesAreWhole
  <2> QED BY <1>13, <1>20, <1>21, <1>22, <2>1 DEF Shared
<1>24. LifecycleInv' BY <1>12, <1>13, <1>17, <1>18, <1>19, <1>23, Preserve
<1> QED BY <1>4, <1>8, <1>9, <1>24

(* reversePayment reads the payment.                                        *)
LEMMA LoadForReversalStep ==
  ASSUME LifecycleInv, NEW s \in Reversals, LoadForReversal(s) PROVE LifecycleInv'
<1> USE InvFacts
<1>1. pc[s] = "idle" /\ own[s] = None BY DEF LoadForReversal, ReversalOK
<1>c. UNCHANGED <<data, own, ent, cols, hist>> BY DEF LoadForReversal
<1>2. PICK p \in Received :
       IF p \in PaymentsIn("APPLIED")
         THEN Goto(s, "increment") /\ change' = [change EXCEPT ![s] = p]
         ELSE Goto(s, "rejected") /\ UNCHANGED change
  BY DEF LoadForReversal
<1>3. \/ pc' = [pc EXCEPT ![s] = "increment"] /\ change' = [change EXCEPT ![s] = p]
      \/ pc' = [pc EXCEPT ![s] = "rejected"] /\ change' = change
  BY <1>2 DEF Goto
<1>4. \/ pc'[s] = "increment" /\ change'[s] = p
      \/ pc'[s] = "rejected"
  BY <1>3
<1>5. Received' = Received BY <1>c DEF data, Received, PaymentsIn
<1>6. ReversalOK(s)' BY <1>1, <1>c, <1>4, <1>5 DEF ReversalOK, Ended
<1>7. OK(s)' BY <1>6, OKOfReversal
<1>8. "increment" \in Labels \ {"done"} /\ "rejected" \in Labels \ {"done"} BY DEF Labels, Ended
<1> QED BY <1>1, <1>c, <1>3, <1>7, <1>8, LocalStep

(* reversePayment increments the balance and holds the row.                 *)
LEMMA IncrementStep ==
  ASSUME LifecycleInv, NEW s \in Reversals, Increment(s) PROVE LifecycleInv'
<1> USE InvFacts
<1> DEFINE row == [loan EXCEPT !.outstanding = @ + payments[change[s]].amount]
<1>1. pc[s] = "increment" /\ RowFree(s) /\ pc' = [pc EXCEPT ![s] = "unpay"] BY DEF Increment, Goto
<1>2. own' = [own EXCEPT ![s] = row] /\ UNCHANGED <<data, ent, change, cols, hist>> BY DEF Increment
<1>3. change[s] \in Received BY <1>1 DEF ReversalOK
<1>4. payments[change[s]].amount \in Nat /\ loan.outstanding \in Nat
  BY <1>3, ReceivedFacts, LoanRowFacts
<1>5. row \in LoanRows BY <1>4 DEF LoanRows
<1>6. pc'[s] = "unpay" /\ own'[s] = row BY <1>1, <1>2
<1>7. ReversalOK(s)'
  <2>1. UNCHANGED <<loan, payments>> /\ Received' = Received
    BY <1>2 DEF data, Received, PaymentsIn
  <2> QED BY <1>2, <1>3, <1>6, <2>1 DEF ReversalOK
<1>8. OK(s)' BY <1>7, OKOfReversal
<1> HIDE DEF row
<1>9. own' \in [Writers -> LoanRows \cup {None}] /\ \A t \in Writers \ {s} : own'[t] = own[t]
  BY <1>2, <1>5
<1>10. "unpay" \in Labels \ {"done"} BY DEF Labels, Ended
<1>11. faults' \in 0 .. MaxFaults /\ UNCHANGED <<funded, activated, flaws>>
  BY <1>2 DEF hist, Shapes, TypeOK
<1> QED BY <1>1, <1>2, <1>8, <1>9, <1>10, <1>11, QuietStep

(* reversePayment marks the payment and commits, or a deadlock is broken.   *)
LEMMA CommitReversalStep ==
  ASSUME LifecycleInv, NEW s \in Reversals, CommitReversal(s)
  PROVE  /\ LifecycleInv'
         /\ loan'.status = loan.status /\ loan'.rate = loan.rate /\ loan'.maturity = loan.maturity
<1> USE InvFacts
<1> DEFINE p == change[s]
           rivals == {t \in Payers : payments[p].item # None /\ LockedBy(t, payments[p].item)}
<1>1. pc[s] = "unpay" /\ UNCHANGED <<draws, schedule, records, faults, funded, activated>>
  BY DEF CommitReversal
<1>2. CASE rivals # {}
  <2>1. PICK t \in rivals \cup {s} : Rollback(t) BY <1>2 DEF CommitReversal
  <2>2. UNCHANGED <<loan, payments, flaws>> BY <1>2 DEF CommitReversal
  <2>3. t \in Requests /\ pc[t] # "done" BY <1>1, Kinds DEF LockedBy, Allocated
  <2>4. UNCHANGED <<data, hist>> BY <1>1, <2>2 DEF data, hist
  <2>5. LifecycleInv' BY <2>1, <2>3, <2>4, RefusedStep
  <2> QED BY <2>2, <2>5
<1>3. CASE rivals = {}
  <2>1. /\ loan' = own[s] /\ own' = [own EXCEPT ![s] = None]
        /\ payments' = [payments EXCEPT ![p].status = "REVERSED"]
        /\ flaws' = flaws \cup (IF p \in PaymentsIn("REVERSED") THEN {"twice"} ELSE {})
        /\ change' = [change EXCEPT ![s] = None]
        /\ pc' = [pc EXCEPT ![s] = "done"] /\ Forget(s)
    BY <1>3 DEF CommitReversal, Goto
  <2>f. /\ DOMAIN ent' = Requests /\ \A t \in Requests \ {s} : ent'[t] = ent[t]
        /\ cols' \in [Transactions -> SUBSET LoanColumns]
        /\ \A t \in Transactions \ {s} : cols'[t] = cols[t]
    BY <2>1, Kinds DEF Forget
  <2>2. p \in Received /\ own[s] = [loan EXCEPT !.outstanding = @ + payments[p].amount]
    BY <1>1 DEF ReversalOK
  <2>3. /\ p \in Payers /\ payments[p] # None /\ payments[p] \in PaymentRows
        /\ payments[p].amount \in Nat /\ payments[p].status \in {"APPLIED", "REVERSED"}
    BY <2>2, ReceivedFacts
  <2> DEFINE m == payments[p].amount
             back == [payments[p] EXCEPT !.status = "REVERSED"]
  <2>4. loan.outstanding \in Nat /\ Applied \in Nat BY LoanRowFacts, AppliedNat
  <2>5. /\ loan' \in LoanRows /\ loan'.outstanding = loan.outstanding + m /\ loan' # None
        /\ loan'.status = loan.status /\ loan'.rate = loan.rate /\ loan'.maturity = loan.maturity
    BY <2>1, <2>2, <2>3, <2>4 DEF LoanRows
  <2>6. \A t \in Writers \ {s} : own[t] = None BY <2>1, <2>5 DEF OneHolder
  <2>7. /\ back \in PaymentRows /\ back # None /\ back.status = "REVERSED"
        /\ back.amount = m /\ back.item = payments[p].item
    BY <2>3, LifecycleConstants DEF PaymentRows
  <2>8. /\ payments'[p] = back /\ \A q \in Payers \ {p} : payments'[q] = payments[q]
        /\ payments' \in [Payers -> PaymentRows \cup {None}]
    BY <2>1, <2>3, <2>7
  <2> HIDE DEF back, m
  <2>9. \A q \in Payers : (payments'[q] = None <=> payments[q] = None)
    BY <2>3, <2>7, <2>8
  <2>10. /\ Received' = Received /\ p \in PaymentsIn("REVERSED")'
         /\ \A q \in Received : payments'[q].amount = payments[q].amount
                                /\ payments'[q].item = payments[q].item
    <3>1. p \in PaymentsIn("REVERSED")' BY <2>3, <2>7, <2>8 DEF PaymentsIn
    <3>2. \A q \in Payers \ {p} : \A status :
            q \in PaymentsIn(status)' <=> q \in PaymentsIn(status)
      BY <2>8 DEF PaymentsIn
    <3>3. \A status : PaymentsIn(status) \subseteq Payers /\ PaymentsIn(status)' \subseteq Payers
      BY DEF PaymentsIn
    <3>4. \A q \in Received : payments'[q].amount = payments[q].amount
                              /\ payments'[q].item = payments[q].item
      BY <2>7, <2>8, ReceivedFacts DEF m
    <3> QED BY <2>2, <3>1, <3>2, <3>3, <3>4 DEF Received
  <2>11. (flaws' = {} => flaws = {} /\ p \in PaymentsIn("APPLIED")) /\ (Sound' => flaws' = {})
    BY <2>1, <2>2, <2>10 DEF Sound, Received
  <2>12. Sound' => Sound BY <2>11 DEF Sound
  <2>13. pc'[s] = "done" /\ \A t \in Requests \ {s} : pc'[t] = pc[t] BY <2>1
  <2>14. own'[s] = None /\ \A t \in Writers \ {s} : own'[t] = own[t] BY <2>1
  <2>15. Shapes'
    <3>1. pc' \in [Requests -> Labels] BY <2>1 DEF Labels, Ended
    <3>2. flaws' \subseteq {"overwritten", "overpaid", "twice"} BY <2>1 DEF Shapes, TypeOK
    <3>3. own' \in [Writers -> LoanRows \cup {None}] BY <2>1
    <3>4. \A t \in Writers : own'[t] = None \/ own'[t] \in LoanRows BY <3>3
    <3>5. DOMAIN change' = Requests BY <2>1
    <3> QED BY <1>1, <2>5, <2>8, <2>f, <3>1, <3>2, <3>3, <3>4, <3>5 DEF Shapes, TypeOK, Drawn
  <2>16. DrawsGrow /\ AmountOf(funded)' = AmountOf(funded) /\ Paid' \subseteq funded'
    BY <1>1, DrawsStayGrow DEF DrawsStay
  <2>17. s \notin records BY Kinds
  <2>18. TablesGrow
    <3>1. \A n \in records : change'[n] = change[n] BY <2>1, <2>17
    <3>2. \A t \in Reversals : own[t] # None => own'[t] = None BY <2>6, <2>14
    <3> QED BY <1>1, <2>5, <2>10, <2>12, <3>1, <3>2 DEF TablesGrow
  <2>19. \A t \in Requests \ {s} : Bystander(t)
    <3> SUFFICES ASSUME NEW t \in Requests \ {s} PROVE Bystander(t) OBVIOUS
    <3>1. change'[t] = change[t] BY <2>1
    <3> QED BY <1>1, <2>9, <2>13, <2>14, <2>f, <3>1 DEF Bystander
  <2>20. OK(s)'
    <3>1. ReversalOK(s)' BY <2>13, <2>14 DEF ReversalOK, Ended
    <3> QED BY <3>1, OKOfReversal
  <2>21. Balance'
    <3>1. ASSUME flaws' = {} PROVE loan'.outstanding + Applied' <= AmountOf(funded)
      <4>1. loan.outstanding + Applied <= AmountOf(funded) BY <2>11, <3>1 DEF Balance
      <4>2. Applied = m + Applied' /\ Applied' \in Nat BY <2>1, <2>11, <3>1, AppliedShrinks DEF m
      <4> QED BY <2>3, <2>4, <2>5, <4>1, <4>2 DEF m
    <3>2. loan'.outstanding \in Nat /\ AmountOf(funded) \in Nat
      BY <2>5, <2>15, <2>16, LoanRowFacts, FundedGrows
    <3>3. ASSUME Sound' PROVE loan'.outstanding <= AmountOf(funded)
      <4>1. flaws' = {} /\ p \in PaymentsIn("APPLIED") BY <2>11, <3>3
      <4>2. Applied' \in Nat BY <2>1, <4>1, AppliedShrinks
      <4> QED BY <3>1, <3>2, <4>1, <4>2
    <3> QED BY <2>16, <3>1, <3>3 DEF Balance, Backed
  <2>22. Recorded'
    <3>1. (\A t \in Modifications : t \in records <=> pc[t] = "done")'
      BY <1>1, <2>13, Kinds DEF Recorded
    <3>2. (\A t \in Activations : t \in activated <=> pc[t] = "done")'
      BY <1>1, <2>13, Kinds DEF Recorded
    <3>3. \A n \in records : change'[n] = change[n] BY <2>1, <2>17
    <3>4. TermsFrom(loan, records)' BY <1>1, <2>5, <3>3 DEF Recorded, TermsFrom
    <3> QED BY <1>1, <3>1, <3>2, <3>4 DEF Recorded
  <2>23. PaidItemsStay' BY <1>1, <2>10 DEF Shared, PaidItemsStay, Cited
  <2>24. Shared'
    <3>1. OneHolder' BY <2>14 DEF OneHolder
    <3>2. SchedulesAreWhole' BY <1>1 DEF Shared, SchedulesAreWhole
    <3> QED BY <2>16, <2>21, <2>22, <2>23, <3>1, <3>2 DEF Shared
  <2>25. LifecycleInv' BY <2>15, <2>16, <2>18, <2>19, <2>20, <2>24, Preserve
  <2> QED BY <2>5, <2>25
<1> QED BY <1>2, <1>3

----------------------------------------------------------------------------
(* The theorems *)

(* The initial states satisfy the invariant.                                *)
LEMMA InitInv == Init => LifecycleInv
<1> SUFFICES ASSUME Init PROVE LifecycleInv OBVIOUS
<1>1. Funded0 \subseteq Drawn /\ Paid = Funded0 BY DEF Init, Funded0, Drawn, Paid
<1>2. schedule = {} \/ schedule = ItemsOf(None, Loan0) BY DEF Init
<1>3. Loan0 \in LoanRows BY LifecycleConstants
<1>p. \A status : PaymentsIn(status) = {} BY DEF Init, PaymentsIn
<1>4. Shapes
  <2>1. \A i \in schedule : i \in ItemRows BY <1>2, <1>3, ItemsOfFacts
  <2>2. \A d \in Drawn : draws[d] \in DrawRows BY LifecycleConstants DEF Init, Drawn
  <2>3. pc \in [Requests -> Labels] BY DEF Init, Labels
  <2>4. 0 \in 0 .. MaxFaults BY LifecycleConstants
  <2>5. draws \in [Draws -> DrawRows \cup {None}] BY LifecycleConstants DEF Init
  <2>6. own \in [Writers -> LoanRows \cup {None}] BY DEF Init
  <2>7. cols \in [Transactions -> SUBSET LoanColumns] BY DEF Init
  <2>8. payments \in [Payers -> PaymentRows \cup {None}] BY DEF Init
  <2>9. \A s \in Writers : own[s] = None BY DEF Init
  <2> QED BY <1>1, <1>3, <2>1, <2>2, <2>3, <2>4, <2>5, <2>6, <2>7, <2>8, <2>9
       DEF Shapes, TypeOK, Init
<1>5. Shared
  <2>1. SchedulesAreWhole
    <3>1. CASE schedule = {} BY <3>1 DEF SchedulesAreWhole
    <3>2. CASE schedule = ItemsOf(None, Loan0)
      BY <1>3, <3>2, ItemsOfFacts DEF SchedulesAreWhole
    <3> QED BY <1>2, <3>1, <3>2
  <2>2. Balance
    <3>1. AmountOf(funded) = SumFunctionOnSet([d \in Funded0 |-> Draws0[d].amount], Funded0)
      BY DEF AmountOf, Init
    <3>2. loan.outstanding <= AmountOf(funded) BY <3>1, LifecycleConstants DEF Init
    <3>3. Applied = 0 BY <1>p, SumEmpty DEF Applied
    <3>4. loan.outstanding \in Nat BY <1>3, LoanRowFacts DEF Init
    <3> QED BY <3>2, <3>3, <3>4 DEF Backed, Balance
  <2>3. \A s \in Transactions : pc[s] # "done" BY Kinds DEF Init
  <2>4. Recorded
    <3>1. IsFiniteSet(records) /\ IsFiniteSet(activated) BY FS_EmptySet DEF Init
    <3> QED BY <2>3, <3>1, Kinds DEF Recorded, Init, TermsFrom
  <2>5. OneHolder BY DEF Init, OneHolder
  <2>6. PaidItemsStay BY <1>p DEF PaidItemsStay, Cited, Received
  <2> QED BY <1>1, <2>1, <2>2, <2>4, <2>5, <2>6 DEF Shared, Init
<1>6. \A s \in Requests : pc[s] = "idle" BY DEF Init
<1>7. ASSUME NEW s \in Requests PROVE OK(s)
  <2>1. s \in Draws => DrawOK(s) BY <1>6 DEF DrawOK
  <2>2. s \in Approvals => ApprovalOK(s) BY <1>6 DEF ApprovalOK
  <2>3. s \in Writers => own[s] = None BY DEF Init
  <2>4. s \in Transactions => Kept(s)
    BY <1>6, <2>3, Kinds DEF Kept, TransactionOK, BackedOK, TermsOK, OpenOK, Running, Saved
  <2>5. s \in Payers => PayerOK(s) BY <1>6 DEF PayerOK, Init
  <2>6. s \in Reversals => ReversalOK(s) BY <1>6, <2>3, Kinds DEF ReversalOK
  <2> QED BY <2>1, <2>2, <2>4, <2>5, <2>6 DEF OK
<1> QED BY <1>4, <1>5, <1>7 DEF LifecycleInv

(* A stuttering step keeps the invariant.                                   *)
LEMMA UnchangedKeeps == LifecycleInv /\ UNCHANGED vars => LifecycleInv'
<1> SUFFICES ASSUME LifecycleInv, UNCHANGED vars PROVE LifecycleInv' OBVIOUS
<1> USE InvFacts
<1>1. /\ UNCHANGED <<loan, draws, schedule, payments, records, own, ent, change, cols>>
      /\ UNCHANGED <<pc, faults, funded, activated, flaws>>
  BY DEF vars, data, local, hist
<1>2. Shapes' BY <1>1 DEF Shapes, TypeOK, Drawn
<1>3. DrawsGrow /\ AmountOf(funded)' = AmountOf(funded) /\ Paid' \subseteq funded'
  BY <1>1, DrawsStayGrow DEF DrawsStay
<1>4. (Sound' <=> Sound) /\ Applied' = Applied /\ Received' = Received /\ Cited' = Cited
  BY <1>1 DEF Sound, PaymentsIn, Applied, Received, Cited
<1>5. TablesGrow BY <1>1, <1>4 DEF TablesGrow
<1>6. Shared'
  <2>1. Balance' BY <1>1, <1>3, <1>4 DEF Balance, Backed
  <2>2. OneHolder' BY <1>1 DEF OneHolder
  <2>3. Recorded' BY <1>1 DEF Recorded, TermsFrom
  <2>4. SchedulesAreWhole' /\ PaidItemsStay'
    BY <1>1, <1>4 DEF Shared, SchedulesAreWhole, PaidItemsStay
  <2> QED BY <1>3, <2>1, <2>2, <2>3, <2>4 DEF Shared
<1>7. ASSUME NEW s \in Requests PROVE OK(s)'
  <2>0. OK(s) /\ Bystander(s) BY <1>1 DEF LifecycleInv, Bystander
  <2>1. s \in Draws => DrawOK(s)' BY <2>0 DEF OK, DrawOK, Bystander
  <2>2. s \in Approvals => ApprovalOK(s)' BY <1>3, <2>0 DEF OK, ApprovalOK, Bystander, DrawsGrow
  <2>3. s \in Transactions => Kept(s)' BY <1>2, <1>3, <1>5, <2>0, TransactionKeeps
  <2>4. s \in Payers => PayerOK(s)' BY <1>2, <1>3, <1>5, <2>0, PayerKeeps
  <2>5. s \in Reversals => ReversalOK(s)' BY <1>5, <2>0, ReversalKeeps
  <2> QED BY <2>1, <2>2, <2>3, <2>4, <2>5 DEF OK
<1> QED BY <1>2, <1>6, <1>7 DEF LifecycleInv

(* Every step keeps the invariant.                                          *)
LEMMA NextKeeps == LifecycleInv /\ [Next]_vars => LifecycleInv'
<1> SUFFICES ASSUME LifecycleInv, Next PROVE LifecycleInv' BY UnchangedKeeps
<1>1. ASSUME NEW s \in Requests, Step(s) PROVE LifecycleInv'
  <2>1. CASE LoadForDraw(s) BY <2>1, LoadForDrawStep
  <2>2. CASE SumDraws(s) BY <2>2, SumDrawsStep
  <2>3. CASE InsertDraw(s) BY <2>3, InsertDrawStep
  <2>4. CASE LoadForApproval(s) BY <2>4, LoadForApprovalStep
  <2>5. CASE SaveApproval(s) BY <2>5, SaveApprovalStep
  <2>6. CASE s \in Transactions /\ LoadForActivation(s) BY <2>6, LoadForActivationStep
  <2>7. CASE s \in Transactions /\ LoadForModification(s) BY <2>7, LoadForModificationStep
  <2>8. CASE s \in Transactions /\ CompareLoan(s) BY <2>8, CompareLoanStep
  <2>9. CASE s \in Transactions /\ SaveLoan(s) BY <2>9, SaveLoanStep
  <2>10. CASE s \in Transactions /\ DeleteSchedule(s) BY <2>10, DeleteScheduleStep
  <2>11. CASE s \in Transactions /\ InsertSchedule(s) BY <2>11, InsertScheduleStep
  <2>12. CASE s \in Transactions /\ Commit(s) BY <2>12, CommitStep
  <2>13. CASE s \in Payers /\ LoadForPayment(s) BY <2>13, LoadForPaymentStep
  <2>14. CASE s \in Payers /\ Allocate(s) BY <2>14, AllocateStep
  <2>15. CASE s \in Payers /\ Settle(s) BY <2>15, SettleStep
  <2>16. CASE s \in Reversals /\ LoadForReversal(s) BY <2>16, LoadForReversalStep
  <2>17. CASE s \in Reversals /\ Increment(s) BY <2>17, IncrementStep
  <2>18. CASE s \in Reversals /\ CommitReversal(s) BY <2>18, CommitReversalStep
  <2> QED BY <1>1, <2>1, <2>2, <2>3, <2>4, <2>5, <2>6, <2>7, <2>8, <2>9, <2>10, <2>11, <2>12,
             <2>13, <2>14, <2>15, <2>16, <2>17, <2>18
       DEF Step
<1>2. ASSUME NEW s \in Requests, Fail(s) PROVE LifecycleInv' BY <1>2, FailStep
<1>3. ASSUME NEW d \in Draws, Fund(d) PROVE LifecycleInv' BY <1>3, FundStep
<1> QED BY <1>1, <1>2, <1>3 DEF Next

(* Whatever the requests, their order and their failures, the rows keep     *)
(* their types and everything the invariant says of loan, schedule,         *)
(* disbursements, payments and transactions under way stays true.           *)
THEOREM LifecycleInductive == Spec => []LifecycleInv
<1>1. Init => LifecycleInv BY InitInv
<1>2. LifecycleInv /\ [Next]_vars => LifecycleInv' BY NextKeeps
<1> QED BY <1>1, <1>2, PTL DEF Spec

(* Balances never go below zero, statuses and terms are those of the code,  *)
(* and no disbursement is funded that does not exist.                       *)
THEOREM LifecycleTypes == Spec => []TypeOK
<1>1. LifecycleInv => TypeOK BY DEF LifecycleInv, Shapes
<1> QED BY <1>1, LifecycleInductive, PTL

(* generateSchedule works outside its caller's transaction, and two calls   *)
(* never mix: a reader finds no schedule or that of one call.               *)
THEOREM SchedulesNeverMix == Spec => []SchedulesAreWhole
<1>1. LifecycleInv => SchedulesAreWhole BY DEF LifecycleInv, Shared
<1> QED BY <1>1, LifecycleInductive, PTL

(* The schedule item a payment was allocated to is never deleted.           *)
THEOREM PaidInstallmentsStay == Spec => []PaidItemsStay
<1>1. LifecycleInv => PaidItemsStay BY DEF LifecycleInv, Shared
<1> QED BY <1>1, LifecycleInductive, PTL

(* However activations, modifications and payments overlap, the loan never  *)
(* owes more than was disbursed.  Beside reversals it owes no more than     *)
(* that less the payments in force, unless a payment was overwritten by a   *)
(* balance read before it, was more than the balance, or was given back     *)
(* twice: no other order of the statements of any number of requests makes  *)
(* the borrower owe money that was not disbursed.                           *)
THEOREM BalancesAreFunded == Spec => []OutstandingIsFunded
<1>1. LifecycleInv => OutstandingIsFunded
  BY InvFacts DEF Balance, Backed, Sound, OutstandingIsFunded
<1> QED BY <1>1, LifecycleInductive, PTL

(* The rate and the maturity of the loan are the original ones or those of  *)
(* a modification whose record is committed, whatever failed.               *)
THEOREM TermsHaveRecords == Spec => []TermsAreRecorded
<1>1. LifecycleInv => TermsAreRecorded
  BY InvFacts DEF Recorded, TermsFrom, TermsAreRecorded
<1> QED BY <1>1, LifecycleInductive, PTL

----------------------------------------------------------------------------
(* The schedule follows the loan, while no transaction is rolled back and   *)
(* no two of a kind get past their guards                                   *)

Live(s) == pc[s] \in Running \cup {"done"}
Fortunate ==
  /\ \A s \in Transactions : pc[s] # "aborted"
  /\ \A s, t \in Activations : Live(s) /\ Live(t) => s = t
  /\ \A s, t \in Modifications : Live(s) /\ Live(t) => s = t

\* an activation finds the loan pending to its end
WaitsForLoan(s) == s \in Activations /\ pc[s] \in Running => loan.status = "PENDING"
\* what a transaction will commit is what it computed, and built the schedule from
Carries(s) ==
  /\ pc[s] = "save" => /\ "rate" \in cols[s] \/ loan.rate = ent[s].rate
                       /\ "maturity" \in cols[s] \/ loan.maturity = ent[s].maturity
  /\ pc[s] \in Saved => SameTerms(Seen(s), ent[s])
  /\ pc[s] = "commit" => schedule = ItemsOf(s, ent[s])
\* between transactions
Agrees ==
  loan.status \in Begun /\ (\A s \in Transactions : pc[s] \notin Running)
    => schedule # {} /\ \A i \in schedule : SameTerms(i, loan)

Following == Agrees /\ \A s \in Transactions : WaitsForLoan(s) /\ Carries(s)

(* Of two transactions under way one would find the loan pending and the    *)
(* other find it begun.                                                     *)
LEMMA OnlyOne ==
  ASSUME LifecycleInv, Fortunate, Following,
         NEW s \in Transactions, NEW t \in Transactions, pc[s] \in Running, pc[t] \in Running
  PROVE  s = t
<1>1. Live(s) /\ Live(t) BY DEF Live
<1>2. \A u \in {s, t} : u \in Modifications => loan.status \in Begun BY InvFacts DEF OpenOK
<1>3. \A u \in {s, t} : u \in Activations => loan.status = "PENDING"
  BY DEF Following, WaitsForLoan
<1>4. "PENDING" \notin Begun BY DEF Begun, OpenStatuses
<1>5. CASE s \in Activations /\ t \in Activations BY <1>1, <1>5 DEF Fortunate
<1>6. CASE s \in Modifications /\ t \in Modifications BY <1>1, <1>6 DEF Fortunate
<1> QED BY <1>2, <1>3, <1>4, <1>5, <1>6, Kinds

\* nothing of what Following speaks of changes, but the balance of a loan and its status,
\* which a payment changes when it has begun
Aside ==
  /\ schedule' = schedule
  /\ SameTerms(loan', loan)
  /\ loan'.status = loan.status \/ (loan.status \in Begun /\ loan'.status \in Begun)
  /\ \A s \in Transactions :
       /\ ent'[s] = ent[s] \/ (pc[s] = "idle" /\ pc'[s] = "rejected")
       /\ own'[s] = own[s] /\ cols'[s] = cols[s]
       /\ pc'[s] = pc[s] \/ (pc[s] = "idle" /\ pc'[s] = "rejected")

(* Steps aside.                                                             *)
LEMMA AsideFollows ==
  ASSUME LifecycleInv, Following, Aside
  PROVE  Following'
<1>1. ASSUME NEW s \in Transactions, pc'[s] # pc[s]
      PROVE  pc'[s] = "rejected" /\ pc[s] = "idle"
  BY <1>1 DEF Aside
<1>2. \A s \in Transactions : pc'[s] \in Running <=> pc[s] \in Running
  BY <1>1 DEF Running
<1>3. "PENDING" \notin Begun BY DEF Begun, OpenStatuses
<1>r. loan'.rate = loan.rate /\ loan'.maturity = loan.maturity BY DEF Aside, SameTerms
<1>4. Agrees'
  <2> SUFFICES ASSUME loan'.status \in Begun, \A s \in Transactions : pc[s] \notin Running
               PROVE  schedule # {} /\ \A i \in schedule : SameTerms(i, loan')
    BY <1>2 DEF Agrees, Aside, SameTerms
  <2>1. loan.status \in Begun BY DEF Aside
  <2>2. schedule # {} /\ \A i \in schedule : SameTerms(i, loan) BY <2>1 DEF Following, Agrees
  <2> QED BY <1>r, <2>2 DEF SameTerms
<1>5. ASSUME NEW s \in Transactions PROVE WaitsForLoan(s)' /\ Carries(s)'
  <2>0. WaitsForLoan(s) /\ Carries(s) BY DEF Following
  <2>1. WaitsForLoan(s)' BY <1>2, <1>3, <2>0 DEF WaitsForLoan, Aside
  <2>2. CASE pc'[s] = pc[s] /\ ent'[s] = ent[s]
    <3>2. cols'[s] = cols[s] /\ own'[s] = own[s] /\ schedule' = schedule BY DEF Aside
    <3>3. pc[s] \in Saved => Seen(s)'.rate = Seen(s).rate /\ Seen(s)'.maturity = Seen(s).maturity
      BY <1>r, <3>2 DEF Seen
    <3>4. pc[s] = "commit" => schedule' = ItemsOf(s, ent[s]) BY <2>0, <3>2 DEF Carries
    <3>5. ItemsOf(s, ent[s])' = ItemsOf(s, ent[s]) BY <2>2 DEF ItemsOf
    <3> QED BY <1>r, <2>0, <2>1, <2>2, <3>2, <3>3, <3>4, <3>5 DEF Carries, SameTerms
  <2>3. CASE pc'[s] = "rejected" BY <2>1, <2>3 DEF Carries, Saved
  <2> QED BY <2>1, <2>2, <2>3 DEF Aside
<1> QED BY <1>4, <1>5 DEF Following

\* the other transactions do not take part
Alone(s) ==
  \A t \in Transactions \ {s} :
    pc'[t] = pc[t] /\ ent'[t] = ent[t] /\ own'[t] = own[t] /\ cols'[t] = cols[t]

(* A step of a transaction that is under way after it.                      *)
LEMMA UnderWayFollows ==
  ASSUME LifecycleInv, Fortunate, Following, NEW s \in Transactions, Alone(s), loan' = loan,
         pc'[s] \in Running, s \in Activations => loan.status = "PENDING", Carries(s)',
         schedule' = schedule \/ pc[s] \in Running
  PROVE  Following'
<1>1. Agrees' BY DEF Agrees
<1>2. ASSUME NEW t \in Transactions PROVE WaitsForLoan(t)' /\ Carries(t)'
  <2>1. CASE t = s BY <2>1 DEF WaitsForLoan
  <2>2. CASE t # s
    <3>1. /\ pc'[t] = pc[t] /\ ent'[t] = ent[t] /\ own'[t] = own[t] /\ cols'[t] = cols[t]
      BY <2>2 DEF Alone
    <3>2. WaitsForLoan(t) /\ Carries(t) BY DEF Following
    <3>3. pc[t] = "commit" => schedule' = schedule BY <2>2, OnlyOne DEF Running
    <3>4. pc[t] = "commit" => schedule' = ItemsOf(t, ent[t]) BY <3>2, <3>3 DEF Carries
    <3>5. ItemsOf(t, ent[t])' = ItemsOf(t, ent[t]) BY <3>1 DEF ItemsOf
    <3>6. Seen(t)' = Seen(t) BY <3>1 DEF Seen
    <3> QED BY <3>1, <3>2, <3>4, <3>5, <3>6 DEF WaitsForLoan, Carries, SameTerms
  <2> QED BY <2>1, <2>2
<1> QED BY <1>1, <1>2 DEF Following

(* A transaction commits the loan it made the schedule for.                 *)
LEMMA CommitFollows ==
  ASSUME LifecycleInv, Fortunate, Following, NEW s \in Transactions, Commit(s)
  PROVE  Following'
<1> USE InvFacts
<1>1. pc[s] = "commit" BY DEF Commit
<1>2. /\ pc'[s] = "done" /\ \A t \in Requests \ {s} : pc'[t] = pc[t]
      /\ schedule' = schedule /\ loan' = Seen(s)
  BY DEF Commit, Goto
<1>3. \A t \in Transactions : pc'[t] \notin Running
  <2> SUFFICES ASSUME NEW t \in Transactions, pc'[t] \in Running PROVE FALSE OBVIOUS
  <2>1. t # s BY <1>2 DEF Running
  <2>2. pc[t] \in Running BY <1>2, <2>1, Kinds
  <2> QED BY <1>1, <2>1, <2>2, OnlyOne DEF Running
<1>4. SameTerms(Seen(s), ent[s]) /\ schedule = ItemsOf(s, ent[s])
  BY <1>1 DEF Following, Carries, Saved
<1>5. ent[s] \in LoanRows BY <1>1 DEF TransactionOK, Running
<1>6. schedule # {} /\ \A i \in schedule : SameTerms(i, ent[s]) BY <1>4, <1>5, ItemsOfFacts
<1>7. Agrees' BY <1>2, <1>4, <1>6 DEF Agrees, SameTerms
<1>8. ASSUME NEW t \in Transactions PROVE WaitsForLoan(t)' /\ Carries(t)'
  BY <1>3 DEF WaitsForLoan, Carries, Saved, Running
<1> QED BY <1>7, <1>8 DEF Following

(* A rollback of another request is no business of the transactions.        *)
LEMMA RollbackOfOther ==
  ASSUME LifecycleInv, NEW s \in Requests, s \notin Transactions, Rollback(s), NEW t \in Transactions
  PROVE  pc'[t] = pc[t] /\ ent'[t] = ent[t] /\ own'[t] = own[t] /\ cols'[t] = cols[t]
BY InvFacts, Kinds DEF Rollback, Goto, Forget

(* A step of a request that is no transaction.                              *)
LEMMA OtherStepAside ==
  ASSUME LifecycleInv, NEW s \in Requests, s \notin Transactions, Step(s) \/ Fail(s)
  PROVE  Aside
<1> USE InvFacts
<1>1. ASSUME UNCHANGED <<loan, schedule>>,
             \A t \in Transactions : /\ pc'[t] = pc[t] /\ ent'[t] = ent[t]
                                     /\ own'[t] = own[t] /\ cols'[t] = cols[t]
      PROVE  Aside
  BY <1>1 DEF Aside, SameTerms
<1>2. CASE LoadForDraw(s) \/ SumDraws(s) \/ InsertDraw(s) \/ LoadForApproval(s) \/ SaveApproval(s)
  <2>1. UNCHANGED <<loan, schedule, own, cols>>
    BY <1>2 DEF LoadForDraw, SumDraws, InsertDraw, LoadForApproval, SaveApproval, data, local
  <2>2. (\E l : pc' = [pc EXCEPT ![s] = l]) /\ (ent' = ent \/ \E a : ent' = [ent EXCEPT ![s] = a])
    BY <1>2 DEF LoadForDraw, SumDraws, InsertDraw, LoadForApproval, SaveApproval, Goto, local
  <2> QED BY <1>1, <2>1, <2>2
<1>3. CASE s \in Payers /\ LoadForPayment(s)
  <2>1. UNCHANGED <<loan, schedule, own, cols>> BY <1>3 DEF LoadForPayment, data
  <2>2. (\E l : pc' = [pc EXCEPT ![s] = l]) /\ (ent' = ent \/ \E a : ent' = [ent EXCEPT ![s] = a])
    BY <1>3 DEF LoadForPayment, Goto
  <2> QED BY <1>1, <2>1, <2>2
<1>4. CASE s \in Payers /\ Allocate(s)
  <2>1. UNCHANGED <<loan, schedule>> BY <1>4 DEF Allocate, data
  <2>2. CASE Rollback(s) BY <1>1, <2>1, <2>2, RollbackOfOther
  <2>3. CASE ~ Rollback(s)
    <3>1. UNCHANGED <<own, ent, cols>> /\ pc' = [pc EXCEPT ![s] = "settle"]
      BY <1>4, <2>3 DEF Allocate, Goto, local
    <3> QED BY <1>1, <2>1, <3>1
  <2> QED BY <2>2, <2>3
<1>5. CASE s \in Payers /\ Settle(s)
  <2>1. /\ loan.status \in Begun /\ loan'.status \in Begun
        /\ loan'.rate = loan.rate /\ loan'.maturity = loan.maturity
    BY <1>5, SettleStep
  <2>2. schedule' = schedule /\ own' = own /\ pc' = [pc EXCEPT ![s] = "done"] /\ Forget(s)
    BY <1>5 DEF Settle, Goto
  <2>3. \A t \in Transactions : pc'[t] = pc[t] /\ ent'[t] = ent[t] /\ cols'[t] = cols[t]
    BY <2>2 DEF Forget
  <2> QED BY <2>1, <2>2, <2>3 DEF Aside, SameTerms
<1>6. CASE s \in Reversals /\ LoadForReversal(s)
  <2>1. UNCHANGED <<loan, schedule, own, ent, cols>> BY <1>6 DEF LoadForReversal, data
  <2>2. \E l : pc' = [pc EXCEPT ![s] = l] BY <1>6 DEF LoadForReversal, Goto
  <2> QED BY <1>1, <2>1, <2>2
<1>7. CASE s \in Reversals /\ Increment(s)
  <2>1. UNCHANGED <<loan, schedule, ent, cols>> /\ pc' = [pc EXCEPT ![s] = "unpay"]
    BY <1>7 DEF Increment, Goto, data
  <2>2. \A t \in Transactions : own'[t] = own[t] BY <1>7 DEF Increment
  <2> QED BY <1>1, <2>1, <2>2
<1>8. CASE s \in Reversals /\ CommitReversal(s)
  <2>1. schedule' = schedule BY <1>8 DEF CommitReversal
  <2>2. loan'.status = loan.status /\ loan'.rate = loan.rate /\ loan'.maturity = loan.maturity
    BY <1>8, CommitReversalStep
  <2>3. ASSUME NEW t \in Transactions
        PROVE  pc'[t] = pc[t] /\ ent'[t] = ent[t] /\ own'[t] = own[t] /\ cols'[t] = cols[t]
    <3>1. \/ \E u \in Payers \cup {s} : Rollback(u)
          \/ /\ own' = [own EXCEPT ![s] = None] /\ pc' = [pc EXCEPT ![s] = "done"] /\ Forget(s)
      BY <1>8 DEF CommitReversal, Goto
    <3>2. CASE \E u \in Payers \cup {s} : Rollback(u) BY <3>2, Kinds, RollbackOfOther
    <3>3. CASE own' = [own EXCEPT ![s] = None] /\ pc' = [pc EXCEPT ![s] = "done"] /\ Forget(s)
      BY <3>3 DEF Forget
    <3> QED BY <3>1, <3>2, <3>3
  <2> QED BY <2>1, <2>2, <2>3 DEF Aside, SameTerms
<1>9. CASE Fail(s)
  <2>1. UNCHANGED <<loan, schedule>> /\ Rollback(s) BY <1>9 DEF Fail, data
  <2> QED BY <1>1, <2>1, RollbackOfOther
<1> QED BY <1>2, <1>3, <1>4, <1>5, <1>6, <1>7, <1>8, <1>9 DEF Step

(* A transaction that went past its guards goes on to its commit or is      *)
(* rolled back, and one that was rolled back stays so.                      *)
LEMMA Onward ==
  ASSUME LifecycleInv, NEW s \in Transactions, Step(s) \/ Fail(s)
  PROVE  /\ \A t \in Requests \ {s} : pc'[t] = pc[t]
         /\ pc[s] # "aborted"
         /\ Live(s) => pc'[s] \in Running \cup {"done", "aborted"}
<1>0. pc \in [Requests -> Labels] /\ s \in Requests BY InvFacts
<1>1. CASE LoadForActivation(s) \/ LoadForModification(s)
  <2>1. pc[s] = "idle" BY <1>1 DEF LoadForActivation, LoadForModification
  <2>2. \E l : pc' = [pc EXCEPT ![s] = l]
    BY <1>1 DEF LoadForActivation, LoadForModification, Goto
  <2> QED BY <1>0, <2>1, <2>2 DEF Live, Running
<1>2. CASE CompareLoan(s) \/ SaveLoan(s)
  <2>1. pc[s] \in {"compare", "save"} BY <1>2 DEF CompareLoan, SaveLoan
  <2>2. \E l \in {"save", "delete"} : pc' = [pc EXCEPT ![s] = l]
    BY <1>2 DEF CompareLoan, SaveLoan, Goto
  <2> QED BY <1>0, <2>1, <2>2 DEF Running
<1>3. CASE DeleteSchedule(s) \/ InsertSchedule(s) \/ Commit(s)
  <2>1. pc[s] \in {"delete", "items", "commit"} BY <1>3 DEF DeleteSchedule, InsertSchedule, Commit
  <2>2. \E l \in {"items", "commit", "done", "aborted"} : pc' = [pc EXCEPT ![s] = l]
    BY <1>3 DEF DeleteSchedule, InsertSchedule, Commit, Goto, Rollback
  <2> QED BY <1>0, <2>1, <2>2 DEF Running
<1>4. CASE Fail(s)
  <2>1. pc[s] # "aborted" BY <1>4 DEF Fail, Ended
  <2>2. pc' = [pc EXCEPT ![s] = "aborted"] BY <1>4 DEF Fail, Rollback, Goto
  <2> QED BY <1>0, <2>1, <2>2
<1>5. CASE LoadForDraw(s) \/ SumDraws(s) \/ InsertDraw(s) \/ LoadForApproval(s) \/ SaveApproval(s)
  <2>1. pc[s] \notin {"sum", "insert", "approve"} BY AtStatement, Kinds
  <2> QED BY <1>5, <2>1, Kinds
       DEF LoadForDraw, SumDraws, InsertDraw, LoadForApproval, SaveApproval
<1> QED BY <1>1, <1>2, <1>3, <1>4, <1>5, Kinds DEF Step

(* The past of a fortunate state is fortunate.                              *)
LEMMA FortunateBefore ==
  ASSUME LifecycleInv, [Next]_vars, Fortunate'
  PROVE  Fortunate
<1>1. \A t \in Transactions : (pc[t] = "aborted" => pc'[t] = "aborted")
                              /\ (Live(t) => Live(t)' \/ pc'[t] = "aborted")
  <2>1. CASE \E s \in Transactions : Step(s) \/ Fail(s)
    <3>1. PICK s \in Transactions : Step(s) \/ Fail(s) BY <2>1
    <3>2. /\ \A t \in Requests \ {s} : pc'[t] = pc[t]
          /\ pc[s] # "aborted"
          /\ Live(s) => pc'[s] \in Running \cup {"done", "aborted"}
      BY <3>1, Onward
    <3> QED BY <3>2, Kinds DEF Live
  <2>2. CASE \E s \in Requests \ Transactions : Step(s) \/ Fail(s)
    <3>1. Aside BY <2>2, OtherStepAside
    <3> QED BY <3>1 DEF Aside, Live, Running
  <2>3. CASE (\E d \in Draws : Fund(d)) \/ UNCHANGED vars
    <3>1. pc' = pc BY <2>3 DEF Fund, vars
    <3> QED BY <3>1 DEF Live
  <2> QED BY <2>1, <2>2, <2>3 DEF Next
<1>2. \A t \in Transactions : pc[t] # "aborted" /\ (Live(t) => Live(t)') BY <1>1 DEF Fortunate
<1> QED BY <1>2, Kinds DEF Fortunate

(* The steps of a transaction, one by one.                                  *)
LEMMA TransactionFollows ==
  ASSUME LifecycleInv, Fortunate, Following, NEW s \in Transactions, Step(s), pc'[s] # "aborted"
  PROVE  Following'
<1> USE InvFacts
<1>0. Carries(s) /\ WaitsForLoan(s) BY DEF Following
<1>a. ASSUME pc[s] \in Running PROVE s \in Activations => loan.status = "PENDING"
  BY <1>0, <1>a DEF WaitsForLoan
<1>1. CASE LoadForActivation(s) \/ LoadForModification(s)
  <2>1. UNCHANGED <<loan, schedule, own, cols>> /\ pc[s] = "idle"
    BY <1>1 DEF LoadForActivation, LoadForModification, data
  <2>2. \A t \in Requests \ {s} : pc'[t] = pc[t] /\ ent'[t] = ent[t]
    BY <1>1 DEF LoadForActivation, LoadForModification, Goto
  <2>3. pc'[s] = "compare" \/ pc'[s] = "rejected"
    BY <1>1 DEF LoadForActivation, LoadForModification, Goto
  <2>4. CASE pc'[s] = "compare"
    <3>1. Alone(s) BY <2>1, <2>2, Kinds DEF Alone
    <3>2. s \in Activations => loan.status = "PENDING"
      <4> SUFFICES ASSUME s \in Activations PROVE loan.status = "PENDING" OBVIOUS
      <4>1. LoadForActivation(s) BY <1>1, Kinds DEF LoadForModification
      <4> QED BY <2>4, <4>1 DEF LoadForActivation, Goto
    <3>3. Carries(s)' BY <2>4 DEF Carries, Saved
    <3> QED BY <2>1, <2>4, <3>1, <3>2, <3>3, UnderWayFollows DEF Running
  <2>5. CASE pc'[s] = "rejected"
    <3>1. Aside BY <2>1, <2>2, <2>5, Kinds DEF Aside, SameTerms
    <3> QED BY <3>1, AsideFollows
  <2> QED BY <2>3, <2>4, <2>5
<1>2. CASE CompareLoan(s)
  <2>1. pc[s] = "compare" /\ pc'[s] = "save" BY <1>2 DEF CompareLoan, Goto
  <2>2. Alone(s) /\ loan' = loan /\ schedule' = schedule /\ ent' = ent
    BY <1>2, Kinds DEF CompareLoan, Goto, Alone, data
  <2>3. Seen(s) = loan BY <2>1, SeenTyped DEF TransactionOK, Saved
  <2>4. cols'[s] = Assigned(s) \cup {c \in LoanColumns : Seen(s)[c] # ent[s][c]}
    BY <1>2 DEF CompareLoan
  <2>5. /\ "rate" \in cols'[s] \/ loan.rate = ent[s].rate
        /\ "maturity" \in cols'[s] \/ loan.maturity = ent[s].maturity
    BY <2>3, <2>4 DEF LoanColumns
  <2>6. Carries(s)' BY <2>1, <2>2, <2>5 DEF Carries, Saved
  <2> QED BY <1>a, <2>1, <2>2, <2>6, UnderWayFollows DEF Running
<1>3. CASE SaveLoan(s)
  <2>1. pc[s] = "save" /\ pc'[s] = "delete" BY <1>3 DEF SaveLoan, Goto
  <2>2. loan' = loan /\ schedule' = schedule /\ ent' = ent /\ cols' = cols
    BY <1>3 DEF SaveLoan, data
  <2>a. Alone(s) BY <1>3, <2>2, Kinds DEF SaveLoan, Goto, Alone
  <2>3. own[s] = None /\ ent[s] \in LoanRows BY <2>1 DEF TransactionOK, Saved, Running
  <2> DEFINE row == [c \in LoanColumns |-> IF c \in cols[s] THEN ent[s][c] ELSE loan[c]]
  <2>4. /\ row # None
        /\ row.rate = IF "rate" \in cols[s] THEN ent[s].rate ELSE loan.rate
        /\ row.maturity = IF "maturity" \in cols[s] THEN ent[s].maturity ELSE loan.maturity
    BY <2>3, MixedLoan, LoanRowFacts
  <2>5. (own'[s] = None /\ cols[s] = {}) \/ own'[s] = row BY <1>3, <2>3 DEF SaveLoan
  <2> HIDE DEF row
  <2>6. Seen(s)' = IF own'[s] # None THEN own'[s] ELSE loan BY <2>2 DEF Seen
  <2>7. Seen(s)'.rate = ent[s].rate /\ Seen(s)'.maturity = ent[s].maturity
    BY <1>0, <2>1, <2>4, <2>5, <2>6 DEF Carries
  <2>8. Carries(s)' BY <2>1, <2>2, <2>7 DEF Carries, SameTerms
  <2> QED BY <1>a, <2>1, <2>2, <2>8, <2>a, UnderWayFollows DEF Running
<1>4. CASE DeleteSchedule(s)
  <2>1. pc[s] = "delete" BY <1>4 DEF DeleteSchedule
  <2>2. pc'[s] = "items" /\ UNCHANGED local
    BY <1>4, <2>1 DEF DeleteSchedule, Rollback, Goto
  <2>3. Alone(s) /\ loan' = loan /\ ent' = ent /\ own' = own
    BY <1>4, <2>2, Kinds DEF DeleteSchedule, Goto, Rollback, Alone, local
  <2>4. Carries(s)' BY <1>0, <2>1, <2>2, <2>3 DEF Carries, Saved, Seen, SameTerms
  <2> QED BY <1>a, <2>1, <2>2, <2>3, <2>4, UnderWayFollows DEF Running
<1>5. CASE InsertSchedule(s)
  <2>1. pc[s] = "items" BY <1>5 DEF InsertSchedule
  <2>2. pc'[s] = "commit" /\ UNCHANGED local
    BY <1>5, <2>1 DEF InsertSchedule, Rollback, Goto
  <2>3. Alone(s) /\ loan' = loan /\ ent' = ent /\ own' = own
    BY <1>5, <2>2, Kinds DEF InsertSchedule, Goto, Rollback, Alone, local
  <2>4. schedule' = ItemsOf(s, ent[s]) BY <1>5, <2>2, InsertScheduleStep
  <2>5. ItemsOf(s, ent[s])' = ItemsOf(s, ent[s]) BY <2>3 DEF ItemsOf
  <2>6. Carries(s)' BY <1>0, <2>1, <2>2, <2>3, <2>4, <2>5 DEF Carries, Saved, Seen, SameTerms
  <2> QED BY <1>a, <2>1, <2>2, <2>3, <2>6, UnderWayFollows DEF Running
<1>6. CASE Commit(s) BY <1>6, CommitFollows
<1>7. CASE LoadForDraw(s) \/ SumDraws(s) \/ InsertDraw(s) \/ LoadForApproval(s) \/ SaveApproval(s)
  <2>1. pc[s] \notin {"sum", "insert", "approve"} BY AtStatement, Kinds
  <2> QED BY <1>7, <2>1, Kinds
       DEF LoadForDraw, SumDraws, InsertDraw, LoadForApproval, SaveApproval
<1> QED BY <1>1, <1>2, <1>3, <1>4, <1>5, <1>6, <1>7, Kinds DEF Step

(* Every step of a fortunate history.                                       *)
LEMMA NextFollows ==
  LifecycleInv /\ (Fortunate => Following) /\ [Next]_vars => (Fortunate => Following)'
<1> SUFFICES ASSUME LifecycleInv, Fortunate => Following, [Next]_vars, Fortunate'
             PROVE  Following'
  OBVIOUS
<1>0. Fortunate /\ Following BY FortunateBefore
<1>1. ASSUME NEW s \in Transactions, Step(s) PROVE Following'
  <2>1. pc'[s] # "aborted" BY DEF Fortunate
  <2> QED BY <1>0, <1>1, <2>1, TransactionFollows
<1>2. ASSUME NEW s \in Transactions, Fail(s) PROVE FALSE
  <2>1. pc' = [pc EXCEPT ![s] = "aborted"] /\ pc \in [Requests -> Labels] /\ s \in Requests
    BY <1>2, InvFacts DEF Fail, Rollback, Goto
  <2> QED BY <2>1 DEF Fortunate
<1>3. ASSUME NEW s \in Requests, s \notin Transactions, Step(s) \/ Fail(s) PROVE Following'
  BY <1>0, <1>3, OtherStepAside, AsideFollows
<1>4. CASE (\E d \in Draws : Fund(d)) \/ UNCHANGED vars
  <2>1. UNCHANGED <<loan, schedule, own, cols, pc, ent>>
    BY <1>4 DEF Fund, vars, data, local
  <2>2. Aside BY <2>1 DEF Aside, SameTerms
  <2> QED BY <1>0, <2>2, AsideFollows
<1> QED BY <1>1, <1>2, <1>3, <1>4 DEF Next

(* A loan as createLoan leaves it, or an active one with its schedule.      *)
LEMMA InitFollowing == Init => Following
<1> SUFFICES ASSUME Init PROVE Following OBVIOUS
<1>1. \A s \in Transactions : pc[s] = "idle" BY Kinds DEF Init
<1>2. \A s \in Transactions : WaitsForLoan(s) /\ Carries(s)
  BY <1>1 DEF WaitsForLoan, Carries, Running, Saved
<1>3. Agrees
  <2> SUFFICES ASSUME loan.status \in Begun
               PROVE  schedule # {} /\ \A i \in schedule : SameTerms(i, loan)
    BY DEF Agrees
  <2>1. schedule = ItemsOf(None, Loan0) /\ loan = Loan0 BY DEF Init, Begun, OpenStatuses
  <2>2. Loan0 \in LoanRows BY LifecycleConstants
  <2> QED BY <2>1, <2>2, ItemsOfFacts
<1> QED BY <1>2, <1>3 DEF Following

(* Two different elements make a set of two.                                *)
LEMMA AtMostOne ==
  ASSUME NEW S, IsFiniteSet(S), Cardinality(S) <= 1, NEW x \in S, NEW y \in S
  PROVE  x = y
<1> SUFFICES ASSUME x # y PROVE FALSE OBVIOUS
<1> DEFINE T == S \ {x}
<1>1. IsFiniteSet(T) /\ Cardinality(T) = Cardinality(S) - 1 BY FS_RemoveElement
<1>2. y \in T OBVIOUS
<1>3. Cardinality(T) \in Nat /\ Cardinality(S) \in Nat BY <1>1, FS_CardinalityType
<1> HIDE DEF T
<1>4. Cardinality(T) = 0 BY <1>1, <1>3
<1>5. T = {} BY <1>1, <1>4, FS_EmptySet
<1> QED BY <1>2, <1>5

(* Though generateSchedule works outside the transaction that changes the   *)
(* loan, a history without a rollback in which at most one activation and   *)
(* one modification pass their guards keeps them together: what a           *)
(* transaction will commit is what it built the schedule from, and between  *)
(* transactions an open loan has a schedule with its terms.                 *)
THEOREM ScheduleFollows == Spec => [](Fortunate => Following)
<1>1. Init => (Fortunate => Following) BY InitFollowing
<1>2. LifecycleInv /\ (Fortunate => Following) /\ [Next]_vars => (Fortunate => Following)'
  BY NextFollows
<1> QED BY <1>1, <1>2, LifecycleInductive, PTL DEF Spec

(* At rest, with one activation and one modification committed at most and  *)
(* nothing rolled back, the schedule has the terms of the loan.             *)
THEOREM ScheduleAgrees == Spec => []ScheduleFollowsTheLoan
<1>1. LifecycleInv /\ (Fortunate => Following) => ScheduleFollowsTheLoan
  <2> SUFFICES ASSUME LifecycleInv, Fortunate => Following, AtRest, loan.status \in OpenStatuses,
                      Cardinality(activated) <= 1, Cardinality(records) <= 1,
                      \A s \in Transactions : pc[s] # "aborted"
               PROVE  /\ schedule # {}
                      /\ \A i \in schedule : i.rate = loan.rate /\ i.maturity = loan.maturity
    BY DEF ScheduleFollowsTheLoan
  <2>1. \A s \in Transactions : pc[s] \in Ended \cup {"idle"} /\ pc[s] # "aborted"
    BY DEF AtRest
  <2>2. \A s \in Transactions : pc[s] \notin Running BY <2>1 DEF Running, Ended
  <2>3. \A s \in Transactions : Live(s) => pc[s] = "done" BY <2>2 DEF Live
  <2>4. Recorded BY InvFacts
  <2>5. \A s, t \in Activations : Live(s) /\ Live(t) => s = t
    BY <2>3, <2>4, Kinds, AtMostOne DEF Recorded
  <2>6. \A s, t \in Modifications : Live(s) /\ Live(t) => s = t
    BY <2>3, <2>4, Kinds, AtMostOne DEF Recorded
  <2>7. Fortunate BY <2>1, <2>5, <2>6 DEF Fortunate
  <2> QED BY <2>2, <2>7 DEF Following, Agrees, SameTerms, Begun
<1> QED BY <1>1, LifecycleInductive, ScheduleFollows, PTL
=============================================================================
