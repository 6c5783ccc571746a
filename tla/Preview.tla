------------------------------ MODULE Preview ------------------------------
(***************************************************************************)
(* A client that asks previewAllocation for suggestions and posts them as  *)
(* the allocations of a payment, beside the other sessions of Payments.    *)
(* The preview is two statements outside any transaction, and time passes  *)
(* before the post: every number in it may be out of date when it is used. *)
(***************************************************************************)
EXTENDS Payments

CONSTANTS
  Previewers,  \* sessions of Applies that preview first
  Amounts,     \* payment amounts they ask about
  FeesByDue    \* Loans -> the fees of the loan, by due date

ASSUME PreviewConstants ==
  /\ Previewers \subseteq Applies
  /\ Amounts \subseteq Nat \ {0}
  /\ FeesByDue \in [Loans -> Seq(Fees)] /\ \A l \in Loans : IsInjective(FeesByDue[l])

VARIABLE preview   \* session -> what its preview has read and answered

previewVars == <<vars, preview>>

NoPreview == [at |-> "none", of |-> None, amount |-> 0, loan |-> None, suggestions |-> << >>]

PreviewInit == Init /\ preview = [s \in Previewers |-> NoPreview]

----------------------------------------------------------------------------
Line(bucket, x) == [bucket |-> bucket, amount |-> x, item |-> None, fee |-> None]

\* takes what is owed off what is left of the payment, if there is anything to take
Suggest(given, bucket, owed) ==
  LET part == Min({given.left, owed}) IN
  IF part > 0 THEN [left |-> given.left - part, lines |-> Append(given.lines, Line(bucket, part))]
              ELSE given

\* the principal is suggested even when the balance is zero
SuggestPrincipal(given, outstanding) ==
  LET part == Min({given.left, outstanding}) IN
  IF given.left > 0
    THEN [left |-> given.left - part, lines |-> Append(given.lines, Line("PRINCIPAL", part))]
    ELSE given

\* what is left to pay of a fee the query finds, nothing of another one
Owing(f) == IF db[f] # None /\ db[f].status \in {"OUTSTANDING", "PARTIAL"}
              THEN FeeAmount[f] - db[f].paid ELSE 0

\* the interest, then the fees in order
InterestAndFees(x, loan, fees) ==
  LET given[n \in 0 .. Len(fees)] ==
        IF n = 0 THEN Suggest([left |-> x, lines |-> << >>], "INTEREST", loan.accrued)
                 ELSE Suggest(given[n - 1], "FEE", Owing(fees[n]))
  IN given[Len(fees)]

\* slip: what is left after interest and fees is all suggested as principal
SuggestionsAllPrincipal(x, loan, fees) ==
  LET given == InterestAndFees(x, loan, fees)
  IN Append(given.lines, Line("PRINCIPAL", given.left))

(* buildAllocationSuggestions: interest, the fees in order, principal, and  *)
(* the rest as a prepayment.  The overdue items the preview also reads do   *)
(* not enter, and a suggested fee does not say which fee it is for.         *)
Suggestions(x, loan, fees) ==
  LET all == SuggestPrincipal(InterestAndFees(x, loan, fees), loan.outstanding)
  IN IF all.left > Tolerance THEN Append(all.lines, Line("PREPAYMENT", all.left)) ELSE all.lines

(* previewAllocation, the first statement: the loan, in whatever status.    *)
PreviewLoan(s) ==
  /\ preview[s].at = "none" /\ pc[s] = "idle"
  /\ \E l \in Loans, x \in Amounts :
       preview' = [preview EXCEPT ![s] = [NoPreview EXCEPT !.at = "fees", !.of = l,
                                                           !.amount = x, !.loan = db[l]]]
  /\ UNCHANGED vars

(* The last statement: the fees, as they are by then.                       *)
PreviewFees(s) ==
  LET p == preview[s] IN
  /\ p.at = "fees"
  /\ preview' = [preview EXCEPT ![s].at = "shown",
                                ![s].suggestions = Suggestions(p.amount, p.loan, FeesByDue[p.of])]
  /\ UNCHANGED vars

\* the lines of a positive amount, in order
Payable(lines) ==
  LET kept[n \in 0 .. Len(lines)] ==
        IF n = 0 THEN << >>
        ELSE IF lines[n].amount > 0 THEN Append(kept[n - 1], lines[n]) ELSE kept[n - 1]
  IN kept[Len(lines)]

(* The client posts the suggestions; lines of zero would be refused by the  *)
(* DTO and are left out.                                                    *)
PostSuggestions(s) ==
  /\ preview[s].at = "shown"
  /\ Load(s, [loan |-> preview[s].of, amount |-> preview[s].amount,
              allocations |-> Payable(preview[s].suggestions)])
  /\ preview' = [preview EXCEPT ![s].at = "posted"]

Posted(s) == s \in Previewers => preview[s].at = "posted"

PreviewNext ==
  \/ \E s \in Previewers : PreviewLoan(s) \/ PreviewFees(s) \/ PostSuggestions(s)
  \/ \E s \in Sessions : Posted(s) /\ (Step(s) \/ Fail(s)) /\ UNCHANGED preview
  \/ \E f \in Fees : CreateFee(f) /\ UNCHANGED preview

PreviewSpec == PreviewInit /\ [][PreviewNext]_previewVars

----------------------------------------------------------------------------
(* A payment posted as it was suggested is refused only because another     *)
(* session changed the loan in between, or because there was nothing to     *)
(* allocate the amount to: the preview never promises what validation       *)
(* would not take.                                                          *)
SuggestionsAreAccepted ==
  \A s \in Previewers : pc[s] = "rejected" =>
    \/ snap[s].outstanding < preview[s].loan.outstanding
    \/ snap[s].status \notin OpenStatuses
    \/ req[s].allocations = << >>
=============================================================================
