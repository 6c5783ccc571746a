------------------------------ MODULE LoanForm ------------------------------
(***************************************************************************)
(* The page that creates a loan (frontend/src/app/loans/new/page.tsx) in   *)
(* front of the requests of Requests.  What is typed in is reduced to what *)
(* decides the outcome: whether validate() finds every required field, and *)
(* whether the optional maturity date is filled in.  The messages a failed *)
(* submission leaves on the page are left out.                             *)
(***************************************************************************)
EXTENDS Requests

CONSTANTS
  FormRequests,  \* the submissions of the page
  FormTenant,    \* the tenant and the role of the user's token
  FormRole,
  MaxLost        \* bound: answers lost on their way to the browser

ASSUME FormConstants ==
  /\ FormRequests \subseteq Requests /\ "createLoan" \in Ops
  /\ FormTenant \in Tenants /\ FormRole \in Roles
  /\ MaxLost \in Nat

VARIABLES
  page,       \* editing, submitting, success (about to redirect), left
  pending,    \* the submission whose answer is awaited
  lostAnswers

formVars  == <<page, pending, lostAnswers>>
fvars     == <<vars, formVars>>

FormInit == Init /\ page = "editing" /\ pending = Nobody /\ lostAnswers = 0

----------------------------------------------------------------------------
\* slip: the button is disabled only while submitting
CanSubmitAgain == page \in {"editing", "success"}

(* The button is disabled while submitting and after success. *)
CanSubmit == page = "editing"

(* handleSubmit with every required field filled in; without, it returns.   *)
(* A blank maturity date is sent as an empty string, which the DTO refuses: *)
(* the answer is 400.                                                       *)
Submit(q) ==
  /\ CanSubmit
  /\ \E maturity \in BOOLEAN :
       Arrive(q, "createLoan", FormRole, "access", FormTenant, maturity)
  /\ page' = "submitting" /\ pending' = q
  /\ UNCHANGED lostAnswers

AnswerOk ==
  /\ page = "submitting" /\ req[pending].at = "200"
  /\ page' = "success" /\ pending' = Nobody
  /\ UNCHANGED <<vars, lostAnswers>>

(* The message is put under loanName, whose Field is given no error to show *)
(* it: the user sees the button come back.                                  *)
AnswerError ==
  /\ page = "submitting" /\ req[pending].at \in Codes \ {"200"}
  /\ page' = "editing" /\ pending' = Nobody
  /\ UNCHANGED <<vars, lostAnswers>>

(* fetch rejects because the connection broke; the request may go on.       *)
AnswerLost ==
  /\ page = "submitting" /\ lostAnswers < MaxLost
  /\ lostAnswers' = lostAnswers + 1
  /\ page' = "editing" /\ pending' = Nobody
  /\ UNCHANGED vars

(* Cancel and the arrow at any time, the timer after success.               *)
Leave ==
  /\ page # "left"
  /\ page' = "left" /\ pending' = Nobody
  /\ UNCHANGED <<vars, lostAnswers>>

Browser ==
  (\E q \in FormRequests : Submit(q)) \/ AnswerOk \/ AnswerError \/ AnswerLost \/ Leave

Server ==
  /\ NewYear \/ \E q \in Requests : (q \notin FormRequests /\ Call(q)) \/ Handle(q)
  /\ UNCHANGED formVars

FormSpec ==
  /\ FormInit /\ [][Browser \/ Server]_fvars
  /\ \A q \in Requests : WF_fvars(Handle(q) /\ UNCHANGED formVars)

----------------------------------------------------------------------------
(* A click creates at most one loan: the page can create a second one only  *)
(* if the answer to an earlier submission was lost.                         *)
SecondLoanNeedsALostAnswer ==
  Cardinality({x \in loans : x.by \in FormRequests}) <= 1 + lostAnswers
=============================================================================
