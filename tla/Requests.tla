------------------------------ MODULE Requests ------------------------------
(***************************************************************************)
(* Requests of several tenants on one API process: the guards every route  *)
(* goes through, the pool of database connections they share, the session  *)
(* setting app.current_tenant_id that stays behind on a connection, and    *)
(* createLoan with its number (loan.service.ts, loan.controller.ts).       *)
(*                                                                         *)
(* A service statement outside a transaction takes any free connection and *)
(* returns it; a transaction keeps one, and the schedule and audit calls   *)
(* inside it are not given that one and need a second.  What routes do to  *)
(* rows other than new loans is the subject of other modules: here such a  *)
(* statement is one that needs a connection.                               *)
(***************************************************************************)
EXTENDS Integers, Sequences, FiniteSets

CONSTANTS
  Requests,     \* requests of the behaviour
  Ops,          \* the routes they call, a subset of Routes
  Connections,  \* the pool (20 in app.module.ts)
  Tenants,
  NoTenant,     \* a token without custom:tenant_id; an empty session setting
  Nobody,
  Years         \* bound: the calendar goes from year 1 to this one

Roles == {"ADMIN", "OPERATOR", "VIEWER"}

(* The routes of loan.controller.ts by the roles of their decorator.        *)
AdminRoutes  == {"approveDisbursement", "reversePayment", "waiveFee"}
StaffRoutes  == {"createLoan", "activateLoan", "modifyLoan", "createDisbursement",
                 "applyPayment", "previewPayment", "addFee"}
ReaderRoutes == {"listLoans", "getLoan", "getDisbursements", "getPayments",
                 "getSchedule", "getFees"}
LoanRoutes   == AdminRoutes \cup StaffRoutes \cup ReaderRoutes
\* borrowers.controller.ts has no decorator at all
OpenRoutes   == {"createBorrower", "listBorrowers", "updateBorrower"}
Routes       == LoanRoutes \cup OpenRoutes

RouteRoles(op) ==
  CASE op \in AdminRoutes  -> {"ADMIN"}
    [] op \in StaffRoutes  -> {"ADMIN", "OPERATOR"}
    [] op \in ReaderRoutes -> Roles
    [] op \in OpenRoutes   -> {}

(* What the service behind a route does, statement by statement.            *)
Program ==
 [op \in Routes |->
  CASE op = "createLoan" -> <<"context", "begin", "number", "year", "insert", "second", "commit">>
    [] op \in {"activateLoan", "applyPayment", "reversePayment"}
         -> <<"context", "begin", "second", "commit">>
    [] op = "modifyLoan" -> <<"context", "begin", "second", "second", "commit">>
    [] op \in {"listLoans", "getLoan", "getPayments", "previewPayment"} -> <<"context", "read">>
    [] op \in {"getDisbursements", "getSchedule", "getFees", "listBorrowers"} -> <<"read">>
    [] op = "createBorrower" -> <<"encrypt", "save">>
    [] op \in {"createDisbursement", "approveDisbursement", "addFee", "waiveFee",
               "updateBorrower"} -> <<"read", "write">>]

NeedsConnection == {"context", "begin", "second", "read", "save", "write"}

Codes  == {"200", "400", "401", "403", "500"}

ASSUME RequestConstants ==
  /\ Ops \subseteq Routes
  /\ NoTenant \notin Tenants
  /\ Nobody \notin Requests
  /\ IsFiniteSet(Connections) /\ Connections # {}
  /\ Years \in Nat \ {0}

VARIABLES
  rls,        \* the session's role is subject to the policies of the migration
  ctx,        \* app.current_tenant_id of each connection
  owner,      \* the request a connection is checked out by
  loans,      \* committed loans: tenant, year and sequence of LN-year-seq, request
  req,        \* the requests
  year        \* the server's calendar

vars == <<rls, ctx, owner, loans, req, year>>

Idle == [at |-> "idle", op |-> "listLoans", tenant |-> NoTenant, step |-> 0, seq |-> 0,
         year |-> 0]

Init ==
  /\ rls \in BOOLEAN
  /\ ctx = [c \in Connections |-> NoTenant]
  /\ owner = [c \in Connections |-> Nobody]
  /\ loans = {}
  /\ req = [q \in Requests |-> Idle]
  /\ year = 1

----------------------------------------------------------------------------
(* The guards, in the order of auth.module.ts *)

(* validate refuses tokens that are not access tokens.                      *)
Authenticated(token) == token = "access"

(* TenantMiddleware runs before the guards, when there is no req.user yet,  *)
(* and takes the tenant of a header; TenantGuard insists on the one of the  *)
(* token and puts it in its place.                                          *)
HasTenant(tenant) == tenant # NoTenant

RoleAllowed(op, role) == RouteRoles(op) = {} \/ role = "ADMIN" \/ role \in RouteRoles(op)

(* The first guard that throws decides the status of the answer; then the   *)
(* ValidationPipe looks at the body.                                        *)
Verdict(op, role, token, tenant, valid) ==
  CASE ~Authenticated(token)  -> "401"
    [] ~HasTenant(tenant)     -> "400"
    [] ~RoleAllowed(op, role) -> "403"
    [] ~valid                 -> "400"
    [] OTHER                  -> "running"

Arrive(q, op, role, token, tenant, valid) ==
  LET verdict == Verdict(op, role, token, tenant, valid) IN
  /\ req[q].at = "idle"
  /\ req' = [req EXCEPT ![q] =
       IF verdict = "running"
         THEN [Idle EXCEPT !.at = "running", !.op = op, !.tenant = tenant, !.step = 1]
         ELSE [Idle EXCEPT !.at = verdict]]
  /\ UNCHANGED <<rls, ctx, owner, loans, year>>

(* Anybody may call any route, with whatever token and body.                *)
Call(q) ==
  \E op \in Ops, role \in Roles, token \in {"access", "id"}, tenant \in Tenants \cup {NoTenant},
     valid \in BOOLEAN :
    Arrive(q, op, role, token, tenant, valid)

----------------------------------------------------------------------------
(* Statements *)

Free == {c \in Connections : owner[c] = Nobody}
At(q, s) == req[q].at = "running" /\ Program[req[q].op][req[q].step] = s

Advanced(q) ==
  IF req[q].step = Len(Program[req[q].op])
    THEN [Idle EXCEPT !.at = "200"] ELSE [req[q] EXCEPT !.step = @ + 1]

(* A step of the handler; after the last one the answer is sent.  On POST   *)
(* and PUT routes of the loan controller AuditInterceptor then inserts a    *)
(* record into columns audit_logs does not have: the insert is refused, its *)
(* catch block is empty, and nobody waits for it.                           *)
Handled(q) == req' = [req EXCEPT ![q] = Advanced(q)]

\* slip: the connection is released only after a commit
ThrowsHolding(q, code) ==
  /\ req' = [req EXCEPT ![q] = [Idle EXCEPT !.at = code]]
  /\ UNCHANGED <<rls, ctx, owner, loans, year>>

(* A handler throws: its transaction rolls back and HttpExceptionFilter     *)
(* answers with the status of the exception, 500 if it is not a HTTP one.   *)
Throws(q, code) ==
  /\ req' = [req EXCEPT ![q] = [Idle EXCEPT !.at = code]]
  /\ owner' = [c \in Connections |-> IF owner[c] = q THEN Nobody ELSE owner[c]]
  /\ UNCHANGED <<rls, ctx, loans, year>>

SetContext(q) ==
  /\ At(q, "context")
  /\ \E c \in Free : ctx' = [ctx EXCEPT ![c] = req[q].tenant]
  /\ Handled(q)
  /\ UNCHANGED <<rls, owner, loans, year>>

(* tenant_isolation: a row is visible, and may be written, under the        *)
(* setting of the connection; the owner of the tables is not bound by it.   *)
Admits(c, tenant) == rls => ctx[c] = tenant

(* listLoans, getLoan, findAll and the others: a statement that names the   *)
(* tenant itself.                                                           *)
Read(q) ==
  /\ At(q, "read") /\ Free # {}
  /\ Handled(q)
  /\ UNCHANGED <<rls, ctx, owner, loans, year>>

Write(q) ==
  /\ At(q, "write") /\ Free # {}
  /\ Handled(q)
  /\ UNCHANGED <<rls, ctx, owner, loans, year>>

Begin(q) ==
  /\ At(q, "begin")
  /\ \E c \in Free : owner' = [owner EXCEPT ![c] = q]
  /\ Handled(q)
  /\ UNCHANGED <<rls, ctx, loans, year>>

Held(q) == CHOOSE c \in Connections : owner[c] = q

(* createLoan: validateInterestConfig may throw; then COUNT + 1 of what     *)
(* this transaction sees.                                                   *)
Number(q) ==
  /\ At(q, "number")
  /\ LET seen == {x \in loans : x.tenant = req[q].tenant /\ Admits(Held(q), x.tenant)} IN
     req' = [req EXCEPT ![q] = [Advanced(q) EXCEPT !.seq = Cardinality(seen) + 1]]
  /\ UNCHANGED <<rls, ctx, owner, loans, year>>

TermsRefused(q) == At(q, "number") /\ Throws(q, "400")

(* The year is the clock's after the answer to the COUNT came back.         *)
ReadYear(q) ==
  /\ At(q, "year")
  /\ req' = [req EXCEPT ![q] = [Advanced(q) EXCEPT !.year = year]]
  /\ UNCHANGED <<rls, ctx, owner, loans, year>>

SameNumber(q, x) ==
  x.tenant = req[q].tenant /\ x.year = req[q].year /\ x.number = req[q].seq

\* transactions that inserted the same number and have not ended
Rivals(q) ==
  {p \in Requests \ {q} : /\ req[p].at = "running" /\ req[p].op = "createLoan"
                          /\ req[p].step > 5
                          /\ req[p].tenant = req[q].tenant
                          /\ req[p].year = req[q].year /\ req[p].seq = req[q].seq}

\* slip: the number has no unique key
InsertLoanNoKey(q) ==
  /\ At(q, "insert") /\ Admits(Held(q), req[q].tenant)
  /\ Handled(q)
  /\ UNCHANGED <<rls, ctx, owner, loans, year>>

(* uq_loan_number makes an insert wait for an open transaction with the     *)
(* same number, and refuses it when that one has committed.                 *)
InsertLoan(q) ==
  /\ At(q, "insert") /\ Admits(Held(q), req[q].tenant)
  /\ Rivals(q) = {} /\ ~\E x \in loans : SameNumber(q, x)
  /\ Handled(q)
  /\ UNCHANGED <<rls, ctx, owner, loans, year>>

InsertRefused(q) ==
  /\ At(q, "insert")
  /\ \/ ~Admits(Held(q), req[q].tenant)
     \/ \E x \in loans : SameNumber(q, x)
  /\ Throws(q, "500")

(* generateSchedule and auditService.log inside a transaction use another   *)
(* connection; they may fail.                                               *)
Second(q) ==
  /\ At(q, "second") /\ Free # {}
  /\ Handled(q)
  /\ UNCHANGED <<rls, ctx, owner, loans, year>>

SecondFails(q) ==
  /\ At(q, "second") /\ Free # {}
  /\ Throws(q, "500")

Commit(q) ==
  /\ At(q, "commit")
  /\ loans' = IF req[q].op = "createLoan"
                THEN loans \cup {[tenant |-> req[q].tenant, year |-> req[q].year,
                                  number |-> req[q].seq, by |-> q]}
                ELSE loans
  /\ owner' = [owner EXCEPT ![Held(q)] = Nobody]
  /\ Handled(q)
  /\ UNCHANGED <<rls, ctx, year>>

(* create of a borrower: the key service first, then the row.  Nobody set   *)
(* the tenant of the connection the row is sent on.                         *)
Encrypt(q) ==
  /\ At(q, "encrypt")
  /\ \/ Handled(q) /\ UNCHANGED <<rls, ctx, owner, loans, year>>
     \/ Throws(q, "500")

SaveBorrower(q) ==
  /\ At(q, "save")
  /\ \E c \in Free :
       IF Admits(c, req[q].tenant)
         THEN Handled(q) /\ UNCHANGED <<rls, ctx, owner, loans, year>>
         ELSE Throws(q, "500")

\* slip: a request that holds a connection waits for the second without limit
GiveUpOutside(q) ==
  /\ Free = {}
  /\ \E s \in NeedsConnection \ {"second"} : At(q, s)
  /\ Throws(q, "500")

(* connectionTimeoutMillis: no connection came free.                        *)
GiveUp(q) ==
  /\ Free = {}
  /\ \E s \in NeedsConnection : At(q, s)
  /\ Throws(q, "500")

Handle(q) ==
  \/ SetContext(q) \/ Read(q) \/ Write(q) \/ Begin(q) \/ Number(q) \/ TermsRefused(q)
  \/ ReadYear(q) \/ InsertLoan(q) \/ InsertRefused(q) \/ Second(q) \/ SecondFails(q) \/ Commit(q)
  \/ Encrypt(q) \/ SaveBorrower(q) \/ GiveUp(q)

NewYear ==
  /\ year < Years
  /\ year' = year + 1
  /\ UNCHANGED <<rls, ctx, owner, loans, req>>

Next == NewYear \/ \E q \in Requests : Call(q) \/ Handle(q)

Spec == Init /\ [][Next]_vars

(* The event loop runs every handler that can go on, the pool's timers fire *)
FairSpec == Spec /\ \A q \in Requests : WF_vars(Handle(q))

----------------------------------------------------------------------------
(* Properties *)

(* The numbers of a tenant's loans: no two agree in year and sequence, and  *)
(* a sequence is never further than one past the loans with smaller ones,   *)
(* although it is a COUNT + 1 that concurrent creations share, over all     *)
(* years, under whatever tenant an earlier request left on the connection.  *)
(* They are 1, 2, 3, ... through all years, but that two creations around   *)
(* New Year may take the same one, and then the next is skipped.            *)
NumbersFollowTheCount ==
  \A t \in Tenants :
    LET mine == {x \in loans : x.tenant = t} IN
    \A x \in mine :
      /\ x.number \in 1 .. Cardinality({y \in mine : y.number < x.number}) + 1
      /\ \A y \in mine : x.year = y.year /\ x.number = y.number => x = y

(* A checked-out connection belongs to an open transaction: none is leaked  *)
(* by a failure, a refusal or a timeout.                                    *)
NoConnectionLeaks ==
  \A c \in Connections :
    owner[c] # Nobody =>
      /\ req[owner[c]].at = "running"
      /\ \E i \in 1 .. req[owner[c]].step - 1 : Program[req[owner[c]].op][i] = "begin"

(* Every request is answered, even when all connections are held by         *)
(* requests that wait for a second one.                                     *)
RequestsAreAnswered ==
  \A q \in Requests : req[q].at = "running" ~> req[q].at \in Codes
=============================================================================
