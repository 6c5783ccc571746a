------------------------------ MODULE Reports ------------------------------
(***************************************************************************)
(* The reports and their export to the object store (report.service.ts,    *)
(* reports.controller.ts).  A report is one SELECT.  An export is a SELECT, *)
(* a PUT of the rows under a key of tenant, type and date, and an INSERT   *)
(* of a snapshot row that says how many rows were put: three steps of      *)
(* three systems, no transaction around them, and any of them may fail     *)
(* while another export of the same key runs.                              *)
(*                                                                         *)
(* Of a loan its status and days past due are kept, which decide in which  *)
(* reports it is; the amounts and their sums are left out.                 *)
(***************************************************************************)
EXTENDS Integers, FiniteSets

CONSTANTS
  Tenants, Loans, LoanTenant,
  Exports,                   \* calls of exportToSnowflake
  ExportTypes,               \* the values of ?type= they come with
  NoType,                    \* undefined
  Rows0,                     \* loan rows to begin with
  MaxDay, MaxFaults          \* bounds: the clock, statements that fail

ReportTypes == {"ACTIVE_LOANS", "DELINQUENCY", "AMOUNT_DUE"}
Statuses    == {"PENDING", "ACTIVE", "CURRENT", "DELINQUENT", "DEFAULT", "PAID_OFF"}

ASSUME ReportConstants ==
  /\ LoanTenant \in [Loans -> Tenants] /\ IsFiniteSet(Loans)
  /\ ExportTypes \subseteq ReportTypes \cup {NoType} /\ NoType \notin ReportTypes
  /\ Rows0 \subseteq [status : Statuses, dpd : Nat]
  /\ MaxDay \in Nat /\ MaxFaults \in Nat

VARIABLES
  loan,       \* Loans -> status and days past due
  objects,    \* the bucket: at most one object per key
  snapshots,  \* rows of report_snapshots
  at,         \* Exports -> the step it is about to take, or how it ended
  key,        \* Exports -> tenant, type and date of its object
  read,       \* Exports -> the rows it has read
  today, faults

vars == <<loan, objects, snapshots, at, key, read, today, faults>>

NoKey == [tenant |-> NoType, type |-> NoType, date |-> 0]

\* days past due are only ever written 0; others come with the seed data
Init ==
  /\ loan \in [Loans -> Rows0]
  /\ objects = {} /\ snapshots = {}
  /\ at = [e \in Exports |-> "idle"]
  /\ key = [e \in Exports |-> NoKey] /\ read = [e \in Exports |-> {}]
  /\ today = 1 /\ faults = 0

----------------------------------------------------------------------------
(* The three reports: which rows their SELECT returns *)

LoansOf(t) == {l \in Loans : LoanTenant[l] = t}

ActiveLoans(t) ==
  {l \in LoansOf(t) : loan[l].status \in {"ACTIVE", "CURRENT", "DELINQUENT", "DEFAULT"}}

DelinquentLoans(t) == {l \in LoansOf(t) : loan[l].dpd > 0}

(* What an export selects.  Its route hands no dates on to the amounts due: *)
(* BETWEEN undefined dates is NULL, and no row is returned.                 *)
Selected(t, type) ==
  CASE type = "ACTIVE_LOANS" -> ActiveLoans(t)
    [] type = "DELINQUENCY"  -> DelinquentLoans(t)
    [] type = "AMOUNT_DUE"   -> {}

----------------------------------------------------------------------------
(* exportToSnowflake *)

Goto(e, place) == at' = [at EXCEPT ![e] = place]

(* The date is taken before anything is read.  reportType.toLowerCase() of  *)
(* an undefined type throws.                                                *)
Start(e, t, type) ==
  /\ at[e] = "idle"
  /\ IF type = NoType
       THEN Goto(e, "failed") /\ UNCHANGED key
       ELSE /\ Goto(e, "query")
            /\ key' = [key EXCEPT ![e] = [tenant |-> t, type |-> type, date |-> today]]
  /\ UNCHANGED <<loan, objects, snapshots, read, today, faults>>

\* the route is open to an ADMIN of any tenant; ?type= is optional
StartExport(e) == \E t \in Tenants, type \in ExportTypes : Start(e, t, type)

Query(e) ==
  /\ at[e] = "query"
  /\ read' = [read EXCEPT ![e] = Selected(key[e].tenant, key[e].type)]
  /\ Goto(e, "put")
  /\ UNCHANGED <<loan, objects, snapshots, key, today, faults>>

ObjectOf(e)   == [key |-> key[e], by |-> e, rows |-> read[e]]
SnapshotOf(e) == [key |-> key[e], by |-> e, count |-> Cardinality(read[e])]

\* slip: the rows of the day are appended to the ones already in the object
StoredAppended(e) ==
  LET before == UNION {o.rows : o \in {o \in objects : o.key = key[e]}} IN
  {o \in objects : o.key # key[e]} \cup {[ObjectOf(e) EXCEPT !.rows = @ \cup before]}

(* The bucket after a PUT: the object under that key is replaced.           *)
Stored(e) == {o \in objects : o.key # key[e]} \cup {ObjectOf(e)}

\* slip: the snapshot is saved first
PutLast(e) ==
  /\ at[e] = "put"
  /\ snapshots' = snapshots \cup {SnapshotOf(e)}
  /\ Goto(e, "save")
  /\ UNCHANGED <<loan, objects, key, read, today, faults>>

Put(e) ==
  /\ at[e] = "put"
  /\ objects' = Stored(e)
  /\ Goto(e, "save")
  /\ UNCHANGED <<loan, snapshots, key, read, today, faults>>

SaveSnapshot(e) ==
  /\ at[e] = "save"
  /\ snapshots' = snapshots \cup {SnapshotOf(e)}
  /\ Goto(e, "done")
  /\ UNCHANGED <<loan, objects, key, read, today, faults>>

(* A statement fails or the process is killed.  Nothing is undone, and what *)
(* timed out may have happened.                                             *)
Fail(e) ==
  /\ at[e] \in {"query", "put", "save"} /\ faults < MaxFaults
  /\ faults' = faults + 1
  /\ Goto(e, "failed")
  /\ \/ UNCHANGED <<objects, snapshots>>
     \/ at[e] = "put" /\ objects' = Stored(e) /\ UNCHANGED snapshots
     \/ at[e] = "save" /\ snapshots' = snapshots \cup {SnapshotOf(e)} /\ UNCHANGED objects
  /\ UNCHANGED <<loan, key, read, today>>

----------------------------------------------------------------------------
(* The rows change under the exports *)

(* activateLoan *)
Activate(l) ==
  /\ loan[l].status = "PENDING"
  /\ loan' = [loan EXCEPT ![l].status = "ACTIVE"]
  /\ UNCHANGED <<objects, snapshots, at, key, read, today, faults>>

(* A payment.  The loan becomes CURRENT, or, when an installment is         *)
(* OVERDUE, stays as it is or is PAID_OFF.                                  *)
Pay(l) ==
  /\ loan[l].status \in {"ACTIVE", "CURRENT", "DELINQUENT"}
  /\ \E row \in {[status |-> "CURRENT", dpd |-> 0], [loan[l] EXCEPT !.status = "PAID_OFF"]} :
       loan' = [loan EXCEPT ![l] = row]
  /\ UNCHANGED <<objects, snapshots, at, key, read, today, faults>>

Midnight ==
  /\ today < MaxDay /\ today' = today + 1
  /\ UNCHANGED <<loan, objects, snapshots, at, key, read, faults>>

Export(e) == StartExport(e) \/ Query(e) \/ Put(e) \/ SaveSnapshot(e)

Next ==
  \/ \E e \in Exports : Export(e) \/ Fail(e)
  \/ \E l \in Loans : Activate(l) \/ Pay(l)
  \/ Midnight

Spec == Init /\ [][Next]_vars

----------------------------------------------------------------------------
(* Properties *)

Described(o) == [key |-> o.key, by |-> o.by, count |-> Cardinality(o.rows)] \in snapshots

(* Every object in the bucket is described, with its number of rows, by the *)
(* snapshot row of the export that put it, unless that one has not come so  *)
(* far or failed on the way - however exports of one key overlap, repeat    *)
(* and replace each other's object.                                         *)
ObjectsAreDescribed ==
  \A o \in objects : Described(o) \/ at[o.by] \in {"save", "failed"}

(* A snapshot row says exported_to_s3 and names a key: there is an object   *)
(* under that key, whatever fails.                                          *)
SnapshotsHaveObjects ==
  \A s \in snapshots : \E o \in objects : o.key = s.key

(* What the two rest on: only an export past its PUT has an object, which   *)
(* is the one it is about to describe, and until it is described its key is *)
(* not free.                                                                *)
ExportInv ==
  /\ at \in [Exports -> {"idle", "query", "put", "save", "done", "failed"}]
  /\ \A o \in objects : o.by \in Exports /\ at[o.by] \in {"save", "done", "failed"}
  /\ \A o \in objects : at[o.by] = "save" => o = ObjectOf(o.by)
  /\ \A e \in Exports : at[e] = "save" => \E o \in objects : o.key = key[e]
  /\ ObjectsAreDescribed
  /\ SnapshotsHaveObjects
=============================================================================
