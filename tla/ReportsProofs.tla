--------------------------- MODULE ReportsProofs ----------------------------
(***************************************************************************)
(* For any exports, loans, days and faults: what the bucket and the        *)
(* snapshot rows say of each other.                                        *)
(***************************************************************************)
EXTENDS ReportPage, TLAPS

(* The bucket changes only by a PUT, which keeps every key in use.          *)
LEMMA KeysStay ==
  ASSUME NEW e, NEW k, \E o \in objects : o.key = k
  PROVE  \E o \in Stored(e) : o.key = k
<1>1. CASE k = key[e]
  <2>1. ObjectOf(e) \in Stored(e) BY DEF Stored
  <2>2. ObjectOf(e).key = k BY <1>1 DEF ObjectOf
  <2> QED BY <2>1, <2>2
<1>2. CASE k # key[e]
  BY <1>2 DEF Stored
<1> QED BY <1>1, <1>2

(* A PUT puts the object the export describes afterwards.                   *)
LEMMA PutKeeps ==
  ASSUME ExportInv, NEW e \in Exports, at[e] = "put", objects' = Stored(e),
         UNCHANGED <<snapshots, key, read>>,
         NEW place \in {"save", "failed"}, at' = [at EXCEPT ![e] = place]
  PROVE  ExportInv'
<1> USE DEF ExportInv
<1>1. at' \in [Exports -> {"idle", "query", "put", "save", "done", "failed"}]
  OBVIOUS
<1>2. \A o \in objects : o.by # e
  OBVIOUS
<1>3. \A o \in objects' : o = ObjectOf(e) \/ (o \in objects /\ o.by # e)
  BY <1>2 DEF Stored
<1>4. ObjectOf(e).by = e /\ ObjectOf(e).key = key[e]
  BY DEF ObjectOf
<1>5. \A f : ObjectOf(f)' = ObjectOf(f)
  BY DEF ObjectOf
<1>6. \A f \in Exports : f # e => at'[f] = at[f]
  OBVIOUS
<1>7. at'[e] = place
  OBVIOUS
<1>8. \A o \in objects' : o.by \in Exports /\ at'[o.by] \in {"save", "done", "failed"}
  BY <1>3, <1>4, <1>6, <1>7
<1>9. \A o \in objects' : at'[o.by] = "save" => o = ObjectOf(o.by)'
  BY <1>3, <1>4, <1>5, <1>6, <1>7
<1>10. \A f \in Exports : at'[f] = "save" => \E o \in objects' : o.key = key'[f]
  <2> SUFFICES ASSUME NEW f \in Exports, at'[f] = "save" PROVE \E o \in objects' : o.key = key[f]
    OBVIOUS
  <2>1. CASE f = e
    BY <2>1, <1>4 DEF Stored
  <2>2. CASE f # e
    <3>1. \E o \in objects : o.key = key[f] BY <2>2, <1>6
    <3> QED BY <3>1, KeysStay
  <2> QED BY <2>1, <2>2
<1>11. ObjectsAreDescribed'
  <2> SUFFICES ASSUME NEW o \in objects' PROVE Described(o)' \/ at'[o.by] \in {"save", "failed"}
    BY DEF ObjectsAreDescribed
  <2>1. CASE o = ObjectOf(e)
    BY <2>1, <1>4, <1>7
  <2>2. CASE o \in objects /\ o.by # e
    <3>1. Described(o) \/ at[o.by] \in {"save", "failed"} BY <2>2 DEF ObjectsAreDescribed
    <3>2. at'[o.by] = at[o.by] BY <2>2, <1>6
    <3> QED BY <3>1, <3>2 DEF Described
  <2> QED BY <1>3, <2>1, <2>2
<1>12. SnapshotsHaveObjects'
  <2> SUFFICES ASSUME NEW s \in snapshots PROVE \E o \in objects' : o.key = s.key
    BY DEF SnapshotsHaveObjects
  <2>1. \E o \in objects : o.key = s.key BY DEF SnapshotsHaveObjects
  <2> QED BY <2>1, KeysStay
<1> QED BY <1>1, <1>8, <1>9, <1>10, <1>11, <1>12

(* A saved snapshot is backed by the object its export put, or by the one   *)
(* that has replaced it.                                                    *)
LEMMA SaveKeeps ==
  ASSUME ExportInv, NEW e \in Exports, at[e] = "save",
         snapshots' = snapshots \cup {SnapshotOf(e)}, UNCHANGED <<objects, key, read>>,
         NEW place \in {"done", "failed"}, at' = [at EXCEPT ![e] = place]
  PROVE  ExportInv'
<1> USE DEF ExportInv
<1>1. /\ at' \in [Exports -> {"idle", "query", "put", "save", "done", "failed"}]
      /\ at'[e] = place
      /\ \A f \in Exports : f # e => at'[f] = at[f]
  OBVIOUS
<1>2. \A f : ObjectOf(f)' = ObjectOf(f)
  BY DEF ObjectOf
<1>3. \A o \in objects' : at'[o.by] = "save" => o = ObjectOf(o.by)'
  BY <1>1, <1>2
<1>4. \A f \in Exports : at'[f] = "save" => \E o \in objects' : o.key = key'[f]
  BY <1>1
<1>5. ObjectsAreDescribed'
  <2> SUFFICES ASSUME NEW o \in objects PROVE Described(o)' \/ at'[o.by] \in {"save", "failed"}
    BY DEF ObjectsAreDescribed
  <2>1. CASE o.by = e
    <3>1. o = ObjectOf(e) BY <2>1
    <3>2. [key |-> o.key, by |-> o.by, count |-> Cardinality(o.rows)] = SnapshotOf(e)
      BY <3>1 DEF ObjectOf, SnapshotOf
    <3> QED BY <3>2 DEF Described
  <2>2. CASE o.by # e
    BY <2>2, <1>1 DEF ObjectsAreDescribed, Described
  <2> QED BY <2>1, <2>2
<1>6. SnapshotsHaveObjects'
  <2> SUFFICES ASSUME NEW s \in snapshots' PROVE \E o \in objects : o.key = s.key
    BY DEF SnapshotsHaveObjects
  <2>1. CASE s \in snapshots
    BY <2>1 DEF SnapshotsHaveObjects
  <2>2. CASE s = SnapshotOf(e)
    <3>1. s.key = key[e] BY <2>2 DEF SnapshotOf
    <3> QED BY <3>1
  <2> QED BY <2>1, <2>2
<1>7. \A o \in objects' : o.by \in Exports /\ at'[o.by] \in {"save", "done", "failed"}
  BY <1>1
<1> QED BY <1>1, <1>3, <1>4, <1>5, <1>6, <1>7

(* Steps that touch neither the bucket nor the snapshots, of an export that *)
(* has nothing to describe when they are over.                              *)
LEMMA QuietStep ==
  ASSUME ExportInv, NEW e \in Exports, at[e] \in {"idle", "query", "put", "save"},
         UNCHANGED <<objects, snapshots>>,
         \A f \in Exports : f # e => key'[f] = key[f] /\ read'[f] = read[f],
         NEW place \in {"query", "put", "failed"}, at' = [at EXCEPT ![e] = place],
         at[e] = "save" => place = "failed"
  PROVE  ExportInv'
<1> USE DEF ExportInv
<1>1. /\ at' \in [Exports -> {"idle", "query", "put", "save", "done", "failed"}]
      /\ at'[e] = place
      /\ \A f \in Exports : f # e => at'[f] = at[f]
  OBVIOUS
<1>2. \A o \in objects : o.by = e => at[e] = "save" /\ place = "failed"
  OBVIOUS
<1>3. \A o \in objects' : o.by \in Exports /\ at'[o.by] \in {"save", "done", "failed"}
  BY <1>1, <1>2
<1>4. \A o \in objects' : at'[o.by] = "save" => o = ObjectOf(o.by)'
  BY <1>1, <1>2 DEF ObjectOf
<1>5. \A f \in Exports : at'[f] = "save" => \E o \in objects' : o.key = key'[f]
  BY <1>1
<1>6. ObjectsAreDescribed'
  BY <1>1, <1>2 DEF ObjectsAreDescribed, Described
<1>7. SnapshotsHaveObjects'
  BY DEF SnapshotsHaveObjects
<1> QED BY <1>1, <1>3, <1>4, <1>5, <1>6, <1>7

(* Every step of every export keeps the invariant.                           *)
LEMMA ExportStep == ExportInv /\ [Next]_vars => ExportInv'
<1> SUFFICES ASSUME ExportInv, [Next]_vars PROVE ExportInv'
  OBVIOUS
<1>1. ASSUME UNCHANGED <<objects, snapshots, at, key, read>> PROVE ExportInv'
  BY <1>1 DEF ExportInv, ObjectsAreDescribed, SnapshotsHaveObjects, Described, ObjectOf
<1>2. ASSUME NEW e \in Exports, StartExport(e) PROVE ExportInv'
  <2>1. PICK t \in Tenants, type \in ExportTypes : Start(e, t, type)
    BY <1>2 DEF StartExport
  <2>2. /\ at[e] = "idle" /\ UNCHANGED <<objects, snapshots, read>>
        /\ \E place \in {"query", "failed"} : at' = [at EXCEPT ![e] = place]
        /\ \A f \in Exports : f # e => key'[f] = key[f]
    <3>1. CASE type = NoType BY <2>1, <3>1 DEF Start, Goto
    <3>2. CASE type # NoType
      <4>1. key' = [key EXCEPT ![e] = [tenant |-> t, type |-> type, date |-> today]]
        BY <2>1, <3>2 DEF Start
      <4> QED BY <2>1, <3>2, <4>1 DEF Start, Goto
    <3> QED BY <3>1, <3>2
  <2> QED BY <2>2, QuietStep
<1>3. ASSUME NEW e \in Exports, Query(e) PROVE ExportInv'
  <2>1. /\ at[e] = "query" /\ UNCHANGED <<objects, snapshots, key>>
        /\ at' = [at EXCEPT ![e] = "put"]
        /\ \A f \in Exports : f # e => read'[f] = read[f]
    BY <1>3 DEF Query, Goto
  <2> QED BY <2>1, QuietStep
<1>4. ASSUME NEW e \in Exports, Put(e) PROVE ExportInv'
  BY <1>4, PutKeeps DEF Put, Goto
<1>5. ASSUME NEW e \in Exports, SaveSnapshot(e) PROVE ExportInv'
  BY <1>5, SaveKeeps DEF SaveSnapshot, Goto
<1>6. ASSUME NEW e \in Exports, Fail(e) PROVE ExportInv'
  <2>1. at[e] \in {"query", "put", "save"} /\ at' = [at EXCEPT ![e] = "failed"]
        /\ UNCHANGED <<key, read>>
    BY <1>6 DEF Fail, Goto
  <2>2. CASE UNCHANGED <<objects, snapshots>>
    BY <2>1, <2>2, QuietStep
  <2>3. CASE at[e] = "put" /\ objects' = Stored(e) /\ UNCHANGED snapshots
    BY <2>1, <2>3, PutKeeps
  <2>4. CASE at[e] = "save" /\ snapshots' = snapshots \cup {SnapshotOf(e)} /\ UNCHANGED objects
    BY <2>1, <2>4, SaveKeeps
  <2> QED BY <1>6, <2>2, <2>3, <2>4 DEF Fail
<1>7. ASSUME NEW l \in Loans, Activate(l) \/ Pay(l) PROVE ExportInv'
  BY <1>1, <1>7 DEF Activate, Pay
<1>8. ASSUME Midnight PROVE ExportInv'
  BY <1>1, <1>8 DEF Midnight
<1>9. CASE UNCHANGED vars
  BY <1>1, <1>9 DEF vars
<1> QED BY <1>2, <1>3, <1>4, <1>5, <1>6, <1>7, <1>8, <1>9 DEF Next, Export

(* So it always holds.                                                       *)
LEMMA ExportAlways == Spec => []ExportInv
<1>1. Init => ExportInv
  BY DEF Init, ExportInv, ObjectsAreDescribed, SnapshotsHaveObjects
<1> QED BY <1>1, ExportStep, PTL DEF Spec

(* Whatever exports of one key overlap and fail, the object in the bucket   *)
(* is described by the snapshot of the export that put it, unless that one  *)
(* is about to save it or has failed.                                       *)
THEOREM ExportsDescribed == Spec => []ObjectsAreDescribed
<1>1. ExportInv => ObjectsAreDescribed
  BY DEF ExportInv
<1> QED BY <1>1, ExportAlways, PTL

(* No snapshot row ever points to a missing object.                         *)
THEOREM SnapshotsBacked == Spec => []SnapshotsHaveObjects
<1>1. ExportInv => SnapshotsHaveObjects
  BY DEF ExportInv
<1> QED BY <1>1, ExportAlways, PTL

(* The page changes the database only as clients of the API do: what holds  *)
(* of any exports holds with pages in front of them.                        *)
THEOREM PagesAreClients == PageSpec => Spec
<1>1. PageInit => Init BY DEF PageInit
<1>2. [Browser \/ Server]_pvars => [Next]_vars
  <2> SUFFICES ASSUME [Browser \/ Server]_pvars PROVE [Next]_vars OBVIOUS
  <2>1. CASE Server BY <2>1 DEF Server
  <2>2. CASE UNCHANGED pvars BY <2>2 DEF pvars
  <2>3. ASSUME NEW e \in PageExports, TriggerExport(e) PROVE Next
    BY <2>3, PageConstants DEF TriggerExport, StartExport, Export, Next
  <2>4. ASSUME NEW i \in Loads,
               Load(i) \/ ShowFailure(i) \/ ShowReports(i) \/ \E what \in Parts : Answer(i, what)
        PROVE UNCHANGED vars
    BY <2>4 DEF Load, ShowFailure, ShowReports, Answer
  <2>5. CASE ExportAnswered BY <2>5 DEF ExportAnswered
  <2> QED BY <2>1, <2>2, <2>3, <2>4, <2>5 DEF Browser
<1> QED BY <1>1, <1>2, PTL DEF PageSpec, Spec
=============================================================================
