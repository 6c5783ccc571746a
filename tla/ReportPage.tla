----------------------------- MODULE ReportPage ----------------------------
(***************************************************************************)
(* The page that shows the reports (frontend/src/app/reports/page.tsx) in  *)
(* front of Reports.  The portfolio report is reduced to the names of its  *)
(* fields, which decide whether the page can be drawn; the other report    *)
(* and the messages are left out.                                          *)
(***************************************************************************)
EXTENDS Reports

CONSTANTS
  Loads,        \* calls of load(), by opening the page and by Refresh
  PageExports,  \* calls of triggerExport()
  Nothing       \* null, no call

ASSUME PageConstants ==
  PageExports \subseteq Exports /\ NoType \in ExportTypes /\ Nothing \notin Exports

Parts == {"portfolio", "delinquency"}

VARIABLES
  load,       \* Loads -> whether it has begun, and what became of its two requests
  page,       \* the state of the reports page
  exporting   \* the export whose answer the page waits for

pageVars == <<load, page, exporting>>
pvars    == <<vars, pageVars>>

PageInit ==
  /\ Init
  /\ load = [i \in Loads |-> [at |-> "idle"]]
  /\ page = [loading |-> TRUE, portfolio |-> Nothing, drawn |-> TRUE]
  /\ exporting = Nothing

----------------------------------------------------------------------------
(* Answers: ResponseTransformInterceptor wraps what the service returns in  *)
(* an envelope, of which the pages take `data'.                             *)

ActiveLoansFields ==
  {"snapshotDate", "tenantId", "totalLoans", "totalOutstanding", "totalAccruedInterest",
   "byStatus", "byInterestType", "loans"}

\* fields the reports page takes a method or an element of while drawing
Indexed == {"by_status", "by_interest_type"}

(* The page is drawn anew whenever its state changes.  by_status.map of a   *)
(* portfolio without that field throws, and with nothing to catch it React  *)
(* removes the page.                                                        *)
Drawn(portfolio) == portfolio = Nothing \/ Indexed \subseteq portfolio

Redraw(p) == [p EXCEPT !.drawn = Drawn(p.portfolio)]

----------------------------------------------------------------------------
(* reports/page.tsx *)

(* The effect of the first drawing, then the Refresh button, which is never *)
(* disabled: loads may overlap.                                             *)
Load(i) ==
  /\ load[i].at = "idle" /\ page.drawn
  /\ load' = [load EXCEPT ![i] = [at |-> "open", part |-> [w \in Parts |-> "waiting"]]]
  /\ page' = [page EXCEPT !.loading = TRUE]
  /\ UNCHANGED <<vars, exporting>>

Open(i)  == load[i].at = "open"
Got(i, answer) == \E what \in Parts : load[i].part[what] = answer

(* The server, or the network, answers one of the two requests of a load.   *)
Answer(i, what) ==
  /\ Open(i) /\ load[i].part[what] = "waiting"
  /\ \E answer \in {"refused", "ok"} : load' = [load EXCEPT ![i].part[what] = answer]
  /\ UNCHANGED <<vars, page, exporting>>

\* slip: the indicator is taken away only when the reports have come
ShowFailureKeepsLoading(i) ==
  /\ Open(i) /\ Got(i, "refused")
  /\ load' = [load EXCEPT ![i] = [at |-> "over"]]
  /\ UNCHANGED <<vars, page, exporting>>

(* Promise.all fails with the first refusal; catch does nothing, finally    *)
(* ends the loading whatever other load is still waiting.                   *)
ShowFailure(i) ==
  /\ Open(i) /\ Got(i, "refused")
  /\ load' = [load EXCEPT ![i] = [at |-> "over"]]
  /\ page' = [page EXCEPT !.loading = FALSE]
  /\ UNCHANGED <<vars, exporting>>

(* Both reports have come; the older of two loads may come last.            *)
ShowReports(i) ==
  /\ Open(i) /\ ~Got(i, "waiting") /\ ~Got(i, "refused")
  /\ load' = [load EXCEPT ![i] = [at |-> "over"]]
  /\ page' = Redraw([page EXCEPT !.portfolio = ActiveLoansFields, !.loading = FALSE])
  /\ UNCHANGED <<vars, exporting>>

(* triggerExport posts an empty body and no type.                           *)
TriggerExport(e) ==
  /\ page.drawn /\ exporting = Nothing
  /\ \E t \in Tenants : Start(e, t, NoType)
  /\ exporting' = e
  /\ UNCHANGED <<load, page>>

ExportAnswered ==
  /\ exporting # Nothing /\ at[exporting] \in {"done", "failed"}
  /\ exporting' = Nothing
  /\ UNCHANGED <<vars, load, page>>

Browser ==
  \/ \E i \in Loads : \/ Load(i) \/ ShowFailure(i) \/ ShowReports(i)
                      \/ \E what \in Parts : Answer(i, what)
  \/ \E e \in PageExports : TriggerExport(e)
  \/ ExportAnswered

(* Other clients call the API, other services change the rows. *)
Server == Next /\ UNCHANGED pageVars

PageSpec ==
  /\ PageInit /\ [][Browser \/ Server]_pvars
  /\ \A i \in Loads :
       /\ WF_pvars(ShowFailure(i)) /\ WF_pvars(ShowReports(i))
       /\ \A what \in Parts : WF_pvars(Answer(i, what))

----------------------------------------------------------------------------
(* The loading indicator of a page on which something was loaded goes away, *)
(* although refreshes overlap, answer in any order and fail in part.        *)
LoadingEnds ==
  \A i \in Loads : Open(i) ~> ~page.loading
=============================================================================
