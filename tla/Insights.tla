------------------------------- MODULE Insights -------------------------------
(***************************************************************************)
(* What a user looks at, as one system: categories, reports and plans over  *)
(* the exchange rates they share, each changed by requests and tasks of its *)
(* own at any time.  A database that is already in use may hold rates.      *)
(***************************************************************************)
EXTENDS ReportsProps, PlanningProps

vars == <<catVars, rateVars, reportVars, planVars>>

InsightsInit ==
    /\ InitCats /\ InitReports /\ InitPlanning
    /\ rates \in [RateDays -> Tables \cup {NoTable}]
    /\ import = [i \in Importers |-> NoImport] /\ imports = 0

InsightsNext ==
    \/ ReportsNext /\ UNCHANGED planVars
    \/ PlanningNext /\ UNCHANGED <<catVars, rateVars, reportVars>>

InsightsSpec == InsightsInit /\ [][InsightsNext]_vars

\* Every row, table of rates, report and plan is of the types of its columns.
TypeOK == ReportsTypeOK /\ PlanningTypeOK

\* A plan that was deleted stays deleted, whatever update was under way.
DeletedStay ==
    \A id \in DOMAIN planned : planned[id].deleted => id \in DOMAIN planned' /\ planned'[id].deleted

=============================================================================
