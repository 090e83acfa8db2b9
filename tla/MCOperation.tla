----------------------------- MODULE MCOperation -----------------------------
(***************************************************************************)
(* The collections and the backups of the server, and what the operator    *)
(* sees of its work.  Each behaviour is one component of the list below,   *)
(* alone (Registers): one of the hosts, ProviderCollection and             *)
(* BackupFiles, or one of the INSTANCEs.                                   *)
(***************************************************************************)
EXTENDS ProviderCollection, BackupFiles, Registers, TLC

\* The components that are checked.
CONSTANT Components

CollectorSymmetry == Permutations(Collectors)

\* Two overlapping collections of one source, one of them interrupted, and a view.
MCPlan == <<"concept">>
MCDatasets == {[rows |-> 0, missing |-> 0], [rows |-> 2, missing |-> 0]}

\* Servers on which retention meets links, restores meet retention, and restores meet links.
MCUses == {{"output", "retention", "link"}, {"retention", "restore"}, {"restore", "link"}}

\* Tables of a few rows, beginning empty, with a good row in each, or with four good scans
\* from before: one and two failures are then a fifth and a third of all.
MCStatuses == [radar_scan |-> {"running", "success", "failure"}, provider_fetch |-> {"success", "failure"},
               data_quality |-> {"ok", "warning"}, telegram_push |-> {"sent", "skipped", "failed"},
               model_call |-> {"success", "fallback"}]
MCEmpty == [k \in DOMAIN MCStatuses |-> <<>>]
MCGood == [k \in DOMAIN MCStatuses |->
              <<[status |-> CHOOSE s \in MCStatuses[k] : s \in {"success", "ok", "sent"}, at |-> 0]>>]
\* The same, and a bad row on the edge of the first window.
MCEdge == [MCGood EXCEPT !["model_call"] = <<[status |-> "fallback", at |-> -1]>> \o @]
MCScans == [MCEmpty EXCEPT !["radar_scan"] = [i \in 1 .. 4 |-> [status |-> "success", at |-> -1]]]
\* A scan and a failed fetch from before, which a later window no longer holds.
MCOld == [MCEmpty EXCEPT !["radar_scan"] = <<[status |-> "success", at |-> -2]>>,
                         !["provider_fetch"] = <<[status |-> "failure", at |-> -2]>>]
\* The history and the trends tell scans, good and bad fetches and bad rows of another kind apart.
MCFewStatuses == [MCStatuses EXCEPT !["data_quality"] = {"warning"}, !["telegram_push"] = {"failed"},
                                    !["model_call"] = {"success"}]
\* Each state of each part of the server, and each pair of states of two parts.
MCServers ==
    {[disk |-> d, cpu |-> c, memory |-> CASE d = "ok" -> c
                                          [] d = "low" -> [ok |-> "high", high |-> "error", error |-> "ok"][c]
                                          [] OTHER -> [ok |-> "error", high |-> "ok", error |-> "high"][c]] :
        d \in {"ok", "low", "error"}, c \in {"ok", "high", "error"}}

\* A report of a healthy server whose tables change while it is made.
Overview == INSTANCE OpsViews WITH
    Statuses <- MCStatuses, Servers <- {[disk |-> "ok", cpu |-> "ok", memory |-> "ok"]},
    Views <- {"overview"}, Before <- {MCGood, MCEdge}, LOOKBACK <- 1, BUCKETS <- 2, LIMIT <- 2,
    StaleAfter <- 1, PushEnabled <- FALSE, MaxRows <- 7, MaxTime <- 2,
    clock <- v1, rows <- v2, report <- v3

\* Reports of a server in every state.
ServerAlerts == INSTANCE OpsViews WITH
    Statuses <- MCStatuses, Servers <- MCServers, Views <- {"overview"}, Before <- {MCEmpty, MCScans},
    LOOKBACK <- 2, BUCKETS <- 2, LIMIT <- 2, StaleAfter <- 0, PushEnabled <- TRUE,
    MaxRows <- 2, MaxTime <- 0,
    clock <- v1, rows <- v2, report <- v3

\* The history and the trends of tables that grow while they are read.
History == INSTANCE OpsViews WITH
    Statuses <- MCFewStatuses, Servers <- {}, Views <- {"history", "trends"}, Before <- {MCOld},
    LOOKBACK <- 3, BUCKETS <- 2, LIMIT <- 2, StaleAfter <- 1, PushEnabled <- FALSE,
    MaxRows <- 2, MaxTime <- 2,
    clock <- v1, rows <- v2, report <- v3

ASSUME Assumptions ==
    /\ PlanAssumption /\ BoundsAssumption /\ BackupAssumption
    /\ Overview!OpsAssumption /\ ServerAlerts!OpsAssumption /\ History!OpsAssumption

-----------------------------------------------------------------------------
SumInit ==
    /\ component \in Components /\ Init /\ BackupInit
    /\ component # "backups" => "output" \in operations
    /\ \/ component \in {"collection", "backups"} /\ Unused1
       \/ component = "overview" /\ Overview!Init /\ Unused4
       \/ component = "server_alerts" /\ ServerAlerts!Init /\ Unused4
       \/ component = "history" /\ History!Init /\ Unused4

hosts == <<vars, backupVars>>

SumNext ==
    \/ component = "collection" /\ Next /\ UNCHANGED <<backupVars, registers>>
    \/ component = "backups" /\ BackupNext /\ UNCHANGED <<vars, registers>>
    \/ component = "overview" /\ Overview!Next /\ UNCHANGED <<hosts, Rest4>>
    \/ component = "server_alerts" /\ ServerAlerts!Next /\ UNCHANGED <<hosts, Rest4>>
    \/ component = "history" /\ History!Next /\ UNCHANGED <<hosts, Rest4>>

SumSpec == SumInit /\ [][SumNext]_<<hosts, registers>>

-----------------------------------------------------------------------------
\* The operations views tell of the same tables: a report that says ready has missed no
\* trouble, alerts match their checks, and summary, history and trends add up, though
\* the tables change between two of their statements (ops/service.py).
ViewsAgree ==
    /\ component = "overview" => Overview!ReadyMissesNothing
    /\ component = "server_alerts" => ServerAlerts!AlertsMatchChecks
    /\ component = "history" =>
          /\ History!FailureSummaryAgrees
          /\ History!NewestEventsListed
          /\ History!TrendsAddUp
=============================================================================
