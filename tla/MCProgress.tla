----------------------------- MODULE MCProgress -----------------------------
(***************************************************************************)
(* What must happen in the end.  Each behaviour is one component of the    *)
(* list below, alone (Registers): the host, PortfolioItems, with two       *)
(* requests of a user without a profile and a database error, or one of    *)
(* the INSTANCEs.  The fairness is that of the component's FairSpec, said  *)
(* of the registers and the host's variables.                              *)
(***************************************************************************)
EXTENDS PortfolioItems, Registers, Sequences

\* The components that are checked.
CONSTANT Components

\* A push of Celery and one of the API that is preview only, with two interruptions.
PushRuns == {"r1", "r2"}
Push == INSTANCE TelegramPush WITH
    Runs <- PushRuns, Scheduled <- {"r1"}, Configured <- {"r1"}, Chats <- {11}, OutsideUsers <- {11},
    Signals <- {1, 2}, Scans <- {1}, SignalsOf <- <<{1, 2}>>, Priority <- <<"P0", "P0">>,
    Verdict <- <<"needs_human_review", "blocked">>, MaxActive <- 2, MaxTries <- 2, MaxFaults <- 2,
    scans <- v1, readable <- v2, reviewStatus <- v3, users <- v4, pushLogs <- v5,
    reports <- v6, inbox <- v7, task <- v8, pending <- v9, faults <- v10

\* Two overlapping scans, an error, a process that dies and a commit decided late.
ScanWorkers == {"w1", "w2"}
Scan == INSTANCE RadarScan WITH
    Workers <- ScanWorkers, Batches <- {1, 2}, Keys <- {"k1"}, Trigger <- 2, Window <- 1,
    HistoryLimit <- 2, MaxSignals <- 1, MaxTime <- 0, MaxErrors <- 1, MaxLosses <- 1,
    MaxLate <- 1,
    now <- v1, batch <- v2, signals <- v3, task <- v4, pending <- v5, late <- v6,
    lastId <- v7, errors <- v8, losses <- v9, lates <- v10

\* A tick for one process, an error with its retry, and two deaths.
Pipeline == INSTANCE RadarPipeline WITH
    Workers <- {"worker"}, MAX_RETRIES <- 1, MaxBeats <- 1, MaxDeaths <- 2, up <- {"worker"},
    beats <- v1, queue <- v2, worker <- v3, data <- v4, batches <- v5, logged <- v6,
    ended <- v7, kills <- v8, restarts <- v9

\* The alert service with two chats that may refuse.
AlertEnv == [file |-> "regular", exposed |-> FALSE, readable |-> TRUE, malformed |-> FALSE,
             token |-> TRUE, ids |-> <<"c1", "c2">>, exported |-> {}]
AlertLine == [service |-> TRUE, send |-> TRUE, dedupe |-> TRUE, ignore |-> FALSE]
Alert == INSTANCE AlertDelivery WITH
    Slots <- {"r1"}, AlertKeys <- {"k1"}, EnvFiles <- {AlertEnv}, Options <- {AlertLine},
    DEFAULT_MAX_RECIPIENTS <- 2, Ttl <- 2, MaxClock <- 2, Serial <- TRUE, MayFail <- TRUE,
    MayCrash <- FALSE,
    clock <- v1, payload <- v2, content <- v3, stateIno <- v4, tempIno <- v5, run <- v6,
    evidence <- v7, delivered <- v8

\* Collections one after another, with an interruption and its retry.
Collection == INSTANCE ProviderCollection WITH
    Collectors <- {"c1"}, Plan <- <<"concept">>,
    Datasets <- {[rows |-> 0, missing |-> 0], [rows |-> 2, missing |-> 0]},
    Viewer <- FALSE, MaxStarts <- 2, MaxErrors <- 1, MaxRetries <- 1,
    clock <- v1, snapshots <- v2, logs <- v3, checks <- v4, task <- v5, summaries <- v6,
    view <- v7, starts <- v8, errors <- v9

ASSUME Assumptions ==
    /\ Pipeline!PipelineAssumption /\ Alert!DeliveryAssumption
    /\ UsersAssumption /\ TablesAssumption /\ BoundsAssumption
    /\ Collection!PlanAssumption /\ Collection!BoundsAssumption

-----------------------------------------------------------------------------
all == <<vars, registers>>

Is(name) == component = name

SumInit ==
    /\ component \in Components /\ Init
    /\ \/ Is("push") /\ Push!Init
       \/ Is("scan") /\ Scan!Init
       \/ Is("pipeline") /\ Pipeline!Init /\ Unused10
       \/ Is("alert") /\ Alert!AlertInit /\ Unused9
       \/ Is("portfolio") /\ Unused1
       \/ Is("collection") /\ Collection!Init /\ Unused10

SumNext ==
    \/ Is("push") /\ Push!Next /\ UNCHANGED <<vars, component>>
    \/ Is("scan") /\ Scan!Next /\ UNCHANGED <<vars, component>>
    \/ Is("pipeline") /\ Pipeline!Next /\ UNCHANGED <<vars, Rest10>>
    \/ Is("alert") /\ Alert!AlertNext /\ UNCHANGED <<vars, Rest9>>
    \/ Is("portfolio") /\ Next /\ UNCHANGED registers
    \/ Is("collection") /\ Collection!Next /\ UNCHANGED <<vars, Rest10>>

SumSpec == SumInit /\ [][SumNext]_all

\* A push that was started goes on, and Celery retries its task unless it was lost.
PushFairness ==
    \A r \in PushRuns :
        /\ WF_all(Is("push") /\ Push!Work(r) /\ UNCHANGED <<vars, component>>)
        /\ WF_all(Is("push") /\ Push!Retry(r) /\ UNCHANGED <<vars, component>>)
        /\ WF_all(Is("push") /\ Push!Restart(r) /\ UNCHANGED <<vars, component>>)

\* A scan that was started goes on and the database decides every commit.
ScanFairness ==
    /\ WF_all(Is("scan") /\ Scan!Server /\ UNCHANGED <<vars, component>>)
    /\ \A w \in ScanWorkers : WF_all(Is("scan") /\ Scan!Scan(w) /\ UNCHANGED <<vars, component>>)

\* The timer starts the service again and again, and no chat refuses for ever.
AlertFairness ==
    /\ WF_all(Is("alert") /\ Alert!Start("r1", AlertLine, AlertEnv) /\ UNCHANGED <<vars, Rest9>>)
    /\ WF_all(Is("alert") /\ Alert!RunStep("r1") /\ UNCHANGED <<vars, Rest9>>)
    /\ \A chat \in Alert!AlertChats : SF_all(/\ Is("alert") /\ Alert!NextChat("r1") = chat
                                             /\ Alert!send_message("r1", TRUE)
                                             /\ UNCHANGED <<vars, Rest9>>)

\* The event loop carries every task, request and run on.
LoopFairness ==
    /\ WF_all(Is("pipeline") /\ Pipeline!Run("worker") /\ UNCHANGED <<vars, Rest10>>)
    /\ \A r \in Requests : WF_all(Is("portfolio") /\ Step(r) /\ UNCHANGED registers)
    /\ WF_all(Is("collection") /\ Collection!Work("c1") /\ UNCHANGED <<vars, Rest10>>)

SumFairSpec == SumSpec /\ PushFairness /\ ScanFairness /\ AlertFairness /\ LoopFairness

-----------------------------------------------------------------------------
\* Every push that was started is done in the end, was lost with its process, or has
\* failed and, if it is a task of Celery, used up its attempts, whatever was interrupted
\* (telegram/push_service.py, tasks/celery_app.py).
RunsSettle ==
    \A r \in PushRuns :
        (Is("push") /\ r \in Push!Active) ~> (Is("push") /\ Push!HasSettled(r))

\* No batch stays running, unless its process died, could not record the failure or lost
\* the answer to its first commit (radar/service.py); and every tick of the schedule ends,
\* its task well, given up or lost with its process, though tasks fail and the worker dies
\* (tasks/celery_app.py).
ScansSettle ==
    /\ \A b \in {1, 2} :
          (Is("scan") /\ v2[b].status = "running") ~> (Is("scan") /\ Scan!HasSettled(b))
    /\ (Is("pipeline") /\ Pipeline!Ticked(1)) ~> (Is("pipeline") /\ Pipeline!TickEnded(1))

\* An alert that stands reaches every chat, although any single send may be refused
\* (server_alert_telegram.py).
AlertReachesEveryone ==
    \A p \in Alert!Payloads : p.notify =>
        (<>[](Is("alert") /\ v2 = p) => <>(Is("alert") /\ Alert!ReachedEveryone(p)))

\* Every portfolio request is answered and every collection ends (routes/portfolio.py,
\* providers/service.py).
RequestsEnd ==
    /\ \A r \in Requests :
          (Is("portfolio") /\ ~At(r, "waiting")) ~> (Is("portfolio") /\ At(r, "done"))
    /\ (Is("collection") /\ ~Collection!AtRest("c1")) ~> (Is("collection") /\ Collection!AtRest("c1"))
=============================================================================
