-------------------------- MODULE ProviderCollection --------------------------
(***************************************************************************)
(* Collections of provider data and the scans and views that read them     *)
(* (providers/service.py, tasks/celery_app.py, radar/service.py).          *)
(*                                                                         *)
(* A collector goes through its endpoints one after another.  An attempt   *)
(* ends in one transaction with a snapshot, a log and a quality check, or, *)
(* after a fetch that raised, with a log and a check.  Rows of one         *)
(* transaction share its start as their created_at (at); a log also has    *)
(* the time the client saw (fin).  Logs are ordered by fin, snapshots and  *)
(* checks by at.  The task collect_and_scan goes on to read, in the same   *)
(* session, the latest snapshot of each source and then its quality.       *)
(* An exception outside the fetch ends the task, which Celery starts anew. *)
(*                                                                         *)
(* A definition marked "mutant" is a plausible mistake in the definition   *)
(* that follows it; nothing uses it but the tests of the properties.       *)
(***************************************************************************)
EXTENDS ProviderRules, Sequences, SequencesExt

CONSTANTS
    Collectors,    \* sessions that collect
    Plan,          \* the endpoints of a collection, in its order
    Datasets,      \* what a fetch can return: [rows, missing]
    Viewer,        \* whether a status view is read meanwhile
    MaxStarts,     \* bound on collections started by the schedule or a request
    MaxErrors,     \* bound on exceptions outside a fetch, and process deaths
    MaxRetries     \* max_retries of the task

\* Assumed of the constants by the modules that give them values.
PlanAssumption == Plan \in Seq(STRING) /\ Len(Plan) > 0
BoundsAssumption ==
    /\ MaxStarts \in Nat /\ MaxErrors \in Nat /\ MaxRetries \in Nat
    /\ Viewer \in BOOLEAN

Endpoints == ToSet(Plan)
None == 0

VARIABLES
    clock,      \* one tick for every timestamp taken
    snapshots,  \* market_snapshots, committed
    logs,       \* provider_fetch_logs, committed
    checks,     \* data_quality_checks, committed
    task,       \* each collector: where it is and what its session holds
    summaries,  \* history: the quality each scan computed for a source
    view,       \* one reader of the collection status
    starts, errors

vars == <<clock, snapshots, logs, checks, task, summaries, view, starts, errors>>

NoTask == [pc |-> "idle", i |-> 1, at |-> None, fin |-> None, data |-> NoAttempt,
           tries |-> 0, mine |-> [e \in Endpoints |-> None],
           read |-> [e \in Endpoints |-> None], seen |-> {}]
NoView == [pc |-> "idle", latest |-> {}, success |-> {}, failure |-> {}]

Init ==
    /\ clock = 0
    /\ snapshots = {} /\ logs = {} /\ checks = {}
    /\ task = [c \in Collectors |-> NoTask]
    /\ summaries = {}
    /\ view = NoView
    /\ starts = 0 /\ errors = 0

Tick == clock' = clock + 1
Continue(c, t) == task' = [task EXCEPT ![c] = t]

\* ORDER BY at DESC LIMIT 1, as a set of at most one row.
Latest(rows, Key(_)) == {r \in rows : \A s \in rows : Key(s) <= Key(r)}
At(row) == row.at
Fin(row) == row.fin

LatestSnapshot(e) == Latest({s \in snapshots : s.endpoint = e}, At)
LatestEndpointCheck(e) == Latest({k \in checks : k.endpoint = e}, At)
LatestFetchLog(e, results) ==
    Latest({l \in logs : l.endpoint = e /\ l.result \in results}, Fin)

-----------------------------------------------------------------------------
\* A run of collect_minimal_akshare, or of the task that also scans.
StartCollection(c) ==
    /\ task[c].pc = "idle" /\ starts < MaxStarts
    /\ starts' = starts + 1
    /\ Continue(c, [task[c] EXCEPT !.pc = "fetch", !.i = 1,
                        !.mine = NoTask.mine, !.read = NoTask.read, !.seen = {}])
    /\ UNCHANGED <<clock, snapshots, logs, checks, summaries, view, errors>>

\* The provider returns rows, or raises and the session is rolled back.
Fetch(c) ==
    /\ task[c].pc = "fetch"
    /\ \/ \E d \in Datasets :
            Continue(c, [task[c] EXCEPT !.pc = "flush",
                !.data = [result |-> "success", rows |-> d.rows, missing |-> d.missing]])
       \/ Continue(c, [task[c] EXCEPT !.pc = "log",
                !.data = [result |-> "failure", rows |-> 0, missing |-> 0]])
    /\ UNCHANGED <<clock, snapshots, logs, checks, summaries, view, starts, errors>>

\* The first flush of a success starts the transaction, whose time its rows get.
FlushSnapshot(c) ==
    /\ task[c].pc = "flush"
    /\ Tick
    /\ Continue(c, [task[c] EXCEPT !.pc = "log", !.at = clock'])
    /\ UNCHANGED <<snapshots, logs, checks, summaries, view, starts, errors>>

\* The log takes the client's time; after a failure its flush starts the transaction.
AddLog(c) ==
    /\ task[c].pc = "log"
    /\ clock' = clock + 2
    /\ Continue(c, [task[c] EXCEPT !.pc = "commit", !.fin = clock + 1,
                        !.at = IF task[c].data.result = "failure" THEN clock + 2 ELSE @])
    /\ UNCHANGED <<snapshots, logs, checks, summaries, view, starts, errors>>

NextEndpoint(t) ==
    IF t.i < Len(Plan) THEN [t EXCEPT !.pc = "fetch", !.i = @ + 1]
    ELSE [t EXCEPT !.pc = "scan", !.i = 1]

\* _record_success and _record_failure end with one commit of all their rows.
CommitAttempt(c) ==
    LET t == task[c]  e == Plan[t.i] IN
    /\ t.pc = "commit"
    /\ logs' = logs \cup {[endpoint |-> e, at |-> t.at, fin |-> t.fin,
                           result |-> t.data.result, rows |-> t.data.rows]}
    /\ snapshots' = IF t.data.result = "success"
                    THEN snapshots \cup {[endpoint |-> e, at |-> t.at, rows |-> t.data.rows]}
                    ELSE snapshots
    /\ checks' = checks \cup {[endpoint |-> e, at |-> t.at, log |-> t.fin,
                               status |-> CheckStatus(t.data),
                               snapshot |-> IF t.data.result = "success" THEN t.at ELSE None]}
    /\ Continue(c, NextEndpoint([t EXCEPT !.mine[e] = t.at]))
    /\ UNCHANGED <<clock, summaries, view, starts, errors>>

-----------------------------------------------------------------------------
(***************************************************************************)
(* The scan of the same task: all snapshots first, then their quality.     *)
(***************************************************************************)
\* _load_latest_source_snapshots, one statement per endpoint.
ReadSnapshot(c) ==
    LET t == task[c]  e == Plan[t.i]  s == LatestSnapshot(e) IN
    /\ t.pc = "scan"
    /\ LET r == [t EXCEPT !.read[e] = IF s = {} THEN None ELSE (CHOOSE x \in s : TRUE).at]
       IN  Continue(c, IF t.i < Len(Plan) THEN [r EXCEPT !.i = @ + 1]
                       ELSE [r EXCEPT !.i = 1, !.pc = "own"])
    /\ UNCHANGED <<clock, snapshots, logs, checks, summaries, view, starts, errors>>

\* The check of the snapshot; sources without a snapshot have no summary.
ReadOwnCheck(c) ==
    LET t == task[c] IN
    /\ t.pc = "own"
    /\ Continue(c, [t EXCEPT !.pc = "endpoint",
            !.seen = {k \in checks : k.endpoint = Plan[t.i] /\ k.snapshot # None
                                     /\ k.snapshot = t.read[Plan[t.i]]}])
    /\ UNCHANGED <<clock, snapshots, logs, checks, summaries, view, starts, errors>>

OwnCheckOnly(own, endpoint) ==                               \* mutant
    IF own # {} THEN own ELSE endpoint

\* A failure of the endpoint's last attempt outweighs the snapshot's own check.
SelectedQualityCheck(own, endpoint) ==
    IF \E k \in endpoint : k.status = "failed" THEN endpoint
    ELSE IF own # {} THEN own ELSE endpoint

QualitySummary(selected) ==
    IF selected = {} THEN "unknown" ELSE (CHOOSE k \in selected : TRUE).status

\* _latest_endpoint_quality_check, and the summary of the two checks.
ReadEndpointCheck(c) ==
    LET t == task[c]  e == Plan[t.i]  latest == LatestEndpointCheck(e) IN
    /\ t.pc = "endpoint"
    /\ summaries' = IF t.read[e] = None THEN summaries
                    ELSE summaries \cup
                        {[endpoint |-> e, snapshot |-> t.read[e], attempt |-> t.mine[e],
                          status |-> QualitySummary(SelectedQualityCheck(t.seen, latest)),
                          newer |-> \E s \in snapshots : s.endpoint = e /\ s.at > t.read[e]]}
    /\ Continue(c, IF t.i < Len(Plan) THEN [t EXCEPT !.pc = "own", !.i = @ + 1]
                   ELSE NoTask)
    /\ UNCHANGED <<clock, snapshots, logs, checks, view, starts, errors>>

\* A database error or the end of the process: what was not committed is gone.  A task
\* of Celery that raised starts again from the first endpoint while it has retries left;
\* one lost with its process, or a request to the API, does not.
Interrupt(c) ==
    /\ task[c].pc # "idle"
    /\ errors < MaxErrors
    /\ errors' = errors + 1
    /\ \/ Continue(c, NoTask)
       \/ /\ task[c].tries < MaxRetries
          /\ Continue(c, [NoTask EXCEPT !.pc = "fetch", !.tries = task[c].tries + 1])
    /\ UNCHANGED <<clock, snapshots, logs, checks, summaries, view, starts>>

-----------------------------------------------------------------------------
(***************************************************************************)
(* get_akshare_collection_status, get_tushare_readiness: the latest log of *)
(* an endpoint, then its last success, then its last failure.              *)
(***************************************************************************)
ViewedEndpoint == Plan[1]

ViewLatest ==
    /\ Viewer /\ view.pc = "idle"
    /\ view' = [NoView EXCEPT !.pc = "latest",
                    !.latest = LatestFetchLog(ViewedEndpoint, {"success", "failure"})]
    /\ UNCHANGED <<clock, snapshots, logs, checks, task, summaries, starts, errors>>

\* The log and its check were committed together, so the check of the latest log
\* needs no step of its own.
ViewLastSuccess ==
    /\ view.pc = "latest"
    /\ view' = [view EXCEPT !.pc = "success",
                    !.success = LatestFetchLog(ViewedEndpoint, {"success"})]
    /\ UNCHANGED <<clock, snapshots, logs, checks, task, summaries, starts, errors>>

ViewLastFailure ==
    /\ view.pc = "success"
    /\ view' = [view EXCEPT !.pc = "done",
                    !.failure = LatestFetchLog(ViewedEndpoint, {"failure"})]
    /\ UNCHANGED <<clock, snapshots, logs, checks, task, summaries, starts, errors>>

ViewAgain ==
    /\ view.pc = "done"
    /\ view' = NoView
    /\ UNCHANGED <<clock, snapshots, logs, checks, task, summaries, starts, errors>>

Work(c) == \/ Fetch(c) \/ FlushSnapshot(c) \/ AddLog(c) \/ CommitAttempt(c)
           \/ ReadSnapshot(c) \/ ReadOwnCheck(c) \/ ReadEndpointCheck(c)
View == ViewLatest \/ ViewLastSuccess \/ ViewLastFailure \/ ViewAgain

Next == \/ \E c \in Collectors : StartCollection(c) \/ Work(c) \/ Interrupt(c)
        \/ View

Spec == Init /\ [][Next]_vars

\* The event loop of a worker runs its task on; nothing makes a view happen.
FairSpec == Spec /\ \A c \in Collectors : WF_vars(Work(c))

-----------------------------------------------------------------------------
TypeOK ==
    /\ clock \in Nat
    /\ starts \in 0..MaxStarts /\ errors \in 0..MaxErrors
    /\ \A s \in snapshots : s.endpoint \in Endpoints /\ s.at \in 1..clock
    /\ \A l \in logs : l.endpoint \in Endpoints /\ l.result \in {"success", "failure"}
    /\ \A k \in checks : k.status \in {"ok", "degraded", "failed"}
    /\ \A c \in Collectors :
        /\ task[c].pc \in {"idle", "fetch", "flush", "log", "commit",
                           "scan", "own", "endpoint"}
        /\ task[c].i \in 1..Len(Plan)

\* Wherever a collection is cut off, what it leaves is whole: a snapshot has its
\* log and its check, a log its check, and a check says what its attempt was.
AttemptsAreWhole ==
    /\ \A s \in snapshots :
        /\ \E l \in logs : l.at = s.at /\ l.endpoint = s.endpoint /\ l.rows = s.rows
        /\ \E k \in checks : k.snapshot = s.at
    /\ \A l \in logs : \E k \in checks :
        /\ k.log = l.fin /\ k.at = l.at
        /\ l.result = "failure" <=> k.status = "failed"

\* The scan of a collecting task takes data older than its own attempt for sound
\* only when another collector's newer snapshot came between the two reads of it:
\* otherwise it has the snapshot of this attempt, a newer one, or the failure.
OldDataIsMarked ==
    \A s \in summaries :
        s.snapshot >= s.attempt \/ s.status = "failed" \/ s.newer

\* However attempts commit between its statements, a status view never shows a
\* last success or failure older than the latest attempt of that result it shows.
ViewsAreCoherent ==
    view.pc = "done" =>
        \A l \in view.latest :
            IF l.result = "success" THEN \E s \in view.success : s.fin >= l.fin
            ELSE \E f \in view.failure : f.fin >= l.fin

\* The tables, the summaries of the scans and a status view, however collections overlap,
\* fail between two commits and run again (_record_success, _record_failure).
CollectionsAreWhole == TypeOK /\ AttemptsAreWhole /\ OldDataIsMarked /\ ViewsAreCoherent

AtRest(c) == task[c].pc = "idle"
=============================================================================
