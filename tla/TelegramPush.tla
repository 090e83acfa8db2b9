---------------------------- MODULE TelegramPush ----------------------------
(***************************************************************************)
(* send_latest_radar_push (telegram/push_service.py) as the Celery workers *)
(* and the API execute it: several runs of the same coroutine, each with   *)
(* its own SQLAlchemy session, over one PostgreSQL database (READ          *)
(* COMMITTED) and one Telegram chat per recipient.  One action is what a   *)
(* run does between two awaits that matter: a read whose result is used    *)
(* later, a flush, a commit, the network call.                             *)
(*                                                                         *)
(* A session's flushed but uncommitted rows are pending[r]; they become    *)
(* visible to the other runs at the next commit of that session, whoever   *)
(* asks for it: get_or_create_user and review_radar_signal commit in the   *)
(* middle of a run.  The rows are identified by the run, its attempt, the  *)
(* chat and, for a report, the signal, so that two rows which differ only  *)
(* by their primary key stay two rows.                                     *)
(*                                                                         *)
(* A definition marked "mutant" is a plausible mistake in the definition   *)
(* that follows it; nothing uses it but the tests of the properties.       *)
(***************************************************************************)
EXTENDS Integers, FiniteSets, Sequences

CONSTANTS
    Runs,        \* push executions: Celery tasks and POST /telegram/push/latest
    Scheduled,   \* those of Celery
    Configured,  \* the runs whose client has a bot token (settings differ per process)
    Chats,       \* Telegram chat ids
    OutsideUsers,\* chats whose user profile other requests may create meanwhile
    Signals,     \* radar_signals.id
    Scans,       \* radar_scan_batches, numbered by started_at, id
    SignalsOf,   \* the signals of each scan
    Priority,    \* the priority of each signal
    Verdict,     \* what evaluate_radar_signal answers for each (immutable) signal
    MaxActive,   \* how many runs may execute at the same time
    MaxTries,    \* attempts per run: 1 + max_retries of the Celery task
    MaxFaults    \* bound on the interruptions explored

None == 0                      \* no chat, no scan, no signal

ASSUME IdsAssumption ==
    /\ Chats \subseteq Int \ {None}
    /\ Signals \subseteq Nat \ {None}
    /\ Scans \subseteq Nat \ {None}
ASSUME DataAssumption ==
    /\ Configured \subseteq Runs /\ Scheduled \subseteq Runs
    /\ OutsideUsers \subseteq Chats
    /\ SignalsOf \in [Scans -> SUBSET Signals]
    /\ Priority \in [Signals -> {"P0", "P1", "P2"}]
    /\ Verdict \in [Signals -> {"approved", "needs_human_review", "blocked"}]
ASSUME BoundsAssumption ==
    /\ MaxActive \in Nat
    /\ MaxTries \in Nat \ {0}
    /\ MaxFaults \in Nat

Phases == {"idle", "review", "next", "create_user", "dedupe", "send", "log",
           "reports", "publish", "add_report", "done", "failed", "lost"}
Settled == {"idle", "done", "failed", "lost"}
Successful == {"sent", "preview"}

Task == [pc: Phases, try: 1..MaxTries, scan: Scans \cup {None}, dry: BOOLEAN,
         queue: SUBSET Chats, toReview: SUBSET Signals,
         included: SUBSET Signals, chat: Chats \cup {None},
         delivery: Successful \cup {"failed"}, p0Left: SUBSET Signals,
         signal: Signals \cup {None}]
PushLog == [run: Runs, try: 1..MaxTries, chat: Chats, scan: Scans,
            status: Successful \cup {"failed"}, signals: SUBSET Signals]
Report == [run: Runs, try: 1..MaxTries, chat: Chats, signal: Signals,
           status: {"generated", "needs_human_review"}]
Message == [run: Runs, try: 1..MaxTries, scan: Scans, signals: SUBSET Signals]

VARIABLES
    scans,         \* scan batches that exist; the latest one has the largest number
    readable,      \* scans whose signals are committed
    reviewStatus,  \* radar_signals.review_status
    users,         \* chats that have a user profile "telegram-<chat_id>"
    pushLogs,      \* committed rows of push_logs
    reports,       \* committed standard reports generated by the push
    inbox,         \* what each chat has received, in order
    task,          \* the local state of each run
    pending,       \* the uncommitted rows of each run's session
    faults         \* interruptions so far

store == <<reviewStatus, users, pushLogs, reports>>
vars == <<scans, readable, reviewStatus, users, pushLogs, reports, inbox,
          task, pending, faults>>

NoRows == [logs |-> {}, reports |-> {}]
Fresh(try) ==
    [pc |-> "idle", try |-> try, scan |-> None, dry |-> FALSE, queue |-> {},
     toReview |-> {}, included |-> {}, chat |-> None, delivery |-> "failed",
     p0Left |-> {}, signal |-> None]

Init ==
    /\ scans = {} /\ readable = {}
    /\ reviewStatus = [s \in Signals |-> "candidate"]
    /\ users = {} /\ pushLogs = {} /\ reports = {}
    /\ inbox = [c \in Chats |-> <<>>]
    /\ task = [r \in Runs |-> Fresh(1)]
    /\ pending = [r \in Runs |-> NoRows]
    /\ faults = 0

-----------------------------------------------------------------------------
Active == {r \in Runs : task[r].pc \notin Settled}
AnyOrder(x, S) == TRUE                                       \* mutant
IsLatest(x, S) == \A y \in S : y <= x
IsFirst(x, S) == \A y \in S : x <= y

\* session.commit() of run r; rollback is pending[r] back to NoRows.
Commit(r) ==
    /\ pushLogs' = pushLogs \cup pending[r].logs
    /\ reports' = reports \cup pending[r].reports
    /\ pending' = [pending EXCEPT ![r] = NoRows]

\* session.add() and flush() of new rows.
Add(r, logs, newReports) ==
    pending' = [pending EXCEPT ![r] = [logs |-> @.logs \cup logs,
                                       reports |-> @.reports \cup newReports]]

\* Run r goes on with local state t.
Continue(r, t) == task' = [task EXCEPT ![r] = t]

\* The run returns, or ends with an exception: its session is closed.
Leave(r, phase) == Continue(r, [Fresh(task[r].try) EXCEPT !.pc = phase])

\* What a SELECT of run r sees: READ COMMITTED plus its own flushed rows.
VisibleLogs(r) == pushLogs \cup pending[r].logs
VisibleReports(r) == reports \cup pending[r].reports

\* The rows the run builds from its local state.
CurrentLog(r) ==
    [run |-> r, try |-> task[r].try, chat |-> task[r].chat, scan |-> task[r].scan,
     status |-> task[r].delivery, signals |-> task[r].included]
CurrentReport(r) ==
    [run |-> r, try |-> task[r].try, chat |-> task[r].chat,
     signal |-> task[r].signal,
     status |-> IF Verdict[task[r].signal] = "needs_human_review"
                THEN "needs_human_review" ELSE "generated"]

ExistingPreviewLog(r) ==                                     \* mutant
    \E l \in VisibleLogs(r) : /\ l.chat = task[r].chat
                              /\ l.scan = task[r].scan
                              /\ l.status = "preview"
ExistingSuccessfulPushLog(r) ==
    \E l \in VisibleLogs(r) : /\ l.chat = task[r].chat
                              /\ l.scan = task[r].scan
                              /\ l.status \in Successful

FindExistingSignalReport(r, s) ==
    \E p \in VisibleReports(r) : p.chat = task[r].chat /\ p.signal = s

\* reviewed_signals once s has its verdict.
AfterReviewKeepingAll(reviewed, s) == reviewed \cup {s}      \* mutant
AfterReview(reviewed, s) ==
    IF Verdict[s] = "blocked" THEN reviewed ELSE reviewed \cup {s}

IncludedPushSignals(reviewed, dry) ==
    IF \/ dry
       \/ \E s \in reviewed : \/ Priority[s] \in {"P0", "P1"}
                              \/ Verdict[s] = "needs_human_review"
    THEN reviewed ELSE {}

P0SignalsOfAnyDelivery(included, delivery) ==                \* mutant
    {s \in included : Priority[s] = "P0"}
P0SignalsToReport(included, delivery) ==
    {s \in included : delivery \in Successful /\ Priority[s] = "P0"}

-----------------------------------------------------------------------------
(***************************************************************************)
(* The steps of one run.                                                   *)
(***************************************************************************)
CanStart(r) == task[r].pc = "idle" /\ Cardinality(Active) < MaxActive

\* Push disabled, no recipient, or no scan yet: an empty result, no effect.
ReturnEmpty(r) ==
    /\ CanStart(r)
    /\ Leave(r, "done")
    /\ UNCHANGED <<scans, readable, store, inbox, pending, faults>>

\* Recipients are resolved and the latest batch, whatever its status, is read.
Begin(r, recipients, dry) ==
    /\ CanStart(r)
    /\ recipients # {} \/ dry
    /\ \E k \in scans :
        /\ IsLatest(k, scans)
        /\ Continue(r, [task[r] EXCEPT !.pc = "review", !.scan = k, !.dry = dry,
                         !.queue = recipients,
                         !.toReview = IF k \in readable THEN SignalsOf[k] ELSE {}])
    /\ UNCHANGED <<scans, readable, store, inbox, pending, faults>>

\* review_radar_signal: the verdict is stored and the session committed.
ReviewSignal(r) ==
    /\ task[r].pc = "review"
    /\ \E s \in task[r].toReview :
        /\ IsLatest(s, task[r].toReview)
        /\ reviewStatus' = [reviewStatus EXCEPT ![s] = Verdict[s]]
        /\ Continue(r, [task[r] EXCEPT !.toReview = @ \ {s},
                                       !.included = AfterReview(@, s)])
    /\ Commit(r)
    /\ UNCHANGED <<scans, readable, users, inbox, faults>>

ComposeMessage(r) ==
    /\ task[r].pc = "review" /\ task[r].toReview = {}
    /\ LET included == IncludedPushSignals(task[r].included, task[r].dry)
       IN  IF \/ task[r].queue = {}
              \/ included = {} /\ ~task[r].dry
           THEN Leave(r, "done")
           ELSE Continue(r, [task[r] EXCEPT !.pc = "next", !.included = included])
    /\ UNCHANGED <<scans, readable, store, inbox, pending, faults>>

AfterUser(r) == IF task[r].dry THEN "next" ELSE "dedupe"

\* get_or_create_user, the SELECT.
NextRecipient(r) ==
    /\ task[r].pc = "next"
    /\ \E c \in task[r].queue :
        /\ IsFirst(c, task[r].queue)
        /\ Continue(r, [task[r] EXCEPT !.queue = @ \ {c}, !.chat = c,
                         !.pc = IF c \in users THEN AfterUser(r) ELSE "create_user"])
    /\ UNCHANGED <<scans, readable, store, inbox, pending, faults>>

\* The INSERT and its commit; when another session inserted the key since the
\* SELECT, the unique index raises IntegrityError and the run ends.
CreateUser(r) ==
    /\ task[r].pc = "create_user"
    /\ IF task[r].chat \in users
       THEN /\ Leave(r, "failed")
            /\ pending' = [pending EXCEPT ![r] = NoRows]
            /\ UNCHANGED <<users, pushLogs, reports>>
       ELSE /\ users' = users \cup {task[r].chat}
            /\ Commit(r)
            /\ Continue(r, [task[r] EXCEPT !.pc = AfterUser(r)])
    /\ UNCHANGED <<scans, readable, reviewStatus, inbox, faults>>

CheckDuplicate(r) ==
    /\ task[r].pc = "dedupe"
    /\ Continue(r, [task[r] EXCEPT !.pc =
                        IF ExistingSuccessfulPushLog(r) THEN "next" ELSE "send"])
    /\ UNCHANGED <<scans, readable, store, inbox, pending, faults>>

\* External: Telegram accepts the message or not; the answer may be lost after
\* delivery (timeout), which the client reports as a failure.
PossibleAnswer(r, result, delivered) ==
    /\ result = "preview" <=> r \notin Configured
    /\ result = "sent" => delivered
    /\ result = "preview" => ~delivered

SendMessage(r) ==
    /\ task[r].pc = "send"
    /\ \E result \in Successful \cup {"failed"}, delivered \in BOOLEAN :
        /\ PossibleAnswer(r, result, delivered)
        /\ Continue(r, [task[r] EXCEPT !.pc = "log", !.delivery = result])
        /\ inbox' = IF delivered
                    THEN [inbox EXCEPT ![task[r].chat] = Append(@,
                            [run |-> r, try |-> task[r].try, scan |-> task[r].scan,
                             signals |-> task[r].included])]
                    ELSE inbox
    /\ UNCHANGED <<scans, readable, store, pending, faults>>

\* The push log is added and flushed, not committed.
RecordPush(r) ==
    /\ task[r].pc = "log"
    /\ Add(r, {CurrentLog(r)}, {})
    /\ Continue(r, [task[r] EXCEPT !.pc = "reports",
                     !.p0Left = P0SignalsToReport(task[r].included, task[r].delivery)])
    /\ UNCHANGED <<scans, readable, store, inbox, faults>>

EnsureReportForever(r) ==                                    \* mutant
    /\ task[r].pc = "reports"
    /\ \E s \in task[r].p0Left :
        Continue(r, [task[r] EXCEPT !.signal = s,
                         !.pc = IF FindExistingSignalReport(r, s)
                                THEN "reports" ELSE "publish"])
    /\ UNCHANGED <<scans, readable, store, inbox, pending, faults>>

\* ensure_signal_report for the next P0 signal: keep an existing report.
EnsureReport(r) ==
    /\ task[r].pc = "reports"
    /\ \E s \in task[r].p0Left :
        /\ IsLatest(s, task[r].p0Left)
        /\ Continue(r, [task[r] EXCEPT !.p0Left = @ \ {s}, !.signal = s,
                         !.pc = IF FindExistingSignalReport(r, s)
                                THEN "reports" ELSE "publish"])
    /\ UNCHANGED <<scans, readable, store, inbox, pending, faults>>

\* _create_signal_report_for_user reviews again: this commits the session, and
\* with it the push log that commit=False was meant to keep with its report.
ReviewForReport(r) ==
    /\ task[r].pc = "publish"
    /\ LET s == task[r].signal
       IN  /\ reviewStatus' = [reviewStatus EXCEPT ![s] = Verdict[s]]
           /\ Continue(r, [task[r] EXCEPT !.pc = IF Verdict[s] = "blocked"
                                                  THEN "reports" ELSE "add_report"])
    /\ Commit(r)
    /\ UNCHANGED <<scans, readable, users, inbox, faults>>

\* The report is added and flushed.
AddReport(r) ==
    /\ task[r].pc = "add_report"
    /\ Add(r, {}, {CurrentReport(r)})
    /\ Continue(r, [task[r] EXCEPT !.pc = "reports"])
    /\ UNCHANGED <<scans, readable, store, inbox, faults>>

RecipientDone(r) ==
    /\ task[r].pc = "reports" /\ task[r].p0Left = {}
    /\ Continue(r, [task[r] EXCEPT !.pc = "next"])
    /\ UNCHANGED <<scans, readable, store, inbox, pending, faults>>

FinishWithoutCommit(r) ==                                    \* mutant
    /\ task[r].pc = "next" /\ task[r].queue = {}
    /\ pending' = [pending EXCEPT ![r] = NoRows]
    /\ Leave(r, "done")
    /\ UNCHANGED <<scans, readable, store, inbox, faults>>

\* The commit at the end of send_latest_radar_push.
Finish(r) ==
    /\ task[r].pc = "next" /\ task[r].queue = {}
    /\ Commit(r)
    /\ Leave(r, "done")
    /\ UNCHANGED <<scans, readable, reviewStatus, users, inbox, faults>>

-----------------------------------------------------------------------------
\* An exception, or the death of the process: the session rolls back.  A task whose
\* process of the pool died alone is lost (task_reject_on_worker_lost is not set); one
\* that raised, or whose whole worker died (task_acks_late), has failed an attempt.
Interrupt(r) ==
    /\ r \in Active /\ faults < MaxFaults
    /\ faults' = faults + 1
    /\ \E phase \in {"failed", "lost"} : Leave(r, phase)
    /\ pending' = [pending EXCEPT ![r] = NoRows]
    /\ UNCHANGED <<scans, readable, store, inbox>>

RetryOnceMore(r) ==                                          \* mutant
    /\ r \in Scheduled /\ task[r].pc = "failed" /\ task[r].try <= MaxTries
    /\ Continue(r, Fresh(task[r].try + 1))
    /\ UNCHANGED <<scans, readable, store, inbox, pending, faults>>

\* autoretry_for=(Exception,) and task_acks_late: the task is executed again.  Nobody
\* repeats a request to the API.
Retry(r) ==
    /\ r \in Scheduled /\ task[r].pc = "failed" /\ task[r].try < MaxTries
    /\ Continue(r, Fresh(task[r].try + 1))
    /\ UNCHANGED <<scans, readable, store, inbox, pending, faults>>

\* run_radar_scan in another process: the batch is committed as running first,
\* and its signals, with the final status, in a second transaction.  A batch
\* that started earlier than another may be inserted after it.
ScanStarts(k) ==
    /\ k \in Scans \ scans
    /\ scans' = scans \cup {k}
    /\ UNCHANGED <<readable, store, inbox, task, pending, faults>>

ScanCommits(k) ==
    /\ k \in scans \ readable
    /\ readable' = readable \cup {k}
    /\ UNCHANGED <<scans, store, inbox, task, pending, faults>>

\* Any other request that calls get_or_create_user for this chat's key.
OtherRequestCreatesUser(c) ==
    /\ c \in OutsideUsers \ users
    /\ users' = users \cup {c}
    /\ UNCHANGED <<scans, readable, reviewStatus, pushLogs, reports, inbox,
                   task, pending, faults>>

\* The run is over: it returned, was lost, or failed and is not executed again.
HasSettled(r) ==
    \/ task[r].pc \in {"done", "lost"}
    \/ task[r].pc = "failed" /\ (r \notin Scheduled \/ task[r].try = MaxTries)

\* Nothing is left to run: the only state the system may rest in.
Quiescent == (\A r \in Runs : HasSettled(r)) /\ UNCHANGED vars

\* The code of one run, from its start to its return.
Work(r) ==
    \/ ReviewSignal(r) \/ ComposeMessage(r) \/ NextRecipient(r)
    \/ CreateUser(r) \/ CheckDuplicate(r) \/ SendMessage(r) \/ RecordPush(r)
    \/ EnsureReport(r) \/ ReviewForReport(r) \/ AddReport(r)
    \/ RecipientDone(r) \/ Finish(r)

Start(r) ==
    \/ ReturnEmpty(r)
    \/ \E recipients \in SUBSET Chats, dry \in BOOLEAN : Begin(r, recipients, dry)

Environment ==
    \/ \E k \in Scans : ScanStarts(k) \/ ScanCommits(k)
    \/ \E c \in Chats : OtherRequestCreatesUser(c)

Next ==
    \/ \E r \in Runs : Start(r) \/ Work(r) \/ Interrupt(r) \/ Retry(r)
    \/ Environment
    \/ Quiescent

Spec == Init /\ [][Next]_vars

\* A run that started is executed to its end by its event loop, and Celery starts a
\* task again that failed and was not lost; nothing forces a first start, a scan or a
\* fault.
Restart(r) == task[r].try > 1 /\ Start(r)
Fairness ==
    \A r \in Runs : WF_vars(Work(r)) /\ WF_vars(Retry(r)) /\ WF_vars(Restart(r))
FairSpec == Spec /\ Fairness

-----------------------------------------------------------------------------
(***************************************************************************)
(* Properties.                                                             *)
(***************************************************************************)
\* The variables and every row, committed or pending, have their types.
TypeOK ==
    /\ scans \subseteq Scans /\ readable \subseteq scans
    /\ reviewStatus \in [Signals -> {"candidate", "approved",
                                     "needs_human_review", "blocked"}]
    /\ users \subseteq Chats
    /\ pushLogs \subseteq PushLog /\ reports \subseteq Report
    /\ inbox \in [Chats -> Seq(Message)]
    /\ task \in [Runs -> Task]
    /\ pending \in [Runs -> [logs: SUBSET PushLog, reports: SUBSET Report]]
    /\ faults \in 0..MaxFaults

\* A report generated by a push is never in the database without the log of
\* the delivery that triggered it, a delivery that included its P0 signal:
\* whatever is committed in the middle of a run, by whichever helper, and
\* wherever the run is interrupted.
Explains(l, p) == /\ l.run = p.run /\ l.try = p.try /\ l.chat = p.chat
                  /\ l.status \in Successful
                  /\ p.signal \in l.signals
                  /\ Priority[p.signal] = "P0"
NoReportWithoutPush == \A p \in reports : \E l \in pushLogs : Explains(l, p)

\* No chat ever receives a message that shows a signal whose review is not
\* committed, or was blocked: the review gate is passed before the network.
Publishable(s) == reviewStatus[s] \in {"approved", "needs_human_review"}
NothingUnreviewedLeaves ==
    \A c \in Chats : \A i \in DOMAIN inbox[c] :
        \A s \in inbox[c][i].signals : Publishable(s)

\* The committed logs and the chats tell the same story, although logs are committed
\* piecemeal, by helpers: a log that says "sent" is true, its chat received that message,
\* and a run that returned normally has a log for every message of its attempt.
SentLogIsTrue(l) ==
    \E i \in DOMAIN inbox[l.chat] :
        inbox[l.chat][i] = [run |-> l.run, try |-> l.try, scan |-> l.scan, signals |-> l.signals]
DeliveryIsLogged(r, c, m) ==
    m.run = r /\ m.try = task[r].try =>
        \E l \in pushLogs : l.run = r /\ l.try = m.try /\ l.chat = c /\ l.scan = m.scan
LogsMatchDeliveries ==
    /\ \A l \in pushLogs : l.status = "sent" => SentLogIsTrue(l)
    /\ \A r \in Runs : task[r].pc = "done" =>
          \A c \in Chats : \A i \in DOMAIN inbox[c] : DeliveryIsLogged(r, c, inbox[c][i])

\* A chat gets the message of a scan again only when no success was recorded
\* for the earlier one (its answer was lost, or its run was rolled back).
\* Holds when runs do not overlap, whatever is interrupted and retried.
RecordedSuccess(c, m) ==
    \E l \in pushLogs : /\ l.chat = c /\ l.status \in Successful
                        /\ l.run = m.run /\ l.try = m.try
RepeatsOnlyUnrecorded ==
    \A c \in Chats : \A i, j \in DOMAIN inbox[c] :
        i < j /\ inbox[c][i].scan = inbox[c][j].scan =>
            ~RecordedSuccess(c, inbox[c][i])

\* A push is skipped as a duplicate only when the push it duplicates has left
\* the standard report of each of its P0 signals: nobody will try again.
SkippedPushHasReports ==
    [][\A r \in Runs : task[r].pc = "dedupe" /\ task'[r].pc = "next" =>
        \A s \in task[r].included : Priority[s] = "P0" =>
            FindExistingSignalReport(r, s)]_vars

\* What all this is for, as the ledger of PushLedger: its variables are the
\* scans each chat received, the successful logs and the reports.
Ledger == INSTANCE PushLedger WITH
    received <- [c \in Chats |-> [i \in DOMAIN inbox[c] |-> inbox[c][i].scan]],
    ledger <- {<<l.chat, l.scan>> : l \in {x \in pushLogs : x.status \in Successful}},
    reported <- {<<p.chat, p.signal>> : p \in reports}

\* When runs do not overlap, every step of the push service is a step of the
\* ledger, or changes nothing the ledger shows, interruptions included.
ImplementsLedger == Ledger!LedgerSpec
=============================================================================
