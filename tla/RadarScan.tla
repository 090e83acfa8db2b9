------------------------------ MODULE RadarScan ------------------------------
(***************************************************************************)
(* run_radar_scan (radar/service.py) as Celery workers, the API and the    *)
(* command line execute it, several at a time, each in its own session     *)
(* over one PostgreSQL database (READ COMMITTED).                          *)
(*                                                                         *)
(* A scan writes in two transactions.  The first commits its batch with    *)
(* status "running".  The second reads the snapshots, adds a signal for    *)
(* each candidate, whose continuity it computes from the signals it can    *)
(* see, and ends by setting the final status.  The exceptions of the       *)
(* second one have two handlers, one for SQLAlchemyError and one for the   *)
(* rest.  created is the database's now(), the start of the second         *)
(* transaction; started is the clock of the worker before the first.       *)
(*                                                                         *)
(* A definition marked "mutant" is a plausible mistake in the definition   *)
(* that follows it; nothing uses it but the tests of the properties.       *)
(***************************************************************************)
EXTENDS Integers, FiniteSets, Sequences

CONSTANTS
    Workers,       \* sessions that execute scans
    Batches,       \* radar_scan_batches.id
    Keys,          \* signal_key: provider, endpoint and subject
    Trigger,       \* radar_continuous_p1_trigger_count
    Window,        \* radar_continuity_window_minutes, in ticks
    HistoryLimit,  \* the limit of _load_signal_history
    MaxSignals,    \* MAX_SIGNALS_PER_SCAN
    MaxTime,       \* bound on the clock
    MaxErrors,     \* bound on the exceptions explored
    MaxLosses,     \* bound on scans given up without an outcome: see losses
    MaxLate        \* bound on commits the server decides after the client gave up

None == 0                        \* no batch

ASSUME IdsAssumption == Batches \subseteq Nat \ {None}
ASSUME SettingsAssumption ==
    /\ Trigger \in Nat \ {0} /\ Window \in Nat
    /\ HistoryLimit \in Nat /\ MaxSignals \in Nat
ASSUME BoundsAssumption ==
    /\ MaxTime \in Nat /\ MaxErrors \in Nat
    /\ MaxLosses \in Nat /\ MaxLate \in Nat

Priorities == {"P0", "P1", "P2"}
Outcomes == {"success", "no_data", "failure"}
Statuses == {"absent", "running"} \cup Outcomes

Candidate == [key: Keys, priority: Priorities]
Signal == [id: Nat \ {0}, batch: Batches, key: Keys, priority: Priorities,
           created: 0..MaxTime, count: Nat, quick: BOOLEAN]
Batch == [status: Statuses, started: 0..MaxTime, sources: BOOLEAN]
Phases == {"idle", "stamped", "load", "scan", "dberror", "mark", "error", "reload"}
Task == [pc: Phases, batch: Batches \cup {None}, started: 0..MaxTime,
         created: 0..MaxTime, sources: BOOLEAN, todo: Seq(Candidate)]
LateCommit == [batch: Batches, sources: BOOLEAN, rows: SUBSET Signal]

VARIABLES
    now,      \* the clock
    batch,    \* radar_scan_batches, committed
    signals,  \* radar_signals, committed
    task,     \* the local state of each worker
    pending,  \* the flushed signals of each worker's session
    late,     \* commits still undecided on the server
    lastId,   \* the sequence of radar_signals.id
    errors,   \* exceptions that a handler meets, or that leave no batch behind
    losses,   \* deaths, answers of the first commit and records of a failure that got lost
    lates     \* commits of the second transaction left to the server

spent == <<errors, losses, lates>>
vars == <<now, batch, signals, task, pending, late, lastId, spent>>

NoTask == [pc |-> "idle", batch |-> None, started |-> 0, created |-> 0,
           sources |-> FALSE, todo |-> <<>>]
NoBatch == [status |-> "absent", started |-> 0, sources |-> FALSE]

Init ==
    /\ now = 0
    /\ batch = [b \in Batches |-> NoBatch]
    /\ signals = {}
    /\ task = [w \in Workers |-> NoTask]
    /\ pending = [w \in Workers |-> {}]
    /\ late = {}
    /\ lastId = 0
    /\ errors = 0 /\ losses = 0 /\ lates = 0

-----------------------------------------------------------------------------
(***************************************************************************)
(* Candidates and their continuity.                                        *)
(***************************************************************************)
Rank(priority) == CASE priority = "P0" -> 0
                    [] priority = "P1" -> 1
                    [] priority = "P2" -> 2

\* What _build_signal_candidates can return: by priority, at most MaxSignals.
CandidateLists ==
    {list \in UNION {[1..n -> Candidate] : n \in 0..MaxSignals} :
        \A i, j \in DOMAIN list :
            i < j => Rank(list[i].priority) <= Rank(list[j].priority)}

\* ORDER BY created_at DESC, id DESC: x comes before y.
Newer(x, y) == \/ x.created > y.created
               \/ x.created = y.created /\ x.id > y.id

\* The flushed signals of other sessions are seen too.
DirtySignalHistory(w, k) ==                                  \* mutant
    LET rows == {x \in signals \cup UNION {pending[v] : v \in Workers} : x.key = k}
    IN  {x \in rows : Cardinality({y \in rows : Newer(y, x)}) < HistoryLimit}

\* The newest signals of a key that a session sees: committed, or its own.
SignalHistory(w, k) ==
    LET rows == {x \in signals \cup pending[w] : x.key = k}
    IN  {x \in rows : Cardinality({y \in rows : Newer(y, x)}) < HistoryLimit}

WithinContinuityWindow(created, scannedAt) == scannedAt - created <= Window

\* Counts every P1 of the window, consecutive or not.
CountOfAllP1(history, priority, scannedAt) ==                \* mutant
    IF priority # "P1" THEN 0
    ELSE 1 + Cardinality({x \in history :
                /\ x.priority = "P1"
                /\ WithinContinuityWindow(x.created, scannedAt)})

\* The loop over history breaks at the first signal that is no P1 or too old.
ConsecutiveP1Count(history, priority, scannedAt) ==
    LET Goes(x) == /\ x.priority = "P1"
                   /\ WithinContinuityWindow(x.created, scannedAt)
    IN  IF priority # "P1" THEN 0
        ELSE 1 + Cardinality({x \in history :
                    \A y \in history : y = x \/ Newer(y, x) => Goes(y)})

-----------------------------------------------------------------------------
Continue(w, t) == task' = [task EXCEPT ![w] = t]
Rollback(w) == pending' = [pending EXCEPT ![w] = {}]

\* The scan is over for this worker: it returns, raises, or is gone.
Leave(w) == Continue(w, NoTask)

\* The number of batches bounds the number of scans.
StartScan(w) ==
    /\ task[w].pc = "idle"
    /\ Cardinality({v \in Workers : task[v].pc = "stamped"})
         < Cardinality({b \in Batches : batch[b].status = "absent"})
    /\ Continue(w, [NoTask EXCEPT !.pc = "stamped", !.started = now])
    /\ UNCHANGED <<now, batch, signals, pending, late, lastId, spent>>

\* The id is read before the flush that assigns it.
OpenBatchWithoutId(w) ==                                     \* mutant
    /\ task[w].pc = "stamped"
    /\ \E b \in Batches :
        /\ batch[b].status = "absent"
        /\ batch' = [batch EXCEPT ![b] = [status |-> "running", sources |-> FALSE,
                                          started |-> task[w].started]]
        /\ Continue(w, [task[w] EXCEPT !.pc = "load", !.batch = None])
    /\ UNCHANGED <<now, signals, pending, late, lastId, spent>>

\* The first transaction is applied: batch b is visible as running.
Insert(w, b) ==
    /\ batch[b].status = "absent"
    /\ \A c \in Batches : c < b => batch[c].status # "absent"
    /\ batch' = [batch EXCEPT ![b] = [status |-> "running", sources |-> FALSE,
                                      started |-> task[w].started]]

OpenBatch(w) ==
    /\ task[w].pc = "stamped"
    /\ \E b \in Batches :
        /\ Insert(w, b)
        /\ Continue(w, [task[w] EXCEPT !.pc = "load", !.batch = b])
    /\ UNCHANGED <<now, signals, pending, late, lastId, spent>>

\* The snapshots and their quality are read and the candidates built; without
\* a snapshot there is no candidate.
LoadSources(w) ==
    /\ task[w].pc = "load"
    /\ \E found \in BOOLEAN, list \in CandidateLists :
        /\ list # <<>> => found
        /\ Continue(w, [task[w] EXCEPT !.pc = "scan", !.created = now,
                                       !.sources = found, !.todo = list])
    /\ UNCHANGED <<now, batch, signals, pending, late, lastId, spent>>

\* _candidate_continuity and _new_signal.
NewSignal(w, c) ==
    LET count == ConsecutiveP1Count(SignalHistory(w, c.key), c.priority,
                                    task[w].started)
    IN  [id |-> lastId + 1, batch |-> task[w].batch, key |-> c.key,
         priority |-> c.priority, created |-> task[w].created,
         count |-> count, quick |-> count >= Trigger]

\* The head of the list: its history is read, its signal is flushed.
AddCandidate(w) ==
    /\ task[w].pc = "scan" /\ task[w].todo # <<>>
    /\ pending' = [pending EXCEPT ![w] = @ \cup {NewSignal(w, Head(task[w].todo))}]
    /\ lastId' = lastId + 1
    /\ Continue(w, [task[w] EXCEPT !.todo = Tail(@)])
    /\ UNCHANGED <<now, batch, signals, late, spent>>

\* The server applies the second transaction of batch b.
Apply(b, sources, rows) ==
    /\ batch' = [batch EXCEPT ![b].status = IF rows = {} THEN "no_data" ELSE "success",
                              ![b].sources = sources]
    /\ signals' = signals \cup rows

Committing(w) == task[w].pc = "scan" /\ task[w].todo = <<>>

CommitScan(w) ==
    /\ Committing(w)
    /\ Apply(task[w].batch, task[w].sources, pending[w])
    /\ Rollback(w)
    /\ Continue(w, [task[w] EXCEPT !.pc = "reload"])
    /\ UNCHANGED <<now, late, lastId, spent>>

\* get_radar_scan, and the return.
ReloadScan(w) ==
    /\ task[w].pc = "reload"
    /\ Leave(w)
    /\ UNCHANGED <<now, batch, signals, pending, late, lastId, spent>>

-----------------------------------------------------------------------------
(***************************************************************************)
(* Exceptions.                                                             *)
(***************************************************************************)
\* The first commit fails for the client although the server applies it, before or
\* after the client gives up.  It is outside the try: the exception ends the scan,
\* and nobody comes back to the batch.
OpenAnswerLost(w) ==
    /\ task[w].pc = "stamped" /\ losses < MaxLosses
    /\ losses' = losses + 1
    /\ \E b \in Batches : Insert(w, b)
    /\ Leave(w)
    /\ UNCHANGED <<now, signals, pending, late, lastId, errors, lates>>

\* The second commit fails for the client, after the server has applied it.
CommitAnswerLost(w) ==
    /\ Committing(w) /\ errors < MaxErrors
    /\ errors' = errors + 1
    /\ Apply(task[w].batch, task[w].sources, pending[w])
    /\ Rollback(w)
    /\ Continue(w, [task[w] EXCEPT !.pc = "dberror"])
    /\ UNCHANGED <<now, late, lastId, losses, lates>>

\* The connection is lost while the server is still working on the commit.
CommitAnswerLate(w) ==
    /\ Committing(w) /\ lates < MaxLate
    /\ lates' = lates + 1
    /\ late' = late \cup {[batch |-> task[w].batch, sources |-> task[w].sources,
                           rows |-> pending[w]]}
    /\ Rollback(w)
    /\ Continue(w, [task[w] EXCEPT !.pc = "dberror"])
    /\ UNCHANGED <<now, batch, signals, lastId, errors, losses>>

Lands(l) ==
    /\ l \in late
    /\ late' = late \ {l}
    /\ Apply(l.batch, l.sources, l.rows)
    /\ UNCHANGED <<now, task, pending, lastId, spent>>

Drops(l) ==
    /\ l \in late
    /\ late' = late \ {l}
    /\ UNCHANGED <<now, batch, signals, task, pending, lastId, spent>>

\* While it loads, a scan may have found its snapshots already.
SourcesSoFar(w) == IF task[w].pc = "load" THEN BOOLEAN ELSE {task[w].sources}

\* SQLAlchemyError: inside the try it is handled, before and after it is raised.
DatabaseError(w) ==
    /\ task[w].pc \in {"stamped", "load", "scan", "reload"} /\ errors < MaxErrors
    /\ errors' = errors + 1
    /\ Rollback(w)
    /\ IF task[w].pc \in {"load", "scan"}
       THEN \E found \in SourcesSoFar(w) :
                Continue(w, [task[w] EXCEPT !.pc = "dberror", !.sources = found])
       ELSE Leave(w)
    /\ UNCHANGED <<now, batch, signals, late, lastId, losses, lates>>

\* The handler covers the reload too.
OtherErrorInReload(w) ==                                     \* mutant
    /\ task[w].pc \in {"load", "scan", "reload"} /\ errors < MaxErrors
    /\ errors' = errors + 1
    /\ Rollback(w)
    /\ Continue(w, [task[w] EXCEPT !.pc = "error"])
    /\ UNCHANGED <<now, batch, signals, late, lastId, losses, lates>>

\* Any other exception of the computation, rolled back by its handler.
OtherError(w) ==
    /\ task[w].pc \in {"load", "scan"} /\ errors < MaxErrors
    /\ errors' = errors + 1
    /\ Rollback(w)
    /\ \E found \in SourcesSoFar(w) :
        Continue(w, [task[w] EXCEPT !.pc = "error", !.sources = found])
    /\ UNCHANGED <<now, batch, signals, late, lastId, losses, lates>>

SetFailure(w) ==
    batch' = [batch EXCEPT ![task[w].batch].status = "failure",
                           ![task[w].batch].sources = task[w].sources]

\* _record_scan_failure; the scan then returns the failed batch.
RecordScanFailure(w) ==
    /\ task[w].pc = "error"
    /\ SetFailure(w)
    /\ Continue(w, [task[w] EXCEPT !.pc = "reload"])
    /\ UNCHANGED <<now, signals, pending, late, lastId, spent>>

\* The failure is recorded whatever the batch's status is.
CheckNothing(w) ==                                           \* mutant
    /\ task[w].pc = "dberror"
    /\ Continue(w, [task[w] EXCEPT !.pc = "mark"])
    /\ UNCHANGED <<now, batch, signals, pending, late, lastId, spent>>

\* The status check is inverted.
CheckNotRunning(w) ==                                        \* mutant
    /\ task[w].pc = "dberror"
    /\ IF batch[task[w].batch].status = "running"
       THEN Leave(w)
       ELSE Continue(w, [task[w] EXCEPT !.pc = "mark"])
    /\ UNCHANGED <<now, batch, signals, pending, late, lastId, spent>>

\* _best_effort_record_scan_failure reads the batch again: only a running one
\* is to be marked.  Either way the exception is raised again.
CheckStillRunning(w) ==
    /\ task[w].pc = "dberror"
    /\ IF batch[task[w].batch].status = "running"
       THEN Continue(w, [task[w] EXCEPT !.pc = "mark"])
       ELSE Leave(w)
    /\ UNCHANGED <<now, batch, signals, pending, late, lastId, spent>>

\* Its UPDATE waits for the row lock of a commit that is still undecided, and
\* then applies to whatever that commit left.
MarkFailure(w) ==
    /\ task[w].pc = "mark"
    /\ \A l \in late : l.batch # task[w].batch
    /\ SetFailure(w)
    /\ Leave(w)
    /\ UNCHANGED <<now, signals, pending, late, lastId, spent>>

\* The worker dies, or the failure itself cannot be recorded.
Lose(w) ==
    /\ task[w].pc # "idle" /\ losses < MaxLosses
    /\ losses' = losses + 1
    /\ Rollback(w)
    /\ Leave(w)
    /\ UNCHANGED <<now, batch, signals, late, lastId, errors, lates>>

Tick ==
    /\ now < MaxTime
    /\ now' = now + 1
    /\ UNCHANGED <<batch, signals, task, pending, late, lastId, spent>>

\* All batches used up and every worker idle.
Quiescent ==
    /\ \A w \in Workers : task[w].pc = "idle"
    /\ \A b \in Batches : batch[b].status # "absent"
    /\ UNCHANGED vars

Scan(w) ==
    \/ OpenBatch(w) \/ LoadSources(w) \/ AddCandidate(w) \/ CommitScan(w)
    \/ ReloadScan(w) \/ RecordScanFailure(w) \/ CheckStillRunning(w)
    \/ MarkFailure(w)

Fail(w) ==
    \/ OpenAnswerLost(w) \/ CommitAnswerLost(w) \/ CommitAnswerLate(w)
    \/ DatabaseError(w) \/ OtherError(w) \/ Lose(w)

Server == \E l \in late : Lands(l) \/ Drops(l)

Next ==
    \/ \E w \in Workers : StartScan(w) \/ Scan(w) \/ Fail(w)
    \/ Server
    \/ Tick
    \/ Quiescent

Spec == Init /\ [][Next]_vars

\* The event loop executes a scan that was started; the server decides every
\* commit it received.  Nothing forces a scan to start, or time to pass.
Fairness == WF_vars(Server) /\ \A w \in Workers : WF_vars(Scan(w))
FairSpec == Spec /\ Fairness

-----------------------------------------------------------------------------
(***************************************************************************)
(* Properties.                                                             *)
(***************************************************************************)
\* The variables and every row, committed, pending or undecided, have their
\* types.
TypeOK ==
    /\ now \in 0..MaxTime
    /\ batch \in [Batches -> Batch]
    /\ signals \subseteq Signal
    /\ task \in [Workers -> Task]
    /\ pending \in [Workers -> SUBSET Signal]
    /\ late \subseteq LateCommit
    /\ lastId \in Nat
    /\ errors \in 0..MaxErrors /\ losses \in 0..MaxLosses /\ lates \in 0..MaxLate

\* A signal is in the database exactly when its batch ended in success: a
\* batch that failed, found nothing or is still running shows none, whatever
\* raised, wherever, and whether or not the answer of a commit arrived.
SignalsOnlyOfSuccess ==
    \A b \in Batches :
        (\E x \in signals : x.batch = b) <=> batch[b].status = "success"

\* That holds as long as no commit is decided after its client gave up.
OutcomesAreSound == lates = 0 => SignalsOnlyOfSuccess

\* Running batches that no worker is at: they stay so for good.
Orphans ==
    {b \in Batches : batch[b].status = "running"
                     /\ \A w \in Workers : task[w].batch = b => task[w].pc = "idle"}

\* An exception inside the try leaves no running batch behind, and what lies outside
\* of it at most one: there are never more running batches without a worker than
\* processes that died, first commits whose answer was lost, and failures that
\* could not be recorded.
RunningHasWorker == Cardinality(Orphans) <= losses

\* The count stored with a P1 is the truth about the stored rows, although it
\* was computed from what one session saw: the count - 1 signals of its key
\* just before it are P1 of its window, and the one before those is not, or is
\* beyond the limit of the history.  Holds when scans do not overlap.
PrecedingSignals(x) == {y \in signals : y.key = x.key /\ Newer(x, y)}
InStreakOf(x, y) ==
    y.priority = "P1" /\ batch[x.batch].started - y.created <= Window
StreakIsTrue(x) ==
    \E streak \in SUBSET PrecedingSignals(x) :
        LET rest == PrecedingSignals(x) \ streak
        IN  /\ Cardinality(streak) = x.count - 1
            /\ \A y \in streak : InStreakOf(x, y)
            /\ \A y \in streak, z \in rest : Newer(y, z)
            /\ \/ Cardinality(streak) = HistoryLimit
               \/ \A z \in rest : (\A y \in rest : ~Newer(y, z)) => ~InStreakOf(x, z)
CountsAreTrue == \A x \in signals : x.priority = "P1" => StreakIsTrue(x)

\* However scans overlap, a quick report candidate has enough other P1 signals
\* of its key in its window to show for it: none is counted that was rolled
\* back with the scan that added it.
QuickHasEvidence ==
    \A x \in signals : x.quick =>
        /\ x.priority = "P1"
        /\ Cardinality({y \in signals \ {x} : y.key = x.key /\ InStreakOf(x, y)})
             >= Trigger - 1

\* The batch has its final status, or its worker is gone without giving it one.
HasSettled(b) == batch[b].status # "running" \/ (b \in Orphans /\ losses > 0)

\* What the readers of the database see of all this: a board of batches.
Board == INSTANCE ScanBoard WITH
    status <- [b \in Batches |-> batch[b].status],
    content <- [b \in Batches |-> {x \in signals : x.batch = b}]

\* As long as no commit is decided after its client gave up, every step publishes
\* one batch's outcome together with all of its signals, once and for good, or
\* changes nothing the readers see.
ImplementsBoard ==
    Board!BoardInit /\ [][lates' = 0 => [Board!BoardNext]_(Board!boardVars)]_vars
=============================================================================
