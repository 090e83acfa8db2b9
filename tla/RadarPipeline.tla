---------------------------- MODULE RadarPipeline ----------------------------
(***************************************************************************)
(* The beat and the workers (tasks/celery_app.py): each tick of the beat   *)
(* is a message whose task collects, scans and pushes in one go; a task    *)
(* that raises is sent again, all three parts of it, at most three times.  *)
(* Messages are acknowledged late (task_acks_late): when the whole worker  *)
(* dies those under way come back.  But when a process of its prefork pool *)
(* dies alone, the worker acknowledges the message, for                    *)
(* task_reject_on_worker_lost is not set: the task has failed and nobody   *)
(* repeats it.  That a retry is sent and its message acknowledged is one   *)
(* step here.  What happens inside a collection, a scan and a push is in   *)
(* ProviderCollection, RadarScan and TelegramPush; here each is what the   *)
(* others see of it.                                                       *)
(***************************************************************************)
EXTENDS Integers, Sequences, FiniteSets, SequencesExt

CONSTANTS Workers,     \* processes the pool of the worker may have
          MAX_RETRIES, \* retry_kwargs
          MaxBeats,
          MaxDeaths    \* of a process of the pool under its task, or of the whole worker

\* Assumed of the constants by the modules that give them values.
PipelineAssumption == MAX_RETRIES \in Nat /\ MaxBeats \in Nat /\ MaxDeaths \in Nat

VARIABLES up,        \* the processes there are: Celery takes one for each processor
          beats,     \* ticks of the schedule so far
          queue,     \* messages that wait, in any order: retries come back after a delay
          worker,    \* what each process does
          data,      \* there are market snapshots
          batches,   \* radar_scan_batches in the order they were started
          logged,    \* batch -> what push_logs says of its message: "sent", "failed" or nothing
          ended,     \* tasks that ended, well, given up or lost, with the batch of the last attempt
          kills, restarts
vars == <<up, beats, queue, worker, data, batches, logged, ended, kills, restarts>>

Message == [tick : 1 .. MaxBeats, retries : 0 .. MAX_RETRIES, copy : 0 .. MaxDeaths]
Idle == [pc |-> "idle"]
\* a batch without data is offered no more than one that failed
Outcomes == {"success", "failure"}
\* the processes of the pool are alike
AlikeWorkers == Permutations(Workers)

TypeOK ==
    /\ up \subseteq Workers /\ beats \in 0 .. MaxBeats /\ queue \subseteq Message
    /\ data \in BOOLEAN /\ kills \in 0 .. MaxDeaths /\ restarts \in 0 .. MaxDeaths
    /\ \A w \in Workers : worker[w] = Idle \/
          /\ w \in up /\ worker[w].pc \in {"collect", "open", "scan", "push", "ack"} /\ worker[w].msg \in Message
          /\ worker[w].batch \in 0 .. Len(batches)
    /\ \A b \in DOMAIN batches : batches[b].status \in Outcomes \cup {"running"}
    /\ \A b \in DOMAIN logged : b \in DOMAIN batches /\ logged[b] \in {"sent", "failed"}

Init ==
    /\ up \in SUBSET Workers \ {{}}
    /\ beats = 0 /\ queue = {} /\ worker = [w \in Workers |-> Idle] /\ data = FALSE /\ batches = <<>>
    /\ logged = <<>> /\ ended = <<>> /\ kills = 0 /\ restarts = 0

Beat ==
    /\ beats < MaxBeats
    /\ beats' = beats + 1
    /\ queue' = queue \cup {[tick |-> beats + 1, retries |-> 0, copy |-> 0]}
    /\ UNCHANGED <<up, worker, data, batches, logged, ended, kills, restarts>>

Take(w, msg) ==
    /\ w \in up /\ worker[w].pc = "idle"
    /\ queue' = queue \ {msg}
    /\ worker' = [worker EXCEPT ![w] = [pc |-> "collect", msg |-> msg, batch |-> 0]]
    /\ UNCHANGED <<up, beats, data, batches, logged, ended, kills, restarts>>

\* a collection whose endpoints fail is a success that leaves the old snapshots
Collect(w, found) ==
    /\ worker[w].pc = "collect"
    /\ data' = (data \/ found)
    /\ worker' = [worker EXCEPT ![w].pc = "open"]
    /\ UNCHANGED <<up, beats, queue, batches, logged, ended, kills, restarts>>
OpenBatch(w) ==
    /\ worker[w].pc = "open"
    /\ batches' = Append(batches, [tick |-> worker[w].msg.tick, status |-> "running"])
    /\ worker' = [worker EXCEPT ![w].pc = "scan", ![w].batch = Len(batches) + 1]
    /\ UNCHANGED <<up, beats, queue, data, logged, ended, kills, restarts>>
\* an error in the rules is recorded with the batch and does not end the task
EndScan(w, status) ==
    /\ worker[w].pc = "scan"
    /\ status = "success" => data
    /\ batches' = [batches EXCEPT ![worker[w].batch].status = status]
    /\ worker' = [worker EXCEPT ![w].pc = "push"]
    /\ UNCHANGED <<up, beats, queue, data, logged, ended, kills, restarts>>

Finish(w, how) ==
    /\ worker' = [worker EXCEPT ![w] = Idle]
    /\ ended' = Append(ended, [tick |-> worker[w].msg.tick, how |-> how, batch |-> worker[w].batch])
\* mutant: one message for each tick of the beat
OncePerTick(w, result) ==
    LET b == Len(batches) IN
    /\ worker[w].pc = "push"
    /\ logged' = IF batches[b].status # "success" \/ \E c \in DOMAIN logged : batches[c].tick = batches[b].tick
                 THEN logged
                 ELSE [c \in DOMAIN logged \cup {b} |-> IF c = b THEN result ELSE logged[c]]
    /\ worker' = [worker EXCEPT ![w].pc = "ack"]
    /\ UNCHANGED <<up, beats, queue, data, batches, ended, kills, restarts>>
\* The latest batch, if it succeeded and is not logged as sent; a refused message is
\* logged as failed and the task ends well.
Push(w, result) ==
    LET b == Len(batches) IN
    /\ worker[w].pc = "push"
    /\ logged' = IF batches[b].status # "success" \/ (b \in DOMAIN logged /\ logged[b] = "sent")
                 THEN logged
                 ELSE [c \in DOMAIN logged \cup {b} |-> IF c = b THEN result ELSE logged[c]]
    /\ worker' = [worker EXCEPT ![w].pc = "ack"]
    /\ UNCHANGED <<up, beats, queue, data, batches, ended, kills, restarts>>
Acknowledge(w) ==
    /\ worker[w].pc = "ack"
    /\ Finish(w, "done")
    /\ UNCHANGED <<up, beats, queue, data, batches, logged, kills, restarts>>

\* The database fails: a scan that is under way is marked failed at best.
Raise(w) ==
    /\ worker[w].pc \notin {"idle", "ack"}
    /\ \E marked \in BOOLEAN :
          batches' = IF worker[w].pc = "scan" /\ marked
                     THEN [batches EXCEPT ![worker[w].batch].status = "failure"] ELSE batches
    /\ IF worker[w].msg.retries < MAX_RETRIES
       THEN /\ queue' = queue \cup {[worker[w].msg EXCEPT !.retries = @ + 1]}
            /\ worker' = [worker EXCEPT ![w] = Idle]
            /\ UNCHANGED ended
       ELSE Finish(w, "given_up") /\ UNCHANGED queue
    /\ UNCHANGED <<up, beats, data, logged, kills, restarts>>

\* A process of the pool dies: WorkerLostError, and its message is acknowledged.
Kill(w) ==
    /\ worker[w].pc # "idle" /\ kills + restarts < MaxDeaths
    /\ kills' = kills + 1
    /\ Finish(w, "lost")
    /\ UNCHANGED <<up, beats, queue, data, batches, logged, restarts>>

\* mutant: acknowledged when taken
AcksEarly ==
    /\ kills + restarts < MaxDeaths
    /\ restarts' = restarts + 1
    /\ worker' = [w \in Workers |-> Idle]
    /\ UNCHANGED <<up, beats, queue, data, batches, logged, ended, kills>>
\* The worker dies and starts again (restart: unless-stopped): Redis delivers again
\* what it had not acknowledged.
Redelivered == {[worker[w].msg EXCEPT !.copy = @ + 1] : w \in {v \in Workers : worker[v].pc # "idle"}}
Restart ==
    /\ kills + restarts < MaxDeaths
    /\ restarts' = restarts + 1
    /\ queue' = queue \cup Redelivered
    /\ worker' = [w \in Workers |-> Idle]
    /\ UNCHANGED <<up, beats, data, batches, logged, ended, kills>>

Step(w) ==
    \/ \E found \in BOOLEAN : Collect(w, found)
    \/ OpenBatch(w)
    \/ \E s \in Outcomes : EndScan(w, s)
    \/ \E r \in {"sent", "failed"} : Push(w, r)
    \/ Acknowledge(w)
Run(w) == (\E msg \in queue : Take(w, msg)) \/ Step(w)
Next == Beat \/ Restart \/ \E w \in Workers : Run(w) \/ Raise(w) \/ Kill(w)
Spec == Init /\ [][Next]_vars
\* a worker that is up takes messages and goes on with its task
FairSpec == Spec /\ \A w \in Workers : WF_vars(Run(w))

-----------------------------------------------------------------------------
AttemptsOf(tick) == {b \in DOMAIN batches : batches[b].tick = tick}

\* However often collection, scan or push fail, one tick of the beat adds at most one
\* batch for its first attempt, each retry and each time the worker died under it.
RepeatsAreBounded ==
    \A t \in 1 .. beats : Cardinality(AttemptsOf(t)) <= 1 + MAX_RETRIES + restarts

\* No tick is forgotten: it waits, is under way or has ended, and those lost without an
\* answer of their task are no more than the processes that died under one.
TickEnded(t) == \E i \in DOMAIN ended : ended[i].tick = t
NoTickIsForgotten ==
    /\ \A t \in 1 .. beats :
          \/ \E msg \in queue : msg.tick = t
          \/ \E w \in Workers : worker[w] # Idle /\ worker[w].msg.tick = t
          \/ TickEnded(t)
    /\ Cardinality({i \in DOMAIN ended : ended[i].how = "lost"}) <= kills

\* With a single process, a task that ended well has offered the chat the very batch it
\* scanned, whatever earlier attempts and ticks left behind.
DoneTickWasPushed ==
    \A i \in DOMAIN ended :
        ended[i].how = "done" /\ batches[ended[i].batch].status = "success" =>
            ended[i].batch \in DOMAIN logged

\* With several processes a scan may be hidden by a newer one that is still running,
\* but when all is quiet the newest batch has been offered, unless its tick was given up
\* or lost with its process.
NewestIsOffered ==
    (queue = {} /\ \A w \in Workers : worker[w].pc = "idle") /\ batches # <<>>
        /\ Last(batches).status = "success"
        /\ (\A i \in DOMAIN ended : ended[i].tick = Last(batches).tick => ended[i].how = "done") =>
        Len(batches) \in DOMAIN logged

\* What the scheduled work keeps to, whoever overlaps, raises or dies: the attempts at a
\* tick are bounded, no tick is forgotten, the newest scan is offered, and a single
\* process pushes what it has scanned (collect_and_run_radar_task, its retry_kwargs and
\* task_acks_late in tasks/celery_app.py).
PushesFollowScans ==
    /\ TypeOK /\ RepeatsAreBounded /\ NoTickIsForgotten /\ NewestIsOffered
    /\ (\A v, w \in up : v = w) => DoneTickWasPushed

Ticked(t) == beats >= t
=============================================================================
