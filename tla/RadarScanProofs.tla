-------------------------- MODULE RadarScanProofs --------------------------
(***************************************************************************)
(* Theorems about RadarScan, for every number of workers, batches and      *)
(* keys, every threshold and limit, and any number of exceptions.          *)
(***************************************************************************)
EXTENDS RadarScan, FiniteSetTheorems, TLAPS

USE DEF None

\* TypeOK is not inductive: a batch is used only in the phases in which the
\* worker has one, and a count is a number only because histories are finite.
Working == {"load", "scan", "dberror", "mark", "error", "reload"}
GoodTask(t) == t \in Task /\ (t.pc \in Working => t.batch \in Batches)
FiniteRows ==
    /\ IsFiniteSet(signals)
    /\ \A w \in Workers : IsFiniteSet(pending[w])
    /\ \A l \in late : IsFiniteSet(l.rows)
TypeInv == TypeOK /\ FiniteRows /\ \A w \in Workers : GoodTask(task[w])

\* Replacing one worker's local state by a good one keeps all of them good.
LEMMA ContinueGood ==
    ASSUME TypeInv, NEW w \in Workers, NEW t, GoodTask(t), Continue(w, t)
    PROVE  task' \in [Workers -> Task] /\ \A v \in Workers : GoodTask(task'[v])
<1>1. task \in [Workers -> Task] /\ t \in Task
  BY DEF TypeInv, TypeOK, GoodTask
<1>2. task' = [task EXCEPT ![w] = t]
  BY DEF Continue
<1>3. \A v \in Workers : task'[v] = IF v = w THEN t ELSE task[v]
  BY <1>1, <1>2
<1> QED
  BY <1>1, <1>2, <1>3 DEF TypeInv

\* A worker whose scan is over has no batch.
LEMMA LeaveGood ==
    ASSUME TypeInv, NEW w \in Workers, Leave(w)
    PROVE  task' \in [Workers -> Task] /\ \A v \in Workers : GoodTask(task'[v])
<1> DEFINE t == NoTask
<1>1. GoodTask(t)
  BY BoundsAssumption DEF NoTask, GoodTask, Task, Phases, Working
<1>2. Continue(w, t)
  BY DEF Leave
<1> HIDE DEF t
<1> QED
  BY <1>1, <1>2, ContinueGood

PendingType == [Workers -> SUBSET Signal]

\* A rollback, or a commit, leaves the session without flushed signals.
LEMMA RollbackType ==
    ASSUME TypeInv, NEW w \in Workers, Rollback(w)
    PROVE  pending' \in PendingType /\ \A v \in Workers : IsFiniteSet(pending'[v])
<1>1. pending \in PendingType
  BY DEF TypeInv, TypeOK, PendingType
<1>2. pending' = [pending EXCEPT ![w] = {}]
  BY DEF Rollback
<1>3. \A v \in Workers : pending'[v] = IF v = w THEN {} ELSE pending[v]
  BY <1>1, <1>2 DEF PendingType
<1>4. IsFiniteSet({})
  BY FS_EmptySet
<1>5. \A v \in Workers : IsFiniteSet(pending[v])
  BY DEF TypeInv, FiniteRows
<1>6. \A v \in Workers : IsFiniteSet(pending'[v])
  BY <1>3, <1>4, <1>5
<1>7. pending' \in PendingType
  BY <1>1, <1>2 DEF PendingType
<1> QED
  BY <1>6, <1>7

\* Applying the transaction of a batch keeps the tables typed and finite.
LEMMA ApplyType ==
    ASSUME TypeInv, NEW b \in Batches, NEW found \in BOOLEAN,
           NEW rows \in SUBSET Signal, IsFiniteSet(rows), Apply(b, found, rows)
    PROVE  /\ batch' \in [Batches -> Batch]
           /\ signals' \subseteq Signal
           /\ IsFiniteSet(signals')
<1>1. batch' \in [Batches -> Batch]
  <2>1. batch \in [Batches -> Batch]
    BY DEF TypeInv, TypeOK
  <2> DEFINE s == IF rows = {} THEN "no_data" ELSE "success"
  <2>2. s \in Statuses
    BY DEF Statuses, Outcomes
  <2>3. batch' = [batch EXCEPT ![b].status = s, ![b].sources = found]
    BY DEF Apply
  <2> HIDE DEF s
  <2> QED
    BY <2>1, <2>2, <2>3 DEF Batch
<1>2. signals' = signals \cup rows
  BY DEF Apply
<1>3. IsFiniteSet(signals')
  BY <1>2, FS_Union DEF TypeInv, FiniteRows
<1> QED
  BY <1>1, <1>2, <1>3 DEF TypeInv, TypeOK

\* Recording a failure keeps the batches typed.
LEMMA SetFailureType ==
    ASSUME TypeInv, NEW w \in Workers, task[w].pc \in Working, SetFailure(w)
    PROVE  batch' \in [Batches -> Batch]
<1>1. batch \in [Batches -> Batch]
  BY DEF TypeInv, TypeOK
<1>2. task[w].batch \in Batches /\ task[w].sources \in BOOLEAN
  BY DEF TypeInv, GoodTask, Task
<1> DEFINE b == task[w].batch
           found == task[w].sources
<1>3. batch' = [batch EXCEPT ![b].status = "failure", ![b].sources = found]
  BY DEF SetFailure
<1>4. "failure" \in Statuses
  BY DEF Statuses, Outcomes
<1> HIDE DEF b, found
<1>5. b \in Batches /\ found \in BOOLEAN
  BY <1>2 DEF b, found
<1> QED
  BY <1>1, <1>3, <1>4, <1>5 DEF Batch

\* The count of consecutive P1 signals over a finite history is a number.
LEMMA CountType ==
    ASSUME NEW history, IsFiniteSet(history), NEW priority, NEW scannedAt
    PROVE  ConsecutiveP1Count(history, priority, scannedAt) \in Nat
<1> DEFINE Goes(x) == x.priority = "P1" /\ WithinContinuityWindow(x.created, scannedAt)
           streak == {x \in history : \A y \in history : y = x \/ Newer(y, x) => Goes(y)}
<1>1. IsFiniteSet(streak)
  BY FS_Subset
<1>2. Cardinality(streak) \in Nat
  BY <1>1, FS_CardinalityType
<1>3. ConsecutiveP1Count(history, priority, scannedAt)
        = IF priority # "P1" THEN 0 ELSE 1 + Cardinality(streak)
  BY DEF ConsecutiveP1Count
<1> HIDE DEF streak
<1> QED
  BY <1>2, <1>3

\* The signal of the candidate at the head of the list is well typed.
LEMMA NewSignalType ==
    ASSUME TypeInv, NEW w \in Workers, task[w].pc = "scan", NEW c \in Candidate
    PROVE  NewSignal(w, c) \in Signal
<1> DEFINE history == SignalHistory(w, c.key)
           count == ConsecutiveP1Count(history, c.priority, task[w].started)
<1>1. IsFiniteSet(signals \cup pending[w])
  BY FS_Union DEF TypeInv, FiniteRows
<1>2. history \subseteq signals \cup pending[w]
  BY DEF SignalHistory
<1>3. IsFiniteSet(history)
  BY <1>1, <1>2, FS_Subset
<1>4. count \in Nat
  <2> HIDE DEF history
  <2> QED
    BY <1>3, CountType
<1>5. NewSignal(w, c) =
        [id |-> lastId + 1, batch |-> task[w].batch, key |-> c.key,
         priority |-> c.priority, created |-> task[w].created,
         count |-> count, quick |-> count >= Trigger]
  BY DEF NewSignal
<1>6. /\ lastId + 1 \in Nat \ {0}
      /\ task[w].batch \in Batches
      /\ task[w].created \in 0..MaxTime
  BY DEF TypeInv, TypeOK, GoodTask, Task, Working
<1>7. c.key \in Keys /\ c.priority \in Priorities
  BY DEF Candidate
<1> DEFINE quick == count >= Trigger
<1>8. quick \in BOOLEAN
  OBVIOUS
<1> HIDE DEF count, quick
<1>9. NewSignal(w, c) =
        [id |-> lastId + 1, batch |-> task[w].batch, key |-> c.key,
         priority |-> c.priority, created |-> task[w].created,
         count |-> count, quick |-> quick]
  BY <1>5 DEF quick
<1> QED
  BY <1>4, <1>6, <1>7, <1>8, <1>9 DEF Signal

-----------------------------------------------------------------------------
\* The initial state is well typed.
LEMMA TypeInit == Init => TypeInv
<1> SUFFICES ASSUME Init PROVE TypeInv
  OBVIOUS
<1>1. NoBatch \in Batch
  BY BoundsAssumption DEF NoBatch, Batch, Statuses
<1>2. GoodTask(NoTask)
  BY BoundsAssumption DEF NoTask, GoodTask, Task, Phases, Working
<1>3. batch \in [Batches -> Batch]
  BY <1>1 DEF Init
<1>4. /\ task \in [Workers -> Task]
      /\ \A w \in Workers : GoodTask(task[w])
  BY <1>2 DEF Init, GoodTask
<1>5. FiniteRows
  BY FS_EmptySet DEF Init, FiniteRows
<1>6. /\ now \in 0..MaxTime /\ signals \subseteq Signal
      /\ pending \in [Workers -> SUBSET Signal] /\ late \subseteq LateCommit
      /\ lastId \in Nat
      /\ errors \in 0..MaxErrors /\ losses \in 0..MaxLosses /\ lates \in 0..MaxLate
  BY BoundsAssumption DEF Init
<1> QED
  BY <1>3, <1>4, <1>5, <1>6 DEF TypeInv, TypeOK

\* The lists of candidates are sequences of candidates.
LEMMA ListsAreSequences == CandidateLists \subseteq Seq(Candidate)
BY SettingsAssumption DEF CandidateLists

\* A step that touches only the worker's local state.
LEMMA TypeLocal ==
    ASSUME TypeInv, NEW w \in Workers, NEW t, GoodTask(t), Continue(w, t),
           UNCHANGED <<now, batch, signals, pending, late, lastId, spent>>
    PROVE  TypeInv'
<1>1. task' \in [Workers -> Task] /\ \A v \in Workers : GoodTask(task'[v])
  BY ContinueGood
<1> QED
  BY <1>1 DEF TypeInv, TypeOK, FiniteRows, spent, GoodTask

\* A step that ends with the session rolled back or committed.
LEMMA TypeEnd ==
    ASSUME TypeInv, NEW w \in Workers, Rollback(w),
           task' \in [Workers -> Task], \A v \in Workers : GoodTask(task'[v]),
           batch' \in [Batches -> Batch], signals' \subseteq Signal, IsFiniteSet(signals'),
           late' \subseteq LateCommit, \A l \in late' : IsFiniteSet(l.rows),
           UNCHANGED <<now, lastId>>,
           errors' \in 0..MaxErrors, losses' \in 0..MaxLosses, lates' \in 0..MaxLate
    PROVE  TypeInv'
<1>1. pending' \in PendingType /\ \A v \in Workers : IsFiniteSet(pending'[v])
  BY RollbackType
<1>2. TypeOK'
  BY <1>1 DEF TypeInv, TypeOK, PendingType
<1>3. FiniteRows'
  BY <1>1 DEF FiniteRows
<1> QED
  BY <1>2, <1>3 DEF TypeInv, GoodTask

\* A batch that is inserted is running, and the others are untouched.
LEMMA InsertEffect ==
    ASSUME TypeInv, NEW w \in Workers, NEW b \in Batches, Insert(w, b)
    PROVE  /\ batch' \in [Batches -> Batch]
           /\ batch[b].status = "absent" /\ batch'[b].status = "running"
           /\ batch'[b].started = task[w].started
           /\ \A c \in Batches \ {b} : batch'[c] = batch[c]
<1>1. batch \in [Batches -> Batch] /\ task[w].started \in 0..MaxTime
  BY DEF TypeInv, TypeOK, Task
<1> DEFINE row == [status |-> "running", sources |-> FALSE, started |-> task[w].started]
<1>2. row \in Batch /\ row.status = "running" /\ row.started = task[w].started
  BY <1>1 DEF Batch, Statuses
<1>3. batch' = [batch EXCEPT ![b] = row] /\ batch[b].status = "absent"
  BY DEF Insert
<1> HIDE DEF row
<1> QED
  BY <1>1, <1>2, <1>3

\* Every step of every worker, of the server and of the clock keeps the types.
LEMMA TypeNext == TypeInv /\ [Next]_vars => TypeInv'
<1> SUFFICES ASSUME TypeInv, [Next]_vars PROVE TypeInv'
  OBVIOUS
<1> USE BoundsAssumption
<1>a. /\ TypeOK /\ FiniteRows
      /\ \A w \in Workers : task[w] \in Task /\ GoodTask(task[w])
  BY DEF TypeInv, GoodTask
<1>0. /\ batch \in [Batches -> Batch] /\ signals \subseteq Signal /\ IsFiniteSet(signals)
      /\ late \subseteq LateCommit /\ \A l \in late : IsFiniteSet(l.rows)
      /\ errors \in 0..MaxErrors /\ losses \in 0..MaxLosses /\ lates \in 0..MaxLate
  BY <1>a DEF TypeOK, FiniteRows
<1>1. ASSUME NEW w \in Workers, StartScan(w) PROVE TypeInv'
  <2> DEFINE t == [NoTask EXCEPT !.pc = "stamped", !.started = now]
  <2>0. now \in 0..MaxTime
    BY <1>a DEF TypeOK
  <2>1. GoodTask(t)
    <3>1. NoTask \in Task
      BY DEF NoTask, Task, Phases
    <3>2. t \in Task /\ t.pc = "stamped"
      BY <2>0, <3>1 DEF Task, Phases
    <3> QED
      BY <3>2 DEF GoodTask, Working
  <2>2. Continue(w, t)
    BY <1>1 DEF StartScan
  <2> HIDE DEF t
  <2> QED
    BY <1>1, <2>1, <2>2, TypeLocal DEF StartScan
<1>2. ASSUME NEW w \in Workers, OpenBatch(w) PROVE TypeInv'
  <2>1. PICK b \in Batches :
            /\ batch' = [batch EXCEPT ![b] = [status |-> "running", sources |-> FALSE,
                                              started |-> task[w].started]]
            /\ Continue(w, [task[w] EXCEPT !.pc = "load", !.batch = b])
    BY <1>2 DEF OpenBatch, Insert
  <2> DEFINE t == [task[w] EXCEPT !.pc = "load", !.batch = b]
  <2>2. GoodTask(t) /\ Continue(w, t)
    BY <1>a, <2>1 DEF GoodTask, Task, Phases
  <2> HIDE DEF t
  <2>3. task' \in [Workers -> Task] /\ \A v \in Workers : GoodTask(task'[v])
    BY <2>2, ContinueGood
  <2>4. batch' \in [Batches -> Batch]
    BY <1>0, <1>a, <2>1 DEF Batch, Task, Statuses
  <2> QED
    BY <1>2, <1>a, <2>3, <2>4 DEF OpenBatch, Insert, TypeInv, TypeOK, FiniteRows, spent, GoodTask
<1>3. ASSUME NEW w \in Workers, LoadSources(w) PROVE TypeInv'
  <2>1. PICK found \in BOOLEAN, list \in CandidateLists :
            Continue(w, [task[w] EXCEPT !.pc = "scan", !.created = now,
                                        !.sources = found, !.todo = list])
    BY <1>3 DEF LoadSources
  <2> DEFINE t == [task[w] EXCEPT !.pc = "scan", !.created = now,
                                  !.sources = found, !.todo = list]
  <2>2. list \in Seq(Candidate)
    BY ListsAreSequences
  <2>3. task[w].pc = "load"
    BY <1>3 DEF LoadSources
  <2>4. GoodTask(t) /\ Continue(w, t)
    BY <1>a, <2>1, <2>2, <2>3 DEF TypeOK, GoodTask, Task, Phases, Working
  <2> HIDE DEF t
  <2> QED
    BY <1>3, <2>4, TypeLocal DEF LoadSources
<1>4. ASSUME NEW w \in Workers, AddCandidate(w) PROVE TypeInv'
  <2> DEFINE c == Head(task[w].todo)
             x == NewSignal(w, c)
             t == [task[w] EXCEPT !.todo = Tail(@)]
  <2>1. /\ task[w].pc = "scan" /\ task[w].todo # <<>>
        /\ pending' = [pending EXCEPT ![w] = @ \cup {x}]
        /\ Continue(w, t)
    BY <1>4 DEF AddCandidate
  <2>2. c \in Candidate /\ Tail(task[w].todo) \in Seq(Candidate)
    BY <1>a, <2>1 DEF Task
  <2>3. GoodTask(t)
    BY <1>a, <2>1, <2>2 DEF GoodTask, Task
  <2> HIDE DEF c
  <2>4. x \in Signal
    BY <2>1, <2>2, NewSignalType
  <2> HIDE DEF t, x
  <2>5. task' \in [Workers -> Task] /\ \A v \in Workers : GoodTask(task'[v])
    BY <2>1, <2>3, ContinueGood
  <2>6. pending \in [Workers -> SUBSET Signal]
    BY <1>a DEF TypeOK
  <2>7. pending' \in [Workers -> SUBSET Signal]
    BY <2>1, <2>4, <2>6
  <2>8. \A v \in Workers : IsFiniteSet(pending'[v])
    <3>1. IsFiniteSet(pending[w] \cup {x})
      BY <1>a, FS_AddElement DEF FiniteRows
    <3>2. \A v \in Workers : pending'[v] = IF v = w THEN pending[w] \cup {x} ELSE pending[v]
      BY <2>1, <2>6
    <3> QED
      BY <1>a, <3>1, <3>2 DEF FiniteRows
  <2>9. UNCHANGED <<now, batch, signals, late, spent>> /\ lastId' = lastId + 1
    BY <1>4 DEF AddCandidate
  <2>10. TypeOK'
    BY <1>a, <2>5, <2>7, <2>9 DEF TypeOK, spent
  <2>11. FiniteRows'
    BY <1>a, <2>8, <2>9 DEF FiniteRows
  <2> QED
    BY <2>5, <2>10, <2>11 DEF TypeInv, GoodTask
<1>5. ASSUME NEW w \in Workers, Committing(w),
             Apply(task[w].batch, task[w].sources, pending[w])
      PROVE  /\ batch' \in [Batches -> Batch]
             /\ signals' \subseteq Signal /\ IsFiniteSet(signals')
  <2>1. task[w].batch \in Batches /\ task[w].sources \in BOOLEAN
    BY <1>a, <1>5 DEF Committing, GoodTask, Working, Task
  <2>2. pending[w] \in SUBSET Signal /\ IsFiniteSet(pending[w])
    BY <1>a DEF TypeOK, FiniteRows
  <2> DEFINE b == task[w].batch
             found == task[w].sources
             rows == pending[w]
  <2>3. b \in Batches /\ found \in BOOLEAN /\ rows \in SUBSET Signal
        /\ IsFiniteSet(rows) /\ Apply(b, found, rows)
    BY <1>5, <2>1, <2>2
  <2> HIDE DEF b, found, rows
  <2> QED
    BY <2>3, ApplyType
<1>6. ASSUME NEW w \in Workers, NEW phase \in Phases, task[w].pc \in Working,
             Continue(w, [task[w] EXCEPT !.pc = phase])
      PROVE  task' \in [Workers -> Task] /\ \A v \in Workers : GoodTask(task'[v])
  <2> DEFINE t == [task[w] EXCEPT !.pc = phase]
  <2>1. GoodTask(t) /\ Continue(w, t)
    BY <1>a, <1>6 DEF GoodTask, Task
  <2> HIDE DEF t
  <2> QED
    BY <2>1, ContinueGood
<1>7. ASSUME NEW w \in Workers, CommitScan(w) PROVE TypeInv'
  <2>1. Committing(w) /\ task[w].pc \in Working
    BY <1>7 DEF CommitScan, Committing, Working
  <2>2. task' \in [Workers -> Task] /\ \A v \in Workers : GoodTask(task'[v])
    BY <1>6, <1>7, <2>1 DEF CommitScan, Phases
  <2>3. batch' \in [Batches -> Batch] /\ signals' \subseteq Signal /\ IsFiniteSet(signals')
    BY <1>5, <1>7, <2>1 DEF CommitScan
  <2>4. Rollback(w) /\ UNCHANGED <<now, late, lastId, errors, losses, lates>>
    BY <1>7 DEF CommitScan, spent
  <2> QED
    BY <1>0, <2>2, <2>3, <2>4, TypeEnd
<1>8. ASSUME NEW w \in Workers, ReloadScan(w) PROVE TypeInv'
  <2> DEFINE t == NoTask
  <2>1. GoodTask(t) /\ Continue(w, t)
    BY <1>8 DEF ReloadScan, Leave, NoTask, GoodTask, Task, Phases, Working
  <2> HIDE DEF t
  <2> QED
    BY <1>8, <2>1, TypeLocal DEF ReloadScan
<1>9. ASSUME NEW w \in Workers, CommitAnswerLost(w) PROVE TypeInv'
  <2>1. Committing(w) /\ task[w].pc \in Working
    BY <1>9 DEF CommitAnswerLost, Committing, Working
  <2>2. task' \in [Workers -> Task] /\ \A v \in Workers : GoodTask(task'[v])
    BY <1>6, <1>9, <2>1 DEF CommitAnswerLost, Phases
  <2>3. batch' \in [Batches -> Batch] /\ signals' \subseteq Signal /\ IsFiniteSet(signals')
    BY <1>5, <1>9, <2>1 DEF CommitAnswerLost
  <2>4. Rollback(w) /\ UNCHANGED <<now, late, lastId, losses, lates>>
        /\ errors' \in 0..MaxErrors
    BY <1>0, <1>9 DEF CommitAnswerLost
  <2> QED
    BY <1>0, <2>2, <2>3, <2>4, TypeEnd
<1>10. ASSUME NEW w \in Workers, CommitAnswerLate(w) PROVE TypeInv'
  <2>1. task[w].pc \in Working
    BY <1>10 DEF CommitAnswerLate, Committing, Working
  <2>2. task' \in [Workers -> Task] /\ \A v \in Workers : GoodTask(task'[v])
    BY <1>6, <1>10, <2>1 DEF CommitAnswerLate, Phases
  <2> DEFINE l == [batch |-> task[w].batch, sources |-> task[w].sources,
                   rows |-> pending[w]]
  <2>3. l \in LateCommit /\ IsFiniteSet(l.rows)
    BY <1>a, <2>1 DEF LateCommit, TypeOK, FiniteRows, GoodTask, Task
  <2>4. late' = late \cup {l}
    BY <1>10 DEF CommitAnswerLate
  <2> HIDE DEF l
  <2>5. Rollback(w) /\ UNCHANGED <<now, batch, signals, lastId, errors, losses>>
        /\ lates' \in 0..MaxLate
    BY <1>0, <1>10 DEF CommitAnswerLate
  <2> QED
    BY <1>0, <2>2, <2>3, <2>4, <2>5, TypeEnd
<1>11. ASSUME NEW w \in Workers, DatabaseError(w) PROVE TypeInv'
  <2>1. task' \in [Workers -> Task] /\ \A v \in Workers : GoodTask(task'[v])
    <3>1. CASE task[w].pc \in {"load", "scan"}
      <4>1. PICK found \in SourcesSoFar(w) :
                Continue(w, [task[w] EXCEPT !.pc = "dberror", !.sources = found])
        BY <1>11, <3>1 DEF DatabaseError
      <4> DEFINE t == [task[w] EXCEPT !.pc = "dberror", !.sources = found]
      <4>2. found \in BOOLEAN
        BY <1>a DEF SourcesSoFar, Task
      <4>3. GoodTask(t) /\ Continue(w, t)
        BY <1>a, <3>1, <4>1, <4>2 DEF GoodTask, Task, Phases, Working
      <4> HIDE DEF t
      <4> QED
        BY <4>3, ContinueGood
    <3>2. CASE task[w].pc \notin {"load", "scan"}
      BY <1>11, <3>2, LeaveGood DEF DatabaseError
    <3> QED
      BY <3>1, <3>2
  <2>2. Rollback(w) /\ UNCHANGED <<now, batch, signals, late, lastId, losses, lates>>
    BY <1>11 DEF DatabaseError
  <2>3. errors < MaxErrors /\ errors' = errors + 1
    BY <1>11 DEF DatabaseError
  <2>4. errors' \in 0..MaxErrors
    BY <1>0, <2>3
  <2> QED
    BY <1>0, <2>1, <2>2, <2>4, TypeEnd
<1>12. ASSUME NEW w \in Workers, OtherError(w) PROVE TypeInv'
  <2>1. PICK found \in SourcesSoFar(w) :
            Continue(w, [task[w] EXCEPT !.pc = "error", !.sources = found])
    BY <1>12 DEF OtherError
  <2> DEFINE t == [task[w] EXCEPT !.pc = "error", !.sources = found]
  <2>2. found \in BOOLEAN
    BY <1>a DEF SourcesSoFar, Task
  <2>3. GoodTask(t) /\ Continue(w, t)
    BY <1>a, <1>12, <2>1, <2>2 DEF OtherError, GoodTask, Task, Phases, Working
  <2> HIDE DEF t
  <2>4. task' \in [Workers -> Task] /\ \A v \in Workers : GoodTask(task'[v])
    BY <2>3, ContinueGood
  <2>5. Rollback(w) /\ UNCHANGED <<now, batch, signals, late, lastId, losses, lates>>
        /\ errors' \in 0..MaxErrors
    BY <1>0, <1>12 DEF OtherError
  <2> QED
    BY <1>0, <2>4, <2>5, TypeEnd
<1>13. ASSUME NEW w \in Workers, RecordScanFailure(w) PROVE TypeInv'
  <2>1. task[w].pc \in Working /\ SetFailure(w)
    BY <1>13 DEF RecordScanFailure, Working
  <2>2. batch' \in [Batches -> Batch]
    BY <2>1, SetFailureType
  <2>3. task' \in [Workers -> Task] /\ \A v \in Workers : GoodTask(task'[v])
    BY <1>6, <1>13, <2>1 DEF RecordScanFailure, Phases
  <2> QED
    BY <1>13, <1>a, <2>2, <2>3
    DEF RecordScanFailure, TypeInv, TypeOK, FiniteRows, spent, GoodTask
<1>14. ASSUME NEW w \in Workers, CheckStillRunning(w) PROVE TypeInv'
  <2>1. task[w].pc \in Working
    BY <1>14 DEF CheckStillRunning, Working
  <2>2. task' \in [Workers -> Task] /\ \A v \in Workers : GoodTask(task'[v])
    <3>1. CASE batch[task[w].batch].status = "running"
      BY <1>6, <1>14, <2>1, <3>1 DEF CheckStillRunning, Phases
    <3>2. CASE batch[task[w].batch].status # "running"
      BY <1>14, <3>2, LeaveGood DEF CheckStillRunning
    <3> QED
      BY <3>1, <3>2
  <2> QED
    BY <1>14, <1>a, <2>2
    DEF CheckStillRunning, TypeInv, TypeOK, FiniteRows, spent, GoodTask
<1>15. ASSUME NEW w \in Workers, MarkFailure(w) PROVE TypeInv'
  <2>1. task[w].pc \in Working /\ SetFailure(w)
    BY <1>15 DEF MarkFailure, Working
  <2>2. batch' \in [Batches -> Batch]
    BY <2>1, SetFailureType
  <2>3. task' \in [Workers -> Task] /\ \A v \in Workers : GoodTask(task'[v])
    BY <1>15, LeaveGood DEF MarkFailure
  <2> QED
    BY <1>15, <1>a, <2>2, <2>3
    DEF MarkFailure, TypeInv, TypeOK, FiniteRows, spent, GoodTask
<1>16. ASSUME NEW w \in Workers, Lose(w) PROVE TypeInv'
  <2>1. task' \in [Workers -> Task] /\ \A v \in Workers : GoodTask(task'[v])
    BY <1>16, LeaveGood DEF Lose
  <2>2. Rollback(w) /\ UNCHANGED <<now, batch, signals, late, lastId, errors, lates>>
        /\ losses' \in 0..MaxLosses
    BY <1>0, <1>16 DEF Lose
  <2> QED
    BY <1>0, <2>1, <2>2, TypeEnd
<1>21. ASSUME NEW w \in Workers, OpenAnswerLost(w) PROVE TypeInv'
  <2>1. PICK b \in Batches : Insert(w, b)
    BY <1>21 DEF OpenAnswerLost
  <2>2. batch' \in [Batches -> Batch]
    BY <2>1, InsertEffect
  <2>3. task' \in [Workers -> Task] /\ \A v \in Workers : GoodTask(task'[v])
    BY <1>21, LeaveGood DEF OpenAnswerLost
  <2>4. losses' \in 0..MaxLosses
    BY <1>0, <1>21 DEF OpenAnswerLost
  <2> QED
    BY <1>21, <1>a, <2>2, <2>3, <2>4
    DEF OpenAnswerLost, TypeInv, TypeOK, FiniteRows, spent, GoodTask
<1>17. ASSUME NEW l, Lands(l) PROVE TypeInv'
  <2>1. l \in late /\ late' = late \ {l} /\ Apply(l.batch, l.sources, l.rows)
    BY <1>17 DEF Lands
  <2> DEFINE b == l.batch
             found == l.sources
             rows == l.rows
  <2>2. b \in Batches /\ found \in BOOLEAN /\ rows \in SUBSET Signal
        /\ IsFiniteSet(rows) /\ Apply(b, found, rows)
    BY <1>0, <2>1 DEF LateCommit
  <2> HIDE DEF b, found, rows
  <2>3. batch' \in [Batches -> Batch] /\ signals' \subseteq Signal /\ IsFiniteSet(signals')
    BY <2>2, ApplyType
  <2> QED
    BY <1>17, <1>a, <2>1, <2>3 DEF Lands, TypeInv, TypeOK, FiniteRows, spent, GoodTask
<1>18. ASSUME NEW l, Drops(l) PROVE TypeInv'
  BY <1>18, <1>a DEF Drops, TypeInv, TypeOK, FiniteRows, spent, GoodTask
<1>19. ASSUME Tick PROVE TypeInv'
  BY <1>19, <1>a DEF Tick, TypeInv, TypeOK, FiniteRows, spent, GoodTask
<1>20. ASSUME UNCHANGED vars PROVE TypeInv'
  BY <1>20, <1>a DEF vars, TypeInv, TypeOK, FiniteRows, spent, GoodTask
<1> QED
  BY <1>1, <1>2, <1>3, <1>4, <1>7, <1>8, <1>9, <1>10, <1>11, <1>12, <1>13,
     <1>14, <1>15, <1>16, <1>17, <1>18, <1>19, <1>20, <1>21
  DEF Next, Scan, Fail, Server, Quiescent

\* Every variable, and every row committed, pending or undecided, has its type
\* in every reachable state, and no set of rows becomes infinite.
THEOREM TypeCorrect == Spec => []TypeOK
<1>1. TypeInv => TypeOK
  BY DEF TypeInv
<1> QED
  BY <1>1, TypeInit, TypeNext, PTL DEF Spec

\* The types and the consistency of each local state hold in every state.
LEMMA TypeAlways == Spec => []TypeInv
BY TypeInit, TypeNext, PTL DEF Spec

-----------------------------------------------------------------------------
(***************************************************************************)
(* A running batch has a worker.                                           *)
(***************************************************************************)
\* The phases in which a worker can still give its batch an outcome.
Owning == {"load", "scan", "dberror", "mark", "error"}
Owns(w, b) == task[w].batch = b /\ task[w].pc \in Owning

\* Orphans, counting the batches whose worker is about to return too.
Unowned == {b \in Batches : batch[b].status = "running" /\ \A w \in Workers : ~Owns(w, b)}
HasOwner == IsFiniteSet(Unowned) /\ Cardinality(Unowned) <= losses

\* A step without a loss that leaves no batch behind, and a loss that leaves at most one.
LEMMA OwnersKept ==
    ASSUME TypeInv, HasOwner, losses' = losses, Unowned' \subseteq Unowned
    PROVE  HasOwner'
<1>1. IsFiniteSet(Unowned') /\ Cardinality(Unowned') <= Cardinality(Unowned)
  BY FS_Subset DEF HasOwner
<1>2. Cardinality(Unowned) \in Nat /\ Cardinality(Unowned') \in Nat
  BY <1>1, FS_CardinalityType DEF HasOwner
<1>3. losses \in Nat
  BY BoundsAssumption DEF TypeInv, TypeOK
<1> QED
  BY <1>1, <1>2, <1>3 DEF HasOwner
LEMMA OwnerLost ==
    ASSUME TypeInv, HasOwner, losses' = losses + 1, NEW b, Unowned' \subseteq Unowned \cup {b}
    PROVE  HasOwner'
<1>1. IsFiniteSet(Unowned \cup {b}) /\ Cardinality(Unowned \cup {b}) <= Cardinality(Unowned) + 1
  <2>1. IsFiniteSet(Unowned) /\ Cardinality(Unowned) \in Nat
    BY FS_CardinalityType DEF HasOwner
  <2>2. /\ IsFiniteSet(Unowned \cup {b})
        /\ Cardinality(Unowned \cup {b})
             = IF b \in Unowned THEN Cardinality(Unowned) ELSE Cardinality(Unowned) + 1
    BY <2>1, FS_AddElement
  <2> QED BY <2>1, <2>2
<1>2. IsFiniteSet(Unowned') /\ Cardinality(Unowned') <= Cardinality(Unowned \cup {b})
  BY <1>1, FS_Subset
<1>3. /\ Cardinality(Unowned) \in Nat /\ Cardinality(Unowned') \in Nat
      /\ Cardinality(Unowned \cup {b}) \in Nat /\ losses \in Nat
  BY <1>1, <1>2, FS_CardinalityType, BoundsAssumption DEF HasOwner, TypeInv, TypeOK
<1> QED
  BY <1>1, <1>2, <1>3 DEF HasOwner

\* A step of one worker that opens no batch but its own, and gives its own an
\* outcome before it leaves it.
LEMMA OwnerStep ==
    ASSUME TypeInv, HasOwner, NEW w \in Workers, NEW t, GoodTask(t), Continue(w, t),
           losses' = losses,
           \A b \in Batches : batch'[b].status = "running" =>
               \/ batch[b].status = "running" /\ ~Owns(w, b)
               \/ t.batch = b /\ t.pc \in Owning
    PROVE  HasOwner'
<1> SUFFICES ASSUME NEW b \in Batches, batch'[b].status = "running",
                    \A v \in Workers : ~Owns(v, b)'
             PROVE  batch[b].status = "running" /\ \A v \in Workers : ~Owns(v, b)
  <2>1. Unowned' \subseteq Unowned
    BY DEF Unowned
  <2> QED BY <2>1, OwnersKept
<1>1. task \in [Workers -> Task]
  BY DEF TypeInv, TypeOK
<1>2. \A v \in Workers : task'[v] = IF v = w THEN t ELSE task[v]
  BY <1>1 DEF Continue
<1> QED
  BY <1>2 DEF Owns

\* A batch that gets an outcome is not running, and the others are untouched.
LEMMA ApplyEnds ==
    ASSUME TypeInv, NEW b \in Batches, NEW found, NEW rows, Apply(b, found, rows)
    PROVE  /\ batch'[b].status = IF rows = {} THEN "no_data" ELSE "success"
           /\ \A c \in Batches \ {b} : batch'[c] = batch[c]
<1>1. batch \in [Batches -> Batch] /\ batch[b] \in Batch
  BY DEF TypeInv, TypeOK
<1> DEFINE outcome == IF rows = {} THEN "no_data" ELSE "success"
<1>2. batch' = [batch EXCEPT ![b].status = outcome, ![b].sources = found]
  BY DEF Apply
<1> HIDE DEF outcome
<1>3. batch'[b].status = outcome /\ \A c \in Batches \ {b} : batch'[c] = batch[c]
  BY <1>1, <1>2 DEF Batch
<1> QED
  BY <1>3 DEF outcome

\* So does a failure that is recorded.
LEMMA FailureEnds ==
    ASSUME TypeInv, NEW w \in Workers, task[w].batch \in Batches, SetFailure(w)
    PROVE  /\ batch'[task[w].batch].status = "failure"
           /\ \A c \in Batches \ {task[w].batch} : batch'[c] = batch[c]
<1>1. batch \in [Batches -> Batch] /\ batch[task[w].batch] \in Batch
  BY DEF TypeInv, TypeOK
<1> QED
  BY <1>1 DEF SetFailure, Batch

\* A step that leaves the batches and the worker's batch alone.
LEMMA OwnerStay ==
    ASSUME TypeInv, HasOwner, NEW w \in Workers, NEW t, GoodTask(t), Continue(w, t),
           UNCHANGED <<batch, losses>>,
           \A b \in Batches : batch[b].status = "running" /\ Owns(w, b)
                                  => t.batch = b /\ t.pc \in Owning
    PROVE  HasOwner'
BY OwnerStep

\* Every step that gives up a batch gives it an outcome, finds that it has one,
\* or counts as a loss.
LEMMA HasOwnerNext == TypeInv /\ HasOwner /\ [Next]_vars => HasOwner'
<1> SUFFICES ASSUME TypeInv, HasOwner, [Next]_vars PROVE HasOwner'
  OBVIOUS
<1>a. \A w \in Workers : task[w] \in Task /\ GoodTask(task[w])
  BY DEF TypeInv, GoodTask
<1>b. GoodTask(NoTask) /\ NoTask.pc = "idle"
  BY BoundsAssumption DEF NoTask, GoodTask, Task, Phases, Working
<1>1. ASSUME NEW w \in Workers, StartScan(w) PROVE HasOwner'
  <2> DEFINE t == [NoTask EXCEPT !.pc = "stamped", !.started = now]
  <2>1. task' = [task EXCEPT ![w] = t]
    BY <1>1 DEF StartScan, Continue
  <2>2. task[w].pc = "idle" /\ UNCHANGED <<batch, losses>>
    BY <1>1 DEF StartScan, spent
  <2> HIDE DEF t
  <2>3. \A v \in Workers, b \in Batches : Owns(v, b) => task'[v] = task[v]
    BY <2>1, <2>2 DEF Owns, Owning, TypeInv, TypeOK
  <2>4. Unowned' \subseteq Unowned
    BY <2>2, <2>3 DEF Unowned, Owns
  <2> QED
    BY <2>2, <2>4, OwnersKept
<1>2. ASSUME NEW w \in Workers, OpenBatch(w) PROVE HasOwner'
  <2>1. PICK b \in Batches :
            /\ batch' = [batch EXCEPT ![b] = [status |-> "running", sources |-> FALSE,
                                              started |-> task[w].started]]
            /\ Continue(w, [task[w] EXCEPT !.pc = "load", !.batch = b])
    BY <1>2 DEF OpenBatch, Insert
  <2> DEFINE t == [task[w] EXCEPT !.pc = "load", !.batch = b]
  <2>2. GoodTask(t) /\ Continue(w, t) /\ t.batch = b /\ t.pc \in Owning
    BY <1>a, <2>1 DEF GoodTask, Task, Phases, Owning
  <2>3. \A c \in Batches \ {b} : batch'[c] = batch[c]
    BY <2>1 DEF TypeInv, TypeOK
  <2>4. losses' = losses /\ \A c \in Batches : ~Owns(w, c)
    BY <1>2 DEF OpenBatch, Insert, spent, Owns, Owning
  <2> HIDE DEF t
  <2> QED
    BY <2>2, <2>3, <2>4, OwnerStep
<1>3. ASSUME NEW w \in Workers, NEW t, task[w].pc \in Owning, Continue(w, t),
             t \in Task, t.pc \in Owning, t.batch = task[w].batch,
             UNCHANGED <<batch, losses>>
      PROVE  HasOwner'
  <2>1. GoodTask(t)
    BY <1>3, <1>a DEF GoodTask, Owning, Working
  <2> QED
    BY <1>3, <2>1, OwnerStay DEF Owns
<1>4. ASSUME NEW w \in Workers, LoadSources(w) PROVE HasOwner'
  <2>1. PICK found \in BOOLEAN, list \in CandidateLists :
            Continue(w, [task[w] EXCEPT !.pc = "scan", !.created = now,
                                        !.sources = found, !.todo = list])
    BY <1>4 DEF LoadSources
  <2> DEFINE t == [task[w] EXCEPT !.pc = "scan", !.created = now,
                                  !.sources = found, !.todo = list]
  <2>2. list \in Seq(Candidate)
    BY ListsAreSequences
  <2>3. t \in Task /\ t.pc \in Owning /\ t.batch = task[w].batch /\ Continue(w, t)
    BY <1>a, <2>1, <2>2 DEF TypeInv, TypeOK, Task, Phases, Owning
  <2>4. task[w].pc \in Owning /\ UNCHANGED <<batch, losses>>
    BY <1>4 DEF LoadSources, spent, Owning
  <2> HIDE DEF t
  <2> QED
    BY <1>3, <2>3, <2>4
<1>5. ASSUME NEW w \in Workers, AddCandidate(w) PROVE HasOwner'
  <2> DEFINE t == [task[w] EXCEPT !.todo = Tail(@)]
  <2>1. task[w].pc = "scan" /\ task[w].todo # <<>> /\ Continue(w, t)
    BY <1>5 DEF AddCandidate
  <2>2. Tail(task[w].todo) \in Seq(Candidate)
    BY <1>a, <2>1 DEF Task
  <2>3. t \in Task /\ t.pc \in Owning /\ t.batch = task[w].batch
    BY <1>a, <2>1, <2>2 DEF Task, Owning
  <2>4. task[w].pc \in Owning /\ UNCHANGED <<batch, losses>>
    BY <1>5 DEF AddCandidate, spent, Owning
  <2> HIDE DEF t
  <2> QED
    BY <1>3, <2>1, <2>3, <2>4
<1>6. ASSUME NEW w \in Workers, task[w].pc \in Working, NEW phase \in Phases,
             Continue(w, [task[w] EXCEPT !.pc = phase]), losses' = losses,
             batch'[task[w].batch].status # "running",
             \A c \in Batches \ {task[w].batch} : batch'[c] = batch[c]
      PROVE  HasOwner'
  <2> DEFINE t == [task[w] EXCEPT !.pc = phase]
  <2>1. GoodTask(t) /\ Continue(w, t)
    BY <1>a, <1>6 DEF GoodTask, Task
  <2> HIDE DEF t
  <2> QED
    BY <1>6, <2>1, OwnerStep DEF Owns
<1>7. ASSUME NEW w \in Workers, Committing(w),
             Apply(task[w].batch, task[w].sources, pending[w])
      PROVE  /\ batch'[task[w].batch].status # "running"
             /\ \A c \in Batches \ {task[w].batch} : batch'[c] = batch[c]
  <2>1. task[w].batch \in Batches
    BY <1>a, <1>7 DEF Committing, GoodTask, Working
  <2> QED
    BY <1>7, <2>1, ApplyEnds
<1>8. ASSUME NEW w \in Workers, CommitScan(w) PROVE HasOwner'
  <2>1. /\ Committing(w) /\ Apply(task[w].batch, task[w].sources, pending[w])
        /\ Continue(w, [task[w] EXCEPT !.pc = "reload"]) /\ losses' = losses
    BY <1>8 DEF CommitScan, spent
  <2>2. task[w].pc \in Working /\ "reload" \in Phases
    BY <2>1 DEF Committing, Working, Phases
  <2> QED
    BY <1>6, <1>7, <2>1, <2>2
<1>9. ASSUME NEW w \in Workers, CommitAnswerLost(w) PROVE HasOwner'
  <2>1. /\ Committing(w) /\ Apply(task[w].batch, task[w].sources, pending[w])
        /\ Continue(w, [task[w] EXCEPT !.pc = "dberror"]) /\ losses' = losses
    BY <1>9 DEF CommitAnswerLost
  <2>2. task[w].pc \in Working /\ "dberror" \in Phases
    BY <2>1 DEF Committing, Working, Phases
  <2> QED
    BY <1>6, <1>7, <2>1, <2>2
<1>10. ASSUME NEW w \in Workers, RecordScanFailure(w) PROVE HasOwner'
  <2>1. /\ task[w].pc \in Working /\ SetFailure(w) /\ "reload" \in Phases
        /\ Continue(w, [task[w] EXCEPT !.pc = "reload"]) /\ losses' = losses
    BY <1>10 DEF RecordScanFailure, spent, Working, Phases
  <2>2. task[w].batch \in Batches
    BY <1>a, <2>1 DEF GoodTask
  <2> QED
    BY <1>6, <2>1, <2>2, FailureEnds
<1>11. ASSUME NEW w \in Workers, Leave(w), losses' = losses,
              \A b \in Batches : batch'[b].status = "running" =>
                  batch[b].status = "running" /\ ~Owns(w, b)
       PROVE  HasOwner'
  <2> DEFINE t == NoTask
  <2>1. GoodTask(t) /\ Continue(w, t)
    BY <1>b, <1>11 DEF Leave
  <2> HIDE DEF t
  <2> QED
    BY <1>11, <2>1, OwnerStep
<1>12. ASSUME NEW w \in Workers, MarkFailure(w) PROVE HasOwner'
  <2>1. task[w].pc = "mark" /\ SetFailure(w) /\ Leave(w) /\ losses' = losses
    BY <1>12 DEF MarkFailure, spent
  <2>2. task[w].batch \in Batches
    BY <1>a, <2>1 DEF GoodTask, Working
  <2>3. /\ batch'[task[w].batch].status # "running"
        /\ \A c \in Batches \ {task[w].batch} : batch'[c] = batch[c]
    BY <2>1, <2>2, FailureEnds
  <2> QED
    BY <1>11, <2>1, <2>3 DEF Owns
<1>13. ASSUME NEW w \in Workers, ReloadScan(w) PROVE HasOwner'
  <2>1. task[w].pc = "reload" /\ Leave(w) /\ UNCHANGED <<batch, losses>>
    BY <1>13 DEF ReloadScan, spent
  <2> QED
    BY <1>11, <2>1 DEF Owns, Owning
<1>14. ASSUME NEW w \in Workers, CheckStillRunning(w) PROVE HasOwner'
  <2>1. task[w].pc = "dberror" /\ UNCHANGED <<batch, losses>>
    BY <1>14 DEF CheckStillRunning, spent
  <2>2. CASE batch[task[w].batch].status = "running"
    <3> DEFINE t == [task[w] EXCEPT !.pc = "mark"]
    <3>1. t \in Task /\ t.pc \in Owning /\ t.batch = task[w].batch /\ Continue(w, t)
      BY <1>14, <1>a, <2>2 DEF CheckStillRunning, Task, Phases, Owning
    <3> HIDE DEF t
    <3> QED
      BY <1>3, <2>1, <3>1 DEF Owning
  <2>3. CASE batch[task[w].batch].status # "running"
    <3>1. Leave(w)
      BY <1>14, <2>3 DEF CheckStillRunning
    <3> QED
      BY <1>11, <2>1, <2>3, <3>1 DEF Owns
  <2> QED
    BY <2>2, <2>3
<1>15. ASSUME NEW w \in Workers, CommitAnswerLate(w) PROVE HasOwner'
  <2> DEFINE t == [task[w] EXCEPT !.pc = "dberror"]
  <2>1. t \in Task /\ t.pc \in Owning /\ t.batch = task[w].batch /\ Continue(w, t)
    BY <1>15, <1>a DEF CommitAnswerLate, Task, Phases, Owning
  <2>2. task[w].pc \in Owning /\ UNCHANGED <<batch, losses>>
    BY <1>15 DEF CommitAnswerLate, Committing, Owning
  <2> HIDE DEF t
  <2> QED
    BY <1>3, <2>1, <2>2
<1>16. ASSUME NEW w \in Workers, NEW phase \in {"dberror", "error"},
              NEW found \in SourcesSoFar(w), task[w].pc \in {"load", "scan"},
              Continue(w, [task[w] EXCEPT !.pc = phase, !.sources = found]),
              UNCHANGED <<batch, losses>>
       PROVE  HasOwner'
  <2> DEFINE t == [task[w] EXCEPT !.pc = phase, !.sources = found]
  <2>1. found \in BOOLEAN
    BY <1>a DEF SourcesSoFar, Task
  <2>2. t \in Task /\ t.pc \in Owning /\ t.batch = task[w].batch /\ Continue(w, t)
    BY <1>16, <1>a, <2>1 DEF Task, Phases, Owning
  <2>3. task[w].pc \in Owning
    BY <1>16 DEF Owning
  <2> HIDE DEF t
  <2> QED
    BY <1>3, <1>16, <2>2, <2>3
<1>17. ASSUME NEW w \in Workers, DatabaseError(w) PROVE HasOwner'
  <2>1. UNCHANGED <<batch, losses>>
    BY <1>17 DEF DatabaseError
  <2>2. CASE task[w].pc \in {"load", "scan"}
    <3>1. PICK found \in SourcesSoFar(w) :
              Continue(w, [task[w] EXCEPT !.pc = "dberror", !.sources = found])
      BY <1>17, <2>2 DEF DatabaseError
    <3> QED
      BY <1>16, <2>1, <2>2, <3>1
  <2>3. CASE task[w].pc \notin {"load", "scan"}
    <3>1. Leave(w) /\ task[w].pc \in {"stamped", "reload"}
      BY <1>17, <2>3 DEF DatabaseError
    <3> QED
      BY <1>11, <2>1, <3>1 DEF Owns, Owning
  <2> QED
    BY <2>2, <2>3
<1>18. ASSUME NEW w \in Workers, OtherError(w) PROVE HasOwner'
  <2>1. UNCHANGED <<batch, losses>> /\ task[w].pc \in {"load", "scan"}
    BY <1>18 DEF OtherError
  <2>2. PICK found \in SourcesSoFar(w) :
            Continue(w, [task[w] EXCEPT !.pc = "error", !.sources = found])
    BY <1>18 DEF OtherError
  <2> QED
    BY <1>16, <2>1, <2>2
<1>19. ASSUME NEW w \in Workers, Lose(w) PROVE HasOwner'
  <2>1. losses' = losses + 1 /\ UNCHANGED batch
        /\ \A v \in Workers : v # w => task'[v] = task[v]
    BY <1>19 DEF Lose, Leave, Continue, TypeInv, TypeOK
  <2>2. Unowned' \subseteq Unowned \cup {task[w].batch}
    BY <2>1 DEF Unowned, Owns
  <2> QED
    BY <2>1, <2>2, OwnerLost
<1>25. ASSUME NEW w \in Workers, OpenAnswerLost(w) PROVE HasOwner'
  <2>1. losses' = losses + 1 /\ task[w].pc = "stamped"
        /\ \A v \in Workers : v # w => task'[v] = task[v]
    BY <1>25 DEF OpenAnswerLost, Leave, Continue, TypeInv, TypeOK
  <2>2. PICK b \in Batches : Insert(w, b)
    BY <1>25 DEF OpenAnswerLost
  <2>3. \A c \in Batches \ {b} : batch'[c] = batch[c]
    BY <2>2, InsertEffect
  <2>4. \A v \in Workers, c \in Batches : Owns(v, c) => v # w
    BY <2>1 DEF Owns, Owning
  <2>5. Unowned' \subseteq Unowned \cup {b}
    BY <2>1, <2>3, <2>4 DEF Unowned, Owns
  <2> QED
    BY <2>1, <2>5, OwnerLost
<1>20. ASSUME NEW l, Lands(l) PROVE HasOwner'
  <2>1. l \in late /\ Apply(l.batch, l.sources, l.rows)
        /\ UNCHANGED <<task, losses>>
    BY <1>20 DEF Lands, spent
  <2>2. l.batch \in Batches
    BY <2>1 DEF TypeInv, TypeOK, LateCommit
  <2>3. /\ batch'[l.batch].status # "running"
        /\ \A c \in Batches \ {l.batch} : batch'[c] = batch[c]
    BY <2>1, <2>2, ApplyEnds
  <2>4. Unowned' \subseteq Unowned
    BY <2>1, <2>3 DEF Unowned, Owns
  <2> QED
    BY <2>1, <2>4, OwnersKept
<1>21. ASSUME UNCHANGED <<batch, task, losses>> PROVE HasOwner'
  <2>1. Unowned' = Unowned
    BY <1>21 DEF Unowned, Owns
  <2> QED
    BY <1>21, <2>1, OwnersKept
<1>22. ASSUME NEW l, Drops(l) PROVE HasOwner'
  BY <1>21, <1>22 DEF Drops, spent
<1>23. ASSUME Tick PROVE HasOwner'
  BY <1>21, <1>23 DEF Tick, spent
<1>24. ASSUME UNCHANGED vars PROVE HasOwner'
  BY <1>21, <1>24 DEF vars, spent
<1> QED
  BY <1>1, <1>2, <1>4, <1>5, <1>8, <1>9, <1>10, <1>12, <1>13, <1>14, <1>15,
     <1>17, <1>18, <1>19, <1>20, <1>22, <1>23, <1>24, <1>25
  DEF Next, Scan, Fail, Server, Quiescent

\* However scans overlap and whatever exceptions they meet, late commits
\* included, there are never more running batches without a worker than processes
\* that died, first commits whose answer was lost and failures that could not be recorded.
THEOREM RunningCorrect == Spec => []RunningHasWorker
<1>1. Init => HasOwner
  <2> SUFFICES ASSUME Init PROVE HasOwner
    OBVIOUS
  <2>1. Unowned = {} /\ losses = 0
    BY DEF Init, NoBatch, Unowned
  <2> QED
    BY <2>1, FS_EmptySet DEF HasOwner
<1>2. TypeInv /\ HasOwner => RunningHasWorker
  <2> SUFFICES ASSUME TypeInv, HasOwner PROVE RunningHasWorker
    OBVIOUS
  <2>1. Orphans \subseteq Unowned
    BY DEF Orphans, Unowned, Owns, Owning
  <2>2. IsFiniteSet(Orphans) /\ Cardinality(Orphans) <= Cardinality(Unowned)
    BY <2>1, FS_Subset DEF HasOwner
  <2>3. Cardinality(Orphans) \in Nat /\ Cardinality(Unowned) \in Nat /\ losses \in Nat
    BY <2>2, FS_CardinalityType, BoundsAssumption DEF HasOwner, TypeInv, TypeOK
  <2> QED
    BY <2>2, <2>3 DEF HasOwner, RunningHasWorker
<1> QED
  BY <1>1, <1>2, TypeAlways, HasOwnerNext, PTL DEF Spec

-----------------------------------------------------------------------------
(***************************************************************************)
(* What the readers of the database see of the scans is a ScanBoard, as    *)
(* long as no commit is decided after its client gave up (lates = 0): the  *)
(* run scan_late_commit shows that this is needed.  That a quick report    *)
(* candidate has its evidence does not need it.                            *)
(***************************************************************************)
\* The phases in which a batch's outcome is still open.
Writing == {"load", "scan", "mark", "error"}

\* A session holds flushed rows only while it scans, and only of its batch.
PendingOwned ==
    \A w \in Workers : \A x \in pending[w] :
        task[w].pc = "scan" /\ x.batch = task[w].batch

\* Nobody but its worker gives a batch its outcome.
WritersRun ==
    \A w \in Workers :
        /\ task[w].pc \in Writing => batch[task[w].batch].status = "running"
        /\ task[w].pc = "dberror" => batch[task[w].batch].status # "absent"
SoleOwner ==
    \A v, w \in Workers, b \in Batches : Owns(v, b) /\ Owns(w, b) => v = w

OutcomeInv ==
    /\ late = {}
    /\ SignalsOnlyOfSuccess
    /\ PendingOwned
    /\ WritersRun
    /\ SoleOwner

\* A step of one worker that takes no batch of another and flushes only rows of
\* its own.
LEMMA OutcomeStep ==
    ASSUME TypeInv, OutcomeInv, NEW w \in Workers, NEW t, Continue(w, t), late' = {},
           SignalsOnlyOfSuccess',
           t.pc \in Owning => \/ task[w].pc \in Owning /\ t.batch = task[w].batch
                              \/ batch[t.batch].status = "absent",
           t.pc \in Writing => batch'[t.batch].status = "running",
           t.pc = "dberror" => batch'[t.batch].status # "absent",
           \A b \in Batches : batch'[b] # batch[b] =>
               /\ batch'[b].status # "absent"
               /\ Owns(w, b) \/ batch[b].status = "absent",
           \A v \in Workers \ {w} : pending'[v] = pending[v],
           \A x \in pending'[w] : t.pc = "scan" /\ x.batch = t.batch
    PROVE  OutcomeInv'
<1>1. \A v \in Workers : task'[v] = IF v = w THEN t ELSE task[v]
  BY DEF Continue, TypeInv, TypeOK
<1>2. PendingOwned'
  BY <1>1 DEF PendingOwned, OutcomeInv
<1>3. \A v \in Workers : task[v].pc \in Owning =>
          /\ task[v].batch \in Batches
          /\ batch[task[v].batch].status # "absent"
  BY DEF TypeInv, GoodTask, Owning, Working, OutcomeInv, WritersRun, Writing
<1>4. WritersRun'
  <2> SUFFICES ASSUME NEW v \in Workers
               PROVE  /\ task'[v].pc \in Writing => batch'[task'[v].batch].status = "running"
                      /\ task'[v].pc = "dberror" => batch'[task'[v].batch].status # "absent"
    BY DEF WritersRun
  <2>1. CASE v = w
    BY <1>1, <2>1
  <2>2. CASE v # w /\ task[v].pc \in Owning
    <3>1. ~Owns(w, task[v].batch) /\ task'[v] = task[v]
      BY <1>1, <1>3, <2>2 DEF OutcomeInv, SoleOwner, Owns
    <3>2. batch'[task[v].batch] = batch[task[v].batch]
      BY <1>3, <2>2, <3>1
    <3> QED
      BY <3>1, <3>2 DEF OutcomeInv, WritersRun
  <2>3. CASE v # w /\ task[v].pc \notin Owning
    BY <1>1, <2>3 DEF Writing, Owning
  <2> QED
    BY <2>1, <2>2, <2>3
<1>5. SoleOwner'
  <2> SUFFICES ASSUME NEW u \in Workers, NEW v \in Workers, NEW b \in Batches,
                      task'[u].batch = b, task'[u].pc \in Owning,
                      task'[v].batch = b, task'[v].pc \in Owning
               PROVE  u = v
    BY DEF SoleOwner, Owns
  <2>1. ASSUME NEW y \in Workers, y # w, task'[y].batch = b, task'[y].pc \in Owning,
               t.batch = b, t.pc \in Owning
        PROVE  FALSE
    BY <1>1, <1>3, <2>1 DEF OutcomeInv, SoleOwner, Owns
  <2>2. CASE u = w \/ v = w
    BY <1>1, <2>1, <2>2
  <2>3. CASE u # w /\ v # w
    BY <1>1, <2>3 DEF OutcomeInv, SoleOwner, Owns
  <2> QED
    BY <2>2, <2>3
<1> QED
  BY <1>2, <1>4, <1>5 DEF OutcomeInv

BoardStep == [Board!BoardNext]_(Board!boardVars)

\* A batch that is opened appears without a signal.
LEMMA SeenOpen ==
    ASSUME TypeInv, OutcomeInv, NEW b \in Batches, batch[b].status = "absent",
           batch'[b].status = "running",
           \A c \in Batches \ {b} : batch'[c] = batch[c], signals' = signals
    PROVE  SignalsOnlyOfSuccess' /\ BoardStep
<1>1. SignalsOnlyOfSuccess'
  BY DEF OutcomeInv, SignalsOnlyOfSuccess
<1>2. Board!Open(b)
  BY DEF Board!Open
<1> QED
  BY <1>1, <1>2 DEF BoardStep, Board!BoardNext

\* A running batch that fails appears without a signal.
LEMMA SeenFailure ==
    ASSUME TypeInv, OutcomeInv, NEW b \in Batches, batch[b].status = "running",
           batch'[b].status = "failure",
           \A c \in Batches \ {b} : batch'[c] = batch[c], signals' = signals
    PROVE  SignalsOnlyOfSuccess' /\ BoardStep
<1>1. SignalsOnlyOfSuccess'
  BY DEF OutcomeInv, SignalsOnlyOfSuccess
<1>2. Board!EndEmpty(b)
  BY DEF Board!EndEmpty
<1> QED
  BY <1>1, <1>2 DEF BoardStep, Board!BoardNext

\* The transaction of a running batch shows its outcome with all its signals.
LEMMA SeenApply ==
    ASSUME TypeInv, OutcomeInv, NEW b \in Batches, batch[b].status = "running",
           NEW found, NEW rows, Apply(b, found, rows), \A x \in rows : x.batch = b
    PROVE  SignalsOnlyOfSuccess' /\ BoardStep
<1>1. /\ batch'[b].status = IF rows = {} THEN "no_data" ELSE "success"
      /\ \A c \in Batches \ {b} : batch'[c] = batch[c]
  BY ApplyEnds
<1>2. signals' = signals \cup rows /\ \A x \in signals : x.batch # b
  BY DEF Apply, OutcomeInv, SignalsOnlyOfSuccess
<1>3. SignalsOnlyOfSuccess'
  BY <1>1, <1>2 DEF OutcomeInv, SignalsOnlyOfSuccess
<1>4. CASE rows = {}
  <2>1. signals' = signals
    BY <1>2, <1>4
  <2>2. Board!EndEmpty(b)
    BY <1>1, <1>4, <2>1 DEF Board!EndEmpty
  <2> QED
    BY <1>3, <2>2 DEF BoardStep, Board!BoardNext
<1>5. CASE rows # {}
  <2>1. {x \in signals' : x.batch = b} # {}
    BY <1>2, <1>5
  <2>2. \A c \in Batches \ {b} : {x \in signals' : x.batch = c} = {x \in signals : x.batch = c}
    BY <1>2
  <2>3. Board!Succeed(b)
    BY <1>1, <1>5, <2>1, <2>2 DEF Board!Succeed
  <2> QED
    BY <1>3, <2>3 DEF BoardStep, Board!BoardNext
<1> QED
  BY <1>4, <1>5

\* A step that touches neither table is not seen.
LEMMA SeenNothing ==
    ASSUME OutcomeInv, UNCHANGED <<batch, signals>>
    PROVE  SignalsOnlyOfSuccess' /\ BoardStep
BY DEF OutcomeInv, SignalsOnlyOfSuccess, BoardStep, Board!boardVars

\* A step that gives no client up while its commit is undecided keeps the
\* invariant, and the board sees a step of its own or none.
LEMMA OutcomeNext ==
    TypeInv /\ OutcomeInv /\ [Next]_vars /\ lates' = 0 => OutcomeInv' /\ BoardStep
<1> SUFFICES ASSUME TypeInv, OutcomeInv, [Next]_vars, lates' = 0
             PROVE  OutcomeInv' /\ BoardStep
  OBVIOUS
<1>a. /\ late = {} /\ SignalsOnlyOfSuccess
      /\ \A w \in Workers : task[w] \in Task /\ GoodTask(task[w])
  BY DEF TypeInv, GoodTask, OutcomeInv
<1>b. \A w \in Workers : pending' = [pending EXCEPT ![w] = {}] =>
          pending'[w] = {} /\ \A v \in Workers \ {w} : pending'[v] = pending[v]
  BY DEF TypeInv, TypeOK
<1>c. \A w \in Workers : task[w].pc # "scan" => pending[w] = {}
  BY DEF OutcomeInv, PendingOwned
<1>1. ASSUME NEW w \in Workers, NEW t, Continue(w, t),
             UNCHANGED <<batch, signals, pending, late>>,
             task[w].pc # "scan", t.pc \notin Owning
      PROVE  OutcomeInv' /\ BoardStep
  <2>1. SignalsOnlyOfSuccess' /\ BoardStep
    BY <1>1, SeenNothing
  <2>2. t.pc \notin Writing /\ t.pc # "dberror"
    BY <1>1 DEF Owning, Writing
  <2> QED
    BY <1>1, <1>a, <1>c, <2>1, <2>2, OutcomeStep
<1>2. ASSUME NEW w \in Workers, StartScan(w) PROVE OutcomeInv' /\ BoardStep
  <2> DEFINE t == [NoTask EXCEPT !.pc = "stamped", !.started = now]
  <2>1. Continue(w, t) /\ t.pc = "stamped"
    BY <1>2 DEF StartScan, NoTask
  <2> HIDE DEF t
  <2> QED
    BY <1>1, <1>2, <2>1 DEF StartScan, Owning
<1>3. ASSUME NEW w \in Workers, OpenBatch(w) PROVE OutcomeInv' /\ BoardStep
  <2>1. PICK b \in Batches :
            /\ batch[b].status = "absent"
            /\ batch' = [batch EXCEPT ![b] = [status |-> "running", sources |-> FALSE,
                                              started |-> task[w].started]]
            /\ Continue(w, [task[w] EXCEPT !.pc = "load", !.batch = b])
    BY <1>3 DEF OpenBatch, Insert
  <2> DEFINE t == [task[w] EXCEPT !.pc = "load", !.batch = b]
  <2>2. Continue(w, t) /\ t.batch = b /\ t.pc = "load"
    BY <1>a, <2>1 DEF Task
  <2>3. batch'[b].status = "running" /\ \A c \in Batches \ {b} : batch'[c] = batch[c]
    BY <2>1 DEF TypeInv, TypeOK
  <2>4. task[w].pc # "scan" /\ UNCHANGED <<signals, pending, late>>
    BY <1>3 DEF OpenBatch, Insert
  <2> HIDE DEF t
  <2>5. SignalsOnlyOfSuccess' /\ BoardStep
    BY <2>1, <2>3, <2>4, SeenOpen
  <2> QED
    BY <1>a, <1>c, <2>1, <2>2, <2>3, <2>4, <2>5, OutcomeStep
<1>4. ASSUME NEW w \in Workers, NEW t, Continue(w, t), task[w].pc \in Writing,
             t.batch = task[w].batch, t.pc \in Owning,
             UNCHANGED <<batch, signals, late>>,
             \A v \in Workers \ {w} : pending'[v] = pending[v],
             \A x \in pending'[w] : t.pc = "scan" /\ x.batch = t.batch
      PROVE  OutcomeInv' /\ BoardStep
  <2>1. SignalsOnlyOfSuccess' /\ BoardStep
    BY <1>4, SeenNothing
  <2>2. task[w].pc \in Owning /\ batch'[t.batch].status = "running"
    BY <1>4 DEF OutcomeInv, WritersRun, Writing, Owning
  <2> QED
    BY <1>4, <1>a, <2>1, <2>2, OutcomeStep
<1>5. ASSUME NEW w \in Workers, LoadSources(w) PROVE OutcomeInv' /\ BoardStep
  <2>1. PICK found \in BOOLEAN, list \in CandidateLists :
            Continue(w, [task[w] EXCEPT !.pc = "scan", !.created = now,
                                        !.sources = found, !.todo = list])
    BY <1>5 DEF LoadSources
  <2> DEFINE t == [task[w] EXCEPT !.pc = "scan", !.created = now,
                                  !.sources = found, !.todo = list]
  <2>2. t.batch = task[w].batch /\ t.pc \in Owning /\ Continue(w, t)
    BY <1>a, <2>1 DEF Task, Owning
  <2>3. task[w].pc = "load" /\ UNCHANGED <<batch, signals, pending, late>>
    BY <1>5 DEF LoadSources
  <2>4. task[w].pc \in Writing /\ pending[w] = {}
    BY <1>c, <2>3 DEF Writing
  <2> HIDE DEF t
  <2> QED
    BY <1>4, <2>2, <2>3, <2>4
<1>6. ASSUME NEW w \in Workers, AddCandidate(w) PROVE OutcomeInv' /\ BoardStep
  <2> DEFINE t == [task[w] EXCEPT !.todo = Tail(@)]
             y == NewSignal(w, Head(task[w].todo))
  <2>1. /\ task[w].pc = "scan" /\ Continue(w, t)
        /\ pending' = [pending EXCEPT ![w] = @ \cup {y}]
        /\ UNCHANGED <<batch, signals, late>>
    BY <1>6 DEF AddCandidate
  <2>2. t.batch = task[w].batch /\ t.pc = "scan"
    BY <1>a, <2>1 DEF Task
  <2>3. y.batch = task[w].batch
    BY DEF NewSignal
  <2> HIDE DEF t, y
  <2>4. /\ pending'[w] = pending[w] \cup {y}
        /\ \A v \in Workers \ {w} : pending'[v] = pending[v]
    BY <2>1 DEF TypeInv, TypeOK
  <2>5. \A x \in pending'[w] : t.pc = "scan" /\ x.batch = t.batch
    BY <2>2, <2>3, <2>4 DEF OutcomeInv, PendingOwned
  <2>6. task[w].pc \in Writing /\ t.pc \in Owning
    BY <2>1, <2>2 DEF Writing, Owning
  <2> QED
    BY <1>4, <2>1, <2>2, <2>4, <2>5, <2>6
<1>7. ASSUME NEW w \in Workers, Committing(w), Rollback(w), UNCHANGED late,
             Apply(task[w].batch, task[w].sources, pending[w]),
             NEW phase \in {"reload", "dberror"},
             Continue(w, [task[w] EXCEPT !.pc = phase])
      PROVE  OutcomeInv' /\ BoardStep
  <2> DEFINE t == [task[w] EXCEPT !.pc = phase]
             b == task[w].batch
  <2>1. Continue(w, t) /\ t.batch = b /\ t.pc \in {"reload", "dberror"}
    BY <1>7, <1>a DEF Task
  <2>2. /\ b \in Batches /\ batch[b].status = "running" /\ task[w].pc \in Owning
        /\ \A x \in pending[w] : x.batch = b
    BY <1>7, <1>a DEF Committing, GoodTask, Working, Writing, Owning,
                      OutcomeInv, WritersRun, PendingOwned
  <2>3. SignalsOnlyOfSuccess' /\ BoardStep
    BY <1>7, <2>2, SeenApply
  <2>4. /\ batch'[b].status \in {"no_data", "success"}
        /\ \A c \in Batches \ {b} : batch'[c] = batch[c]
    BY <1>7, <2>2, ApplyEnds
  <2>5. pending'[w] = {} /\ \A v \in Workers \ {w} : pending'[v] = pending[v]
    BY <1>7, <1>b DEF Rollback
  <2>6. Owns(w, b)
    BY <2>2 DEF Owns
  <2> HIDE DEF t, b
  <2>7. t.pc \notin Writing
    BY <2>1 DEF Writing
  <2>8. late' = {}
    BY <1>7, <1>a
  <2> QED
    BY <2>1, <2>2, <2>3, <2>4, <2>5, <2>6, <2>7, <2>8, OutcomeStep DEF b
<1>8. ASSUME NEW w \in Workers, CommitScan(w) PROVE OutcomeInv' /\ BoardStep
  BY <1>7, <1>8 DEF CommitScan
<1>9. ASSUME NEW w \in Workers, CommitAnswerLost(w) PROVE OutcomeInv' /\ BoardStep
  BY <1>7, <1>9 DEF CommitAnswerLost
<1>10. ASSUME NEW w \in Workers, CommitAnswerLate(w) PROVE FALSE
  BY <1>10 DEF CommitAnswerLate, TypeInv, TypeOK
<1>11. NoTask.pc \notin Owning
  BY DEF NoTask, Owning
<1>12. ASSUME NEW w \in Workers, SetFailure(w), NEW t, Continue(w, t),
              task[w].pc \in {"mark", "error"}, t.pc \notin Owning,
              UNCHANGED <<signals, pending, late>>
       PROVE  OutcomeInv' /\ BoardStep
  <2> DEFINE b == task[w].batch
  <2>1. b \in Batches /\ batch[b].status = "running" /\ Owns(w, b)
    BY <1>12, <1>a DEF GoodTask, Working, Writing, Owning, Owns, OutcomeInv, WritersRun
  <2>2. /\ batch'[b].status = "failure"
        /\ \A c \in Batches \ {b} : batch'[c] = batch[c]
    BY <1>12, <2>1, FailureEnds
  <2> HIDE DEF b
  <2>3. SignalsOnlyOfSuccess' /\ BoardStep
    BY <1>12, <2>1, <2>2, SeenFailure
  <2>4. t.pc \notin Writing /\ t.pc # "dberror" /\ pending[w] = {}
    BY <1>12, <1>c DEF Owning, Writing
  <2> QED
    BY <1>12, <1>a, <2>1, <2>2, <2>3, <2>4, OutcomeStep
<1>13. ASSUME NEW w \in Workers, RecordScanFailure(w) PROVE OutcomeInv' /\ BoardStep
  <2> DEFINE t == [task[w] EXCEPT !.pc = "reload"]
  <2>1. t.pc \notin Owning
    BY <1>a DEF Task, Owning
  <2>2. SetFailure(w) /\ Continue(w, t) /\ task[w].pc = "error"
        /\ UNCHANGED <<signals, pending, late>>
    BY <1>13 DEF RecordScanFailure
  <2> HIDE DEF t
  <2> QED
    BY <1>12, <2>1, <2>2
<1>14. ASSUME NEW w \in Workers, MarkFailure(w) PROVE OutcomeInv' /\ BoardStep
  BY <1>11, <1>12, <1>14 DEF MarkFailure, Leave
<1>15. ASSUME NEW w \in Workers, ReloadScan(w) PROVE OutcomeInv' /\ BoardStep
  BY <1>1, <1>11, <1>15 DEF ReloadScan, Leave
<1>16. ASSUME NEW w \in Workers, CheckStillRunning(w) PROVE OutcomeInv' /\ BoardStep
  <2>1. task[w].pc = "dberror" /\ UNCHANGED <<batch, signals, pending, late>>
    BY <1>16 DEF CheckStillRunning
  <2>2. CASE batch[task[w].batch].status = "running"
    <3> DEFINE t == [task[w] EXCEPT !.pc = "mark"]
    <3>1. Continue(w, t) /\ t.pc = "mark" /\ t.batch = task[w].batch
      BY <1>16, <1>a, <2>2 DEF CheckStillRunning, Task
    <3> HIDE DEF t
    <3>2. SignalsOnlyOfSuccess' /\ BoardStep
      BY <2>1, SeenNothing
    <3>3. task[w].pc \in Owning /\ pending[w] = {}
      BY <1>c, <2>1 DEF Owning
    <3> QED
      BY <1>a, <2>1, <2>2, <3>1, <3>2, <3>3, OutcomeStep
  <2>3. CASE batch[task[w].batch].status # "running"
    BY <1>1, <1>11, <1>16, <2>1, <2>3 DEF CheckStillRunning, Leave
  <2> QED
    BY <2>2, <2>3
<1>17. ASSUME NEW w \in Workers, NEW t, Continue(w, t), Rollback(w), t.pc \notin Owning,
              UNCHANGED <<batch, signals, late>>
       PROVE  OutcomeInv' /\ BoardStep
  <2>1. SignalsOnlyOfSuccess' /\ BoardStep
    BY <1>17, SeenNothing
  <2>2. t.pc \notin Writing /\ t.pc # "dberror"
    BY <1>17 DEF Owning, Writing
  <2>3. pending'[w] = {} /\ \A v \in Workers \ {w} : pending'[v] = pending[v]
    BY <1>17, <1>b DEF Rollback
  <2> QED
    BY <1>17, <1>a, <2>1, <2>2, <2>3, OutcomeStep
<1>18. ASSUME NEW w \in Workers, NEW phase \in {"dberror", "error"},
              NEW found \in SourcesSoFar(w), task[w].pc \in {"load", "scan"},
              Rollback(w),
              Continue(w, [task[w] EXCEPT !.pc = phase, !.sources = found]),
              UNCHANGED <<batch, signals, late>>
       PROVE  OutcomeInv' /\ BoardStep
  <2> DEFINE t == [task[w] EXCEPT !.pc = phase, !.sources = found]
  <2>1. Continue(w, t) /\ t.batch = task[w].batch /\ t.pc \in Owning
    BY <1>18, <1>a DEF Task, Owning
  <2>2. pending'[w] = {} /\ \A v \in Workers \ {w} : pending'[v] = pending[v]
    BY <1>18, <1>b DEF Rollback
  <2>3. task[w].pc \in Writing
    BY <1>18 DEF Writing
  <2> HIDE DEF t
  <2> QED
    BY <1>4, <1>18, <2>1, <2>2, <2>3
<1>19. ASSUME NEW w \in Workers, DatabaseError(w) PROVE OutcomeInv' /\ BoardStep
  <2>1. Rollback(w) /\ UNCHANGED <<batch, signals, late>>
    BY <1>19 DEF DatabaseError
  <2>2. CASE task[w].pc \in {"load", "scan"}
    <3>1. PICK found \in SourcesSoFar(w) :
              Continue(w, [task[w] EXCEPT !.pc = "dberror", !.sources = found])
      BY <1>19, <2>2 DEF DatabaseError
    <3> QED
      BY <1>18, <2>1, <2>2, <3>1
  <2>3. CASE task[w].pc \notin {"load", "scan"}
    BY <1>11, <1>17, <1>19, <2>1, <2>3 DEF DatabaseError, Leave
  <2> QED
    BY <2>2, <2>3
<1>20. ASSUME NEW w \in Workers, OtherError(w) PROVE OutcomeInv' /\ BoardStep
  <2>1. Rollback(w) /\ UNCHANGED <<batch, signals, late>> /\ task[w].pc \in {"load", "scan"}
    BY <1>20 DEF OtherError
  <2>2. PICK found \in SourcesSoFar(w) :
            Continue(w, [task[w] EXCEPT !.pc = "error", !.sources = found])
    BY <1>20 DEF OtherError
  <2> QED
    BY <1>18, <2>1, <2>2
<1>21. ASSUME NEW w \in Workers, Lose(w) PROVE OutcomeInv' /\ BoardStep
  BY <1>11, <1>17, <1>21 DEF Lose, Leave
<1>26. ASSUME NEW w \in Workers, OpenAnswerLost(w) PROVE OutcomeInv' /\ BoardStep
  <2> DEFINE t == NoTask
  <2>1. PICK b \in Batches : Insert(w, b)
    BY <1>26 DEF OpenAnswerLost
  <2>2. Continue(w, t) /\ task[w].pc # "scan" /\ UNCHANGED <<signals, pending, late>>
    BY <1>26 DEF OpenAnswerLost, Leave
  <2>3. t.pc \notin Owning /\ t.pc \notin Writing /\ t.pc # "dberror" /\ t.pc # "scan"
    BY <1>11 DEF Owning, Writing
  <2>4. /\ batch[b].status = "absent" /\ batch'[b].status = "running"
        /\ \A c \in Batches \ {b} : batch'[c] = batch[c]
    BY <2>1, InsertEffect
  <2> HIDE DEF t
  <2>5. SignalsOnlyOfSuccess' /\ BoardStep
    BY <2>2, <2>4, SeenOpen
  <2> QED
    BY <1>a, <1>c, <2>2, <2>3, <2>4, <2>5, OutcomeStep
<1>22. ASSUME NEW l, Lands(l) \/ Drops(l) PROVE FALSE
  BY <1>22, <1>a DEF Lands, Drops
<1>23. ASSUME UNCHANGED <<batch, signals, task, pending, late>>
       PROVE  OutcomeInv' /\ BoardStep
  <2>1. SignalsOnlyOfSuccess' /\ BoardStep
    BY <1>23, SeenNothing
  <2> QED
    BY <1>23, <2>1 DEF OutcomeInv, PendingOwned, WritersRun, SoleOwner, Owns
<1>24. ASSUME Tick PROVE OutcomeInv' /\ BoardStep
  BY <1>23, <1>24 DEF Tick
<1>25. ASSUME UNCHANGED vars PROVE OutcomeInv' /\ BoardStep
  BY <1>23, <1>25 DEF vars
<1> QED
  BY <1>2, <1>3, <1>5, <1>6, <1>8, <1>9, <1>10, <1>13, <1>14, <1>15, <1>16,
     <1>19, <1>20, <1>21, <1>22, <1>24, <1>25, <1>26
  DEF Next, Scan, Fail, Server, Quiescent

\* Nothing is stored or started in the initial state.
LEMMA OutcomeInit == Init => OutcomeInv /\ Board!BoardInit
BY DEF Init, NoBatch, NoTask, OutcomeInv, SignalsOnlyOfSuccess, PendingOwned,
       WritersRun, Writing, SoleOwner, Owns, Owning, Board!BoardInit

\* No step takes back that a client gave up.
LEMMA LatesGrow == TypeInv /\ [Next]_vars /\ lates' = 0 => lates = 0
<1> SUFFICES ASSUME TypeInv, [Next]_vars, lates' = 0 PROVE lates = 0
  OBVIOUS
<1>1. lates \in Nat
  BY BoundsAssumption DEF TypeInv, TypeOK
<1>2. ASSUME NEW w \in Workers, StartScan(w) PROVE lates = 0
  BY <1>2 DEF StartScan, spent
<1>3. ASSUME NEW w \in Workers, OpenBatch(w) PROVE lates = 0
  BY <1>3 DEF OpenBatch, Insert, spent
<1>4. ASSUME NEW w \in Workers, LoadSources(w) PROVE lates = 0
  BY <1>4 DEF LoadSources, spent
<1>5. ASSUME NEW w \in Workers, AddCandidate(w) PROVE lates = 0
  BY <1>5 DEF AddCandidate, spent
<1>6. ASSUME NEW w \in Workers, CommitScan(w) PROVE lates = 0
  BY <1>6 DEF CommitScan, Apply, spent
<1>7. ASSUME NEW w \in Workers, ReloadScan(w) PROVE lates = 0
  BY <1>7 DEF ReloadScan, spent
<1>8. ASSUME NEW w \in Workers, RecordScanFailure(w) PROVE lates = 0
  BY <1>8 DEF RecordScanFailure, SetFailure, spent
<1>9. ASSUME NEW w \in Workers, CheckStillRunning(w) PROVE lates = 0
  BY <1>9 DEF CheckStillRunning, spent
<1>10. ASSUME NEW w \in Workers, MarkFailure(w) PROVE lates = 0
  BY <1>10 DEF MarkFailure, SetFailure, spent
<1>11. ASSUME NEW w \in Workers, CommitAnswerLost(w) PROVE lates = 0
  BY <1>11 DEF CommitAnswerLost, Apply, spent
<1>12. ASSUME NEW w \in Workers, CommitAnswerLate(w) PROVE lates = 0
  BY <1>1, <1>12 DEF CommitAnswerLate, spent
<1>13. ASSUME NEW w \in Workers, DatabaseError(w) PROVE lates = 0
  BY <1>13 DEF DatabaseError, spent
<1>14. ASSUME NEW w \in Workers, OtherError(w) PROVE lates = 0
  BY <1>14 DEF OtherError, spent
<1>15. ASSUME NEW w \in Workers, Lose(w) PROVE lates = 0
  BY <1>15 DEF Lose, spent
<1>17. ASSUME NEW w \in Workers, OpenAnswerLost(w) PROVE lates = 0
  BY <1>17 DEF OpenAnswerLost, spent
<1>16. ASSUME Server \/ Tick \/ UNCHANGED vars PROVE lates = 0
  BY <1>16 DEF Server, Lands, Drops, Tick, vars, spent
<1> QED
  BY <1>2, <1>3, <1>4, <1>5, <1>6, <1>7, <1>8, <1>9,
     <1>10, <1>11, <1>12, <1>13, <1>14, <1>15, <1>16, <1>17 DEF Next, Scan, Fail, Quiescent

\* As long as no commit is decided after its client gave up, a signal is in the
\* database exactly when its batch ended in success, whatever raised wherever
\* and however scans overlap.
THEOREM OutcomeCorrect == Spec => []OutcomesAreSound
<1> DEFINE Inv == lates = 0 => OutcomeInv
<1>1. Init => Inv
  BY OutcomeInit
<1>2. TypeInv /\ Inv /\ [Next]_vars => Inv'
  BY OutcomeNext, LatesGrow
<1>3. Inv => OutcomesAreSound
  BY DEF OutcomeInv, OutcomesAreSound
<1> HIDE DEF Inv
<1> QED
  BY <1>1, <1>2, <1>3, TypeAlways, PTL DEF Spec

\* So long the scans implement the board: each outcome appears once and for good,
\* in one step with all of its signals.
THEOREM BoardCorrect == Spec => ImplementsBoard
<1> DEFINE Inv == lates = 0 => OutcomeInv
           Seen == lates' = 0 => [Board!BoardNext]_(Board!boardVars)
<1>1. Init => Inv /\ Board!BoardInit
  BY OutcomeInit
<1>2. TypeInv /\ Inv /\ [Next]_vars => Inv' /\ Seen
  BY OutcomeNext, LatesGrow DEF BoardStep
<1>3. Seen => [Seen]_vars
  OBVIOUS
<1>4. ImplementsBoard <=> Board!BoardInit /\ [][Seen]_vars
  BY DEF ImplementsBoard
<1> HIDE DEF Inv, Seen
<1> QED
  BY <1>1, <1>2, <1>3, <1>4, TypeAlways, PTL DEF Spec

(***************************************************************************)
(* Evidence.  However scans overlap, fail or commit late, a quick report   *)
(* candidate has its P1 signals in the database.  A scan counts what is    *)
(* committed and what its own session has flushed: the first stays, and    *)
(* the second is committed with the candidate or not at all.               *)
(***************************************************************************)

\* The evidence for signal x among rows, when its scan started at that time.
Evidence(x, rows, started) ==
    {y \in rows \ {x} : /\ y.key = x.key /\ y.priority = "P1"
                        /\ started - y.created <= Window}
Justified(x, rows, started) ==
    x.quick => /\ x.priority = "P1"
               /\ Cardinality(Evidence(x, rows, started)) >= Trigger - 1

\* Signals as a session adds them, given the batches b and the last id n: what one of
\* them counted is among rows.
Accounted(new, rows, b, n) ==
    \A x \in new : /\ x.id <= n
                   /\ b[x.batch].status # "absent"
                   /\ Justified(x, rows, b[x.batch].started)

\* A worker scans with the start time of its batch.
StartsAgree ==
    \A w \in Workers : task[w].pc \in Working =>
        /\ batch[task[w].batch].status # "absent"
        /\ batch[task[w].batch].started = task[w].started

EvidenceInv ==
    /\ Accounted(signals, signals, batch, lastId)
    /\ \A w \in Workers : Accounted(pending[w], signals \cup pending[w], batch, lastId)
    /\ \A l \in late : Accounted(l.rows, signals \cup l.rows, batch, lastId)
    /\ StartsAgree

\* Batches that were opened stay, with their start times.
Keeps(b, b2) ==
    \A c \in Batches : b[c].status # "absent" =>
        b2[c].status # "absent" /\ b2[c].started = b[c].started

\* Evidence only grows with the rows, and no other step takes it away.
LEMMA AccountedStays ==
    ASSUME NEW new \in SUBSET Signal, NEW rows, NEW more, rows \subseteq more, IsFiniteSet(more),
           NEW b, NEW b2, Keeps(b, b2), NEW n \in Nat, NEW n2 \in Nat, n <= n2,
           Accounted(new, rows, b, n)
    PROVE  Accounted(new, more, b2, n2)
<1> SUFFICES ASSUME NEW x \in new
             PROVE  /\ x.id <= n2 /\ b2[x.batch].status # "absent"
                    /\ Justified(x, more, b2[x.batch].started)
  BY DEF Accounted
<1>1. x.id \in Nat /\ x.batch \in Batches
  BY DEF Signal
<1>2. /\ x.id <= n /\ b[x.batch].status # "absent"
      /\ Justified(x, rows, b[x.batch].started)
  BY DEF Accounted
<1>3. b2[x.batch].status # "absent" /\ b2[x.batch].started = b[x.batch].started
  BY <1>1, <1>2 DEF Keeps
<1> DEFINE old == Evidence(x, rows, b[x.batch].started)
           now2 == Evidence(x, more, b[x.batch].started)
<1>4. old \subseteq now2 /\ now2 \subseteq more
  BY DEF Evidence
<1>5. IsFiniteSet(now2)
  BY <1>4, FS_Subset
<1>6. Cardinality(old) \in Nat /\ Cardinality(now2) \in Nat /\ Cardinality(old) <= Cardinality(now2)
  <2> HIDE DEF old, now2
  <2> QED BY <1>4, <1>5, FS_Subset, FS_CardinalityType
<1>7. Justified(x, more, b[x.batch].started)
  BY <1>2, <1>6, SettingsAssumption DEF Justified
<1> QED BY <1>1, <1>2, <1>3, <1>7

\* The signal of a candidate is justified by what its session sees.
LEMMA NewSignalJustified ==
    ASSUME TypeInv, EvidenceInv, NEW w \in Workers, task[w].pc = "scan", NEW c \in Candidate
    PROVE  LET x == NewSignal(w, c)
           IN  Justified(x, signals \cup pending[w] \cup {x}, task[w].started)
<1> DEFINE x == NewSignal(w, c)
           rows == signals \cup pending[w]
           started == task[w].started
           history == SignalHistory(w, c.key)
           Goes(y) == y.priority = "P1" /\ WithinContinuityWindow(y.created, started)
           streak == {y \in history : \A z \in history : z = y \/ Newer(z, y) => Goes(z)}
           count == ConsecutiveP1Count(history, c.priority, started)
<1>1. /\ x.id = lastId + 1 /\ x.key = c.key /\ x.priority = c.priority
      /\ x.quick = (count >= Trigger)
  BY DEF NewSignal
<1>2. count = IF c.priority # "P1" THEN 0 ELSE 1 + Cardinality(streak)
  BY DEF ConsecutiveP1Count
<1>3. x \notin rows
  <2>1. \A y \in rows : y.id <= lastId
    BY DEF EvidenceInv, Accounted
  <2>2. lastId \in Nat
    BY DEF TypeInv, TypeOK
  <2> HIDE DEF x, rows
  <2> QED BY <1>1, <2>1, <2>2
<1>4. \A y \in history : y \in rows /\ y.key = c.key
  BY DEF SignalHistory
<1>5. streak \subseteq Evidence(x, rows \cup {x}, started)
  <2>1. \A y \in streak : y \in history /\ Goes(y)
    OBVIOUS
  <2> HIDE DEF streak, history, rows, x
  <2> QED BY <1>1, <1>3, <1>4, <2>1 DEF Evidence, WithinContinuityWindow
<1>6. IsFiniteSet(Evidence(x, rows \cup {x}, started))
  <2>1. IsFiniteSet(rows)
    BY FS_Union DEF TypeInv, FiniteRows
  <2> HIDE DEF rows, x
  <2>2. IsFiniteSet(rows \cup {x})
    BY <2>1, FS_AddElement
  <2>3. Evidence(x, rows \cup {x}, started) \subseteq rows \cup {x}
    BY DEF Evidence
  <2> QED BY <2>2, <2>3, FS_Subset
<1> DEFINE evidence == Evidence(x, rows \cup {x}, started)
<1>7. /\ Cardinality(streak) \in Nat /\ Cardinality(evidence) \in Nat
      /\ Cardinality(streak) <= Cardinality(evidence)
  <2>1. streak \subseteq evidence /\ IsFiniteSet(evidence)
    BY <1>5, <1>6
  <2> HIDE DEF streak, evidence
  <2> QED BY <2>1, FS_Subset, FS_CardinalityType
<1> HIDE DEF x, rows, streak, history, count, started
<1>8. Justified(x, rows \cup {x}, started)
  <2> SUFFICES ASSUME x.quick
               PROVE  x.priority = "P1" /\ Cardinality(evidence) >= Trigger - 1
    BY DEF Justified
  <2> HIDE DEF evidence
  <2>1. count >= Trigger
    BY <1>1
  <2> QED BY <1>1, <1>2, <1>7, <2>1, SettingsAssumption
<1> QED BY <1>8 DEF x, rows, started

\* What most steps do: rows move from a session, or from a late commit, to the table.
LEMMA EvidenceStep ==
    ASSUME TypeInv, TypeInv', EvidenceInv, Keeps(batch, batch'), lastId <= lastId',
           StartsAgree',
           \/ signals' = signals
           \/ \E w \in Workers : signals' = signals \cup pending[w]
           \/ \E l \in late : signals' = signals \cup l.rows,
           \A w \in Workers :
               \/ pending'[w] \in {{}, pending[w]}
               \/ Accounted(pending'[w], signals' \cup pending'[w], batch', lastId'),
           \A l \in late' : l \in late \/ \E w \in Workers : l.rows = pending[w]
    PROVE  EvidenceInv'
<1>1. lastId \in Nat /\ lastId' \in Nat /\ IsFiniteSet(signals')
  BY DEF TypeInv, TypeOK, FiniteRows
<1>2. signals \subseteq signals' /\ signals \in SUBSET Signal
  BY DEF TypeInv, TypeOK
<1>3. ASSUME NEW rows \in SUBSET Signal, IsFiniteSet(rows),
             Accounted(rows, signals \cup rows, batch, lastId)
      PROVE  Accounted(rows, signals' \cup rows, batch', lastId')
  <2>1. IsFiniteSet(signals' \cup rows) /\ signals \cup rows \subseteq signals' \cup rows
    BY <1>1, <1>2, <1>3, FS_Union
  <2> QED BY <1>1, <1>3, <2>1, AccountedStays
<1>4. Accounted(signals, signals', batch', lastId')
  BY <1>1, <1>2, AccountedStays DEF EvidenceInv
<1>5. \A w \in Workers : /\ pending[w] \in SUBSET Signal /\ IsFiniteSet(pending[w])
                         /\ Accounted(pending[w], signals \cup pending[w], batch, lastId)
  BY DEF TypeInv, TypeOK, FiniteRows, EvidenceInv
<1>6. \A l \in late : /\ l.rows \in SUBSET Signal /\ IsFiniteSet(l.rows)
                      /\ Accounted(l.rows, signals \cup l.rows, batch, lastId)
  BY DEF TypeInv, TypeOK, FiniteRows, EvidenceInv, LateCommit
<1>7. \A w \in Workers : Accounted(pending[w], signals' \cup pending[w], batch', lastId')
  BY <1>3, <1>5
<1>8. \A l \in late : Accounted(l.rows, signals' \cup l.rows, batch', lastId')
  BY <1>3, <1>6
<1>9. Accounted(signals', signals', batch', lastId')
  <2>1. CASE signals' = signals
    BY <1>4, <2>1
  <2>2. ASSUME NEW rows, signals' = signals \cup rows,
               Accounted(rows, signals' \cup rows, batch', lastId')
        PROVE  Accounted(signals', signals', batch', lastId')
    <3>1. signals' \cup rows = signals'
      BY <2>2
    <3> QED BY <1>4, <2>2, <3>1 DEF Accounted
  <2> QED BY <1>7, <1>8, <2>1, <2>2
<1>10. ASSUME NEW w \in Workers
       PROVE  Accounted(pending'[w], signals' \cup pending'[w], batch', lastId')
  <2>1. CASE pending'[w] = {}
    BY <2>1 DEF Accounted
  <2> QED BY <1>7, <2>1
<1>11. ASSUME NEW l \in late' PROVE Accounted(l.rows, signals' \cup l.rows, batch', lastId')
  BY <1>7, <1>8
<1> QED BY <1>9, <1>10, <1>11 DEF EvidenceInv

\* The starts of the batches agree with their workers' after a step of one worker that
\* keeps its batch and its start, or has none afterwards.
LEMMA StartsStay ==
    ASSUME TypeInv, EvidenceInv, NEW w \in Workers, NEW t, Continue(w, t), Keeps(batch, batch'),
           \/ t.pc \notin Working
           \/ task[w].pc \in Working /\ t.batch = task[w].batch /\ t.started = task[w].started
    PROVE  StartsAgree'
<1>1. \A v \in Workers : task'[v] = IF v = w THEN t ELSE task[v]
  BY DEF Continue, TypeInv, TypeOK
<1>2. \A v \in Workers : task[v].pc \in Working => task[v].batch \in Batches
  BY DEF TypeInv, GoodTask
<1> QED
  BY <1>1, <1>2 DEF StartsAgree, EvidenceInv, Keeps

\* The outcome of a batch leaves its start time, and the other batches, alone.
LEMMA ApplyKeeps ==
    ASSUME TypeInv, NEW b \in Batches, NEW found, NEW rows, Apply(b, found, rows)
    PROVE  Keeps(batch, batch')
<1>1. batch \in [Batches -> Batch] /\ batch[b] \in Batch
  BY DEF TypeInv, TypeOK
<1> DEFINE outcome == IF rows = {} THEN "no_data" ELSE "success"
<1>2. batch' = [batch EXCEPT ![b].status = outcome, ![b].sources = found] /\ outcome # "absent"
  BY DEF Apply
<1> HIDE DEF outcome
<1>3. /\ batch'[b].status = outcome /\ batch'[b].started = batch[b].started
      /\ \A c \in Batches \ {b} : batch'[c] = batch[c]
  BY <1>1, <1>2 DEF Batch
<1> QED
  BY <1>2, <1>3 DEF Keeps

\* So does its failure.
LEMMA FailureKeeps ==
    ASSUME TypeInv, NEW w \in Workers, task[w].batch \in Batches, SetFailure(w)
    PROVE  Keeps(batch, batch')
<1>1. batch \in [Batches -> Batch] /\ batch[task[w].batch] \in Batch
  BY DEF TypeInv, TypeOK
<1>2. /\ batch'[task[w].batch].status = "failure"
      /\ batch'[task[w].batch].started = batch[task[w].batch].started
      /\ \A c \in Batches \ {task[w].batch} : batch'[c] = batch[c]
  BY <1>1 DEF SetFailure, Batch
<1> QED
  BY <1>2 DEF Keeps

\* A candidate is added to what its session has flushed with its evidence in sight.
LEMMA AddAccounted ==
    ASSUME TypeInv, TypeInv', EvidenceInv, NEW w \in Workers, AddCandidate(w)
    PROVE  Accounted(pending'[w], signals' \cup pending'[w], batch', lastId')
<1> DEFINE c == Head(task[w].todo)
           x == NewSignal(w, c)
           rows == signals \cup pending[w]
<1>1. /\ task[w].pc = "scan" /\ task[w].todo # <<>> /\ lastId' = lastId + 1
      /\ UNCHANGED <<batch, signals>>
      /\ pending' = [pending EXCEPT ![w] = @ \cup {x}]
  BY DEF AddCandidate
<1>2. c \in Candidate /\ lastId \in Nat /\ task[w].batch \in Batches
  BY <1>1 DEF TypeInv, TypeOK, GoodTask, Task, Working
<1>3. Justified(x, rows \cup {x}, task[w].started)
  BY <1>1, <1>2, NewSignalJustified
<1>4. x.id = lastId + 1 /\ x.batch = task[w].batch
  BY DEF NewSignal
<1>5. batch[task[w].batch].status # "absent" /\ batch[task[w].batch].started = task[w].started
  BY <1>1 DEF EvidenceInv, StartsAgree, Working
<1> HIDE DEF x, c
<1>6. pending'[w] = pending[w] \cup {x}
  BY <1>1 DEF TypeInv, TypeOK
<1>7. IsFiniteSet(rows \cup {x}) /\ pending[w] \in SUBSET Signal
  <2>1. IsFiniteSet(rows)
    BY FS_Union DEF TypeInv, FiniteRows
  <2> QED BY <2>1, FS_AddElement DEF TypeInv, TypeOK
<1>8. Accounted(pending[w], rows, batch, lastId) /\ Keeps(batch, batch)
  BY DEF EvidenceInv, Keeps
<1>9. Accounted(pending[w], rows \cup {x}, batch, lastId + 1)
  <2> HIDE DEF rows
  <2> QED BY <1>2, <1>7, <1>8, AccountedStays
<1>10. Accounted({x}, rows \cup {x}, batch, lastId + 1)
  BY <1>2, <1>3, <1>4, <1>5 DEF Accounted
<1>11. signals' \cup pending'[w] = rows \cup {x}
  BY <1>1, <1>6
<1> QED
  BY <1>1, <1>6, <1>9, <1>10, <1>11 DEF Accounted

\* Every step keeps every candidate's evidence where the candidate is.
LEMMA EvidenceNext == TypeInv /\ TypeInv' /\ EvidenceInv /\ [Next]_vars => EvidenceInv'
<1> SUFFICES ASSUME TypeInv, TypeInv', EvidenceInv, [Next]_vars PROVE EvidenceInv'
  OBVIOUS
<1> USE DEF spent
<1>a. /\ lastId \in Nat /\ Keeps(batch, batch)
      /\ \A w \in Workers : task[w] \in Task /\ GoodTask(task[w])
  BY DEF TypeInv, TypeOK, GoodTask, Keeps
<1>b. \A w \in Workers : Rollback(w) => \A v \in Workers : pending'[v] \in {{}, pending[v]}
  BY DEF Rollback, TypeInv, TypeOK
<1>c. NoTask.pc \notin Working
  BY DEF NoTask, Working
\* A worker's step that gives at most its own batch an outcome.
<1>1. ASSUME NEW w \in Workers, NEW t, Continue(w, t), Keeps(batch, batch'),
             \/ t.pc \notin Working
             \/ task[w].pc \in Working /\ t.batch = task[w].batch /\ t.started = task[w].started,
             signals' = signals \/ signals' = signals \cup pending[w],
             UNCHANGED pending \/ Rollback(w), lastId' = lastId,
             late' = late \/ \A l \in late' : l \in late \/ l.rows = pending[w]
      PROVE  EvidenceInv'
  <2>1. StartsAgree'
    BY <1>1, StartsStay
  <2>2. \A v \in Workers : pending'[v] \in {{}, pending[v]}
    BY <1>1, <1>b
  <2> QED BY <1>1, <1>a, <2>1, <2>2, EvidenceStep
<1>2. ASSUME NEW w \in Workers, Leave(w), Keeps(batch, batch'),
             UNCHANGED <<signals, lastId, late>>, UNCHANGED pending \/ Rollback(w)
      PROVE  EvidenceInv'
  <2> DEFINE t == NoTask
  <2>1. Continue(w, t) /\ t.pc \notin Working
    BY <1>2, <1>c DEF Leave
  <2> HIDE DEF t
  <2> QED BY <1>1, <1>2, <2>1
<1>3. ASSUME NEW w \in Workers, NEW phase, Continue(w, [task[w] EXCEPT !.pc = phase]),
             task[w].pc \in Working, Keeps(batch, batch'),
             signals' = signals \/ signals' = signals \cup pending[w],
             UNCHANGED pending \/ Rollback(w), lastId' = lastId,
             late' = late \/ \A l \in late' : l \in late \/ l.rows = pending[w]
      PROVE  EvidenceInv'
  <2> DEFINE t == [task[w] EXCEPT !.pc = phase]
  <2>1. t.batch = task[w].batch /\ t.started = task[w].started /\ Continue(w, t)
    BY <1>3, <1>a DEF Task
  <2> HIDE DEF t
  <2> QED BY <1>1, <1>3, <2>1
<1>4. ASSUME NEW w \in Workers, StartScan(w) PROVE EvidenceInv'
  <2> DEFINE t == [NoTask EXCEPT !.pc = "stamped", !.started = now]
  <2>1. Continue(w, t) /\ t.pc \notin Working
    BY <1>4 DEF StartScan, NoTask, Working
  <2> HIDE DEF t
  <2> QED BY <1>1, <1>4, <1>a, <2>1 DEF StartScan
<1>5. ASSUME NEW w \in Workers, OpenBatch(w) PROVE EvidenceInv'
  <2>1. PICK b \in Batches :
            /\ batch[b].status = "absent"
            /\ batch' = [batch EXCEPT ![b] = [status |-> "running", sources |-> FALSE,
                                              started |-> task[w].started]]
            /\ Continue(w, [task[w] EXCEPT !.pc = "load", !.batch = b])
    BY <1>5 DEF OpenBatch, Insert
  <2> DEFINE t == [task[w] EXCEPT !.pc = "load", !.batch = b]
  <2>2. Continue(w, t) /\ t.batch = b /\ t.started = task[w].started
    BY <1>a, <2>1 DEF Task
  <2>3. /\ batch'[b].status = "running" /\ batch'[b].started = task[w].started
        /\ \A c \in Batches \ {b} : batch'[c] = batch[c]
    BY <2>1 DEF TypeInv, TypeOK
  <2> HIDE DEF t
  <2>4. Keeps(batch, batch')
    BY <2>1, <2>3 DEF Keeps
  <2>5. \A v \in Workers : task'[v] = IF v = w THEN t ELSE task[v]
    BY <2>2 DEF Continue, TypeInv, TypeOK
  <2>6. \A v \in Workers : task[v].pc \in Working => task[v].batch \in Batches
    BY <1>a DEF GoodTask
  <2>7. StartsAgree'
    BY <2>1, <2>2, <2>3, <2>5, <2>6 DEF StartsAgree, EvidenceInv
  <2> QED BY <1>5, <1>a, <2>4, <2>7, EvidenceStep DEF OpenBatch, Insert
<1>6. ASSUME NEW w \in Workers, LoadSources(w) PROVE EvidenceInv'
  <2>1. PICK found \in BOOLEAN, list \in CandidateLists :
            Continue(w, [task[w] EXCEPT !.pc = "scan", !.created = now,
                                        !.sources = found, !.todo = list])
    BY <1>6 DEF LoadSources
  <2> DEFINE t == [task[w] EXCEPT !.pc = "scan", !.created = now,
                                  !.sources = found, !.todo = list]
  <2>2. Continue(w, t) /\ t.batch = task[w].batch /\ t.started = task[w].started
    BY <1>a, <2>1 DEF Task
  <2> HIDE DEF t
  <2> QED BY <1>1, <1>6, <1>a, <2>2 DEF LoadSources, Working
<1>7. ASSUME NEW w \in Workers, AddCandidate(w) PROVE EvidenceInv'
  <2> DEFINE t == [task[w] EXCEPT !.todo = Tail(@)]
  <2>1. /\ Continue(w, t) /\ t.batch = task[w].batch /\ t.started = task[w].started
        /\ task[w].pc \in Working
    BY <1>7, <1>a DEF AddCandidate, Task, Working
  <2> HIDE DEF t
  <2>2. Keeps(batch, batch') /\ UNCHANGED <<signals, late>> /\ lastId <= lastId'
    BY <1>7, <1>a DEF AddCandidate
  <2>3. StartsAgree'
    BY <2>1, <2>2, StartsStay
  <2>4. \A v \in Workers \ {w} : pending'[v] = pending[v]
    BY <1>7 DEF AddCandidate, TypeInv, TypeOK
  <2>5. Accounted(pending'[w], signals' \cup pending'[w], batch', lastId')
    BY <1>7, AddAccounted
  <2>6. \A v \in Workers : \/ pending'[v] \in {{}, pending[v]}
                           \/ Accounted(pending'[v], signals' \cup pending'[v], batch', lastId')
    BY <2>4, <2>5
  <2> QED BY <2>2, <2>3, <2>6, EvidenceStep
<1>8. ASSUME NEW w \in Workers, Committing(w),
             Apply(task[w].batch, task[w].sources, pending[w])
      PROVE  /\ Keeps(batch, batch') /\ task[w].pc \in Working
             /\ signals' = signals \cup pending[w]
  <2>1. task[w].pc \in Working /\ task[w].batch \in Batches
    BY <1>a, <1>8 DEF Committing, GoodTask, Working
  <2> QED BY <1>8, <2>1, ApplyKeeps DEF Apply
<1>9. ASSUME NEW w \in Workers, CommitScan(w) PROVE EvidenceInv'
  BY <1>3, <1>8, <1>9 DEF CommitScan
<1>10. ASSUME NEW w \in Workers, CommitAnswerLost(w) PROVE EvidenceInv'
  BY <1>3, <1>8, <1>10 DEF CommitAnswerLost
<1>11. ASSUME NEW w \in Workers, CommitAnswerLate(w) PROVE EvidenceInv'
  <2>1. task[w].pc \in Working /\ \A l \in late' : l \in late \/ l.rows = pending[w]
    BY <1>11 DEF CommitAnswerLate, Committing, Working
  <2> QED BY <1>3, <1>11, <1>a, <2>1 DEF CommitAnswerLate
<1>12. ASSUME NEW w \in Workers, task[w].pc \in Working, SetFailure(w)
       PROVE  Keeps(batch, batch')
  BY <1>12, <1>a, FailureKeeps DEF GoodTask
<1>13. ASSUME NEW w \in Workers, RecordScanFailure(w) PROVE EvidenceInv'
  <2>1. task[w].pc \in Working
    BY <1>13 DEF RecordScanFailure, Working
  <2> QED BY <1>3, <1>12, <1>13, <2>1 DEF RecordScanFailure
<1>14. ASSUME NEW w \in Workers, MarkFailure(w) PROVE EvidenceInv'
  <2>1. task[w].pc \in Working
    BY <1>14 DEF MarkFailure, Working
  <2> QED BY <1>2, <1>12, <1>14, <2>1 DEF MarkFailure
<1>15. ASSUME NEW w \in Workers, ReloadScan(w) PROVE EvidenceInv'
  BY <1>2, <1>15, <1>a DEF ReloadScan
<1>16. ASSUME NEW w \in Workers, CheckStillRunning(w) PROVE EvidenceInv'
  <2>1. task[w].pc \in Working
    BY <1>16 DEF CheckStillRunning, Working
  <2>2. Leave(w) \/ Continue(w, [task[w] EXCEPT !.pc = "mark"])
    BY <1>16 DEF CheckStillRunning
  <2> QED BY <1>2, <1>3, <1>16, <1>a, <2>1, <2>2 DEF CheckStillRunning
<1>17. ASSUME NEW w \in Workers, NEW phase \in {"dberror", "error"},
              NEW found \in SourcesSoFar(w), task[w].pc \in {"load", "scan"},
              Continue(w, [task[w] EXCEPT !.pc = phase, !.sources = found]),
              Rollback(w), UNCHANGED <<batch, signals, lastId, late>>
       PROVE  EvidenceInv'
  <2> DEFINE t == [task[w] EXCEPT !.pc = phase, !.sources = found]
  <2>1. /\ Continue(w, t) /\ t.batch = task[w].batch /\ t.started = task[w].started
        /\ task[w].pc \in Working
    BY <1>17, <1>a DEF Task, Working
  <2> HIDE DEF t
  <2> QED BY <1>1, <1>17, <1>a, <2>1
<1>18. ASSUME NEW w \in Workers, DatabaseError(w) PROVE EvidenceInv'
  <2>1. UNCHANGED <<batch, signals, lastId, late>> /\ Rollback(w)
    BY <1>18 DEF DatabaseError
  <2>2. CASE task[w].pc \in {"load", "scan"}
    <3>1. PICK found \in SourcesSoFar(w) :
              Continue(w, [task[w] EXCEPT !.pc = "dberror", !.sources = found])
      BY <1>18, <2>2 DEF DatabaseError
    <3> QED BY <1>17, <2>1, <2>2, <3>1
  <2>3. CASE task[w].pc \notin {"load", "scan"}
    <3>1. Leave(w)
      BY <1>18, <2>3 DEF DatabaseError
    <3> QED BY <1>2, <1>a, <2>1, <3>1
  <2> QED BY <2>2, <2>3
<1>19. ASSUME NEW w \in Workers, OtherError(w) PROVE EvidenceInv'
  <2>1. /\ UNCHANGED <<batch, signals, lastId, late>> /\ Rollback(w)
        /\ task[w].pc \in {"load", "scan"}
    BY <1>19 DEF OtherError
  <2>2. PICK found \in SourcesSoFar(w) :
            Continue(w, [task[w] EXCEPT !.pc = "error", !.sources = found])
    BY <1>19 DEF OtherError
  <2> QED BY <1>17, <2>1, <2>2
<1>20. ASSUME NEW w \in Workers, Lose(w) PROVE EvidenceInv'
  BY <1>2, <1>20, <1>a DEF Lose
<1>26. ASSUME NEW w \in Workers, OpenAnswerLost(w) PROVE EvidenceInv'
  <2>1. PICK b \in Batches : Insert(w, b)
    BY <1>26 DEF OpenAnswerLost
  <2>2. Keeps(batch, batch')
    BY <2>1, InsertEffect DEF Keeps
  <2> QED BY <1>2, <1>26, <2>2 DEF OpenAnswerLost
<1>21. ASSUME UNCHANGED <<batch, signals, pending, task, lastId>>, late' \subseteq late
       PROVE  EvidenceInv'
  <2>1. StartsAgree'
    BY <1>21 DEF EvidenceInv, StartsAgree
  <2> QED BY <1>21, <1>a, <2>1, EvidenceStep
<1>22. ASSUME NEW l, Lands(l) PROVE EvidenceInv'
  <2>1. l \in late /\ Apply(l.batch, l.sources, l.rows) /\ late' \subseteq late
        /\ UNCHANGED <<task, pending, lastId>>
    BY <1>22 DEF Lands
  <2>2. l.batch \in Batches
    BY <2>1 DEF TypeInv, TypeOK, LateCommit
  <2>3. Keeps(batch, batch') /\ signals' = signals \cup l.rows
    BY <2>1, <2>2, ApplyKeeps DEF Apply
  <2>4. \A v \in Workers : task[v].pc \in Working => task[v].batch \in Batches
    BY <1>a DEF GoodTask
  <2>5. StartsAgree'
    BY <2>1, <2>3, <2>4 DEF EvidenceInv, StartsAgree, Keeps
  <2> QED BY <1>a, <2>1, <2>3, <2>5, EvidenceStep
<1>23. ASSUME NEW l, Drops(l) PROVE EvidenceInv'
  BY <1>21, <1>23 DEF Drops
<1>24. CASE Tick
  BY <1>21, <1>24 DEF Tick
<1>25. CASE UNCHANGED vars
  BY <1>21, <1>25 DEF vars
<1> QED
  BY <1>4, <1>5, <1>6, <1>7, <1>9, <1>10, <1>11, <1>13, <1>14, <1>15, <1>16, <1>18,
     <1>19, <1>20, <1>22, <1>23, <1>24, <1>25, <1>26
  DEF Next, Scan, Fail, Server, Quiescent

\* However scans overlap, fail, or commit after their client gave up, a stored quick
\* report candidate has its other P1 signals of the window in the database.
THEOREM EvidenceCorrect == Spec => []QuickHasEvidence
<1>1. Init => EvidenceInv
  BY DEF Init, EvidenceInv, Accounted, StartsAgree, NoTask, Working
<1>2. TypeInv /\ EvidenceInv => QuickHasEvidence
  <2> SUFFICES ASSUME TypeInv, EvidenceInv, NEW x \in signals, x.quick
               PROVE  /\ x.priority = "P1"
                      /\ Cardinality({y \in signals \ {x} : y.key = x.key /\ InStreakOf(x, y)})
                           >= Trigger - 1
    BY DEF QuickHasEvidence
  <2>1. Justified(x, signals, batch[x.batch].started)
    BY DEF EvidenceInv, Accounted
  <2>2. Evidence(x, signals, batch[x.batch].started)
          = {y \in signals \ {x} : y.key = x.key /\ InStreakOf(x, y)}
    BY DEF Evidence, InStreakOf
  <2> QED BY <2>1, <2>2 DEF Justified
<1> QED
  BY <1>1, <1>2, TypeAlways, EvidenceNext, PTL DEF Spec

-----------------------------------------------------------------------------
(***************************************************************************)
(* Counts.  When scans do not overlap and no commit is decided late, the   *)
(* rows a scan sees when it adds a signal are all those that will ever     *)
(* come before it, so that its count stays the length of its streak.       *)
(***************************************************************************)
Above(x, rows) == {y \in rows : Newer(y, x)}
Newest(rows, limit) == {x \in rows : Cardinality(Above(x, rows)) < limit}
\* Signal y continues a streak of P1 of a scan that started at that time.
Goes(y, started) == y.priority = "P1" /\ started - y.created <= Window
\* The loop of the code over a history.
Run(history, started) ==
    {x \in history : \A y \in history : y = x \/ Newer(y, x) => Goes(y, started)}

\* StreakIsTrue for a signal with that count, after the rows before it.
TrueStreak(before, count, started) ==
    \E streak \in SUBSET before :
        LET rest == before \ streak
        IN  /\ Cardinality(streak) = count - 1
            /\ \A y \in streak : Goes(y, started)
            /\ \A y \in streak, z \in rest : Newer(y, z)
            /\ \/ Cardinality(streak) = HistoryLimit
               \/ \A z \in rest : (\A y \in rest : ~Newer(y, z)) => ~Goes(z, started)

IdsDiffer(rows) == \A x, y \in rows : x.id = y.id => x = y

\* Newer is a strict order, total on rows with different ids.
LEMMA NewerIsAnOrder ==
    ASSUME NEW rows \in SUBSET Signal, IdsDiffer(rows)
    PROVE  /\ \A x \in rows : ~Newer(x, x)
           /\ \A x, y \in rows : x = y \/ Newer(x, y) \/ Newer(y, x)
           /\ \A x, y \in rows : ~(Newer(x, y) /\ Newer(y, x))
           /\ \A x, y, z \in rows : Newer(x, y) /\ Newer(y, z) => Newer(x, z)
<1>1. \A x \in rows : x.created \in Int /\ x.id \in Int
  <2>1. \A x \in Signal : x.created \in Int /\ x.id \in Int
    BY BoundsAssumption DEF Signal
  <2> QED BY <2>1
<1> QED BY <1>1 DEF IdsDiffer, Newer

\* The newer a row is, the fewer rows are above it.
LEMMA FewerAbove ==
    ASSUME NEW rows \in SUBSET Signal, IsFiniteSet(rows), IdsDiffer(rows),
           NEW x \in rows, NEW y \in rows, Newer(x, y)
    PROVE  /\ Cardinality(Above(x, rows)) \in Nat /\ Cardinality(Above(y, rows)) \in Nat
           /\ Cardinality(Above(x, rows)) < Cardinality(Above(y, rows))
<1>1. /\ Above(x, rows) \subseteq Above(y, rows) /\ Above(y, rows) \subseteq rows
      /\ x \in Above(y, rows) /\ x \notin Above(x, rows)
  BY NewerIsAnOrder DEF Above
<1> DEFINE a == Above(x, rows)
           b == Above(y, rows)
<1> HIDE DEF a, b
<1>2. IsFiniteSet(b) /\ a \in SUBSET b /\ a # b
  BY <1>1, FS_Subset DEF a, b
<1>3. IsFiniteSet(a) /\ Cardinality(a) <= Cardinality(b) /\ Cardinality(a) # Cardinality(b)
  BY <1>2, FS_Subset
<1>4. Cardinality(a) \in Nat /\ Cardinality(b) \in Nat
  BY <1>2, <1>3, FS_CardinalityType
<1> QED BY <1>3, <1>4 DEF a, b

\* A history has at most its limit of rows.
LEMMA NewestBounded ==
    ASSUME NEW rows \in SUBSET Signal, IsFiniteSet(rows), IdsDiffer(rows)
    PROVE  /\ IsFiniteSet(Newest(rows, HistoryLimit))
           /\ Cardinality(Newest(rows, HistoryLimit)) \in Nat
           /\ Cardinality(Newest(rows, HistoryLimit)) <= HistoryLimit
<1> DEFINE history == Newest(rows, HistoryLimit)
           f == [x \in history |-> Cardinality(Above(x, rows))]
           T == 0 .. HistoryLimit - 1
<1>1. history \subseteq rows /\ HistoryLimit \in Nat
  BY SettingsAssumption DEF Newest
<1>2. \A x \in rows : Cardinality(Above(x, rows)) \in Nat
  <2> SUFFICES ASSUME NEW x \in rows PROVE Cardinality(Above(x, rows)) \in Nat
    OBVIOUS
  <2>1. Above(x, rows) \in SUBSET rows
    BY DEF Above
  <2>2. IsFiniteSet(Above(x, rows))
    BY <2>1, FS_Subset
  <2> QED BY <2>2, FS_CardinalityType
<1>3. f \in [history -> T]
  <2>1. \A x \in history : Cardinality(Above(x, rows)) \in T
    BY <1>1, <1>2 DEF Newest
  <2> QED BY <2>1
<1>4. \A x, y \in history : f[x] = f[y] => x = y
  <2> SUFFICES ASSUME NEW x \in history, NEW y \in history, x # y PROVE f[x] # f[y]
    OBVIOUS
  <2>1. Newer(x, y) \/ Newer(y, x)
    BY <1>1, NewerIsAnOrder
  <2>2. f[x] = Cardinality(Above(x, rows)) /\ f[y] = Cardinality(Above(y, rows))
    OBVIOUS
  <2> HIDE DEF f
  <2> QED BY <1>1, <2>1, <2>2, FewerAbove
<1>5. f \in Injection(history, T)
  <2> HIDE DEF f, history
  <2> QED BY <1>3, <1>4 DEF Injection, IsInjective
<1>6. IsFiniteSet(T) /\ Cardinality(T) = HistoryLimit
  BY <1>1, FS_Interval
<1> HIDE DEF f, T, history
<1>7. IsFiniteSet(history) /\ Cardinality(history) <= HistoryLimit
  BY <1>5, <1>6, FS_Injection
<1>8. Cardinality(history) \in Nat
  BY <1>7, FS_CardinalityType
<1> QED BY <1>7, <1>8 DEF history

\* The loop finds the true streak of a signal that comes after all rows.
LEMMA LoopIsTrue ==
    ASSUME NEW rows \in SUBSET Signal, IsFiniteSet(rows), IdsDiffer(rows), NEW started
    PROVE  TrueStreak(rows, 1 + Cardinality(Run(Newest(rows, HistoryLimit), started)), started)
<1> DEFINE history == Newest(rows, HistoryLimit)
           streak == Run(history, started)
           rest == rows \ streak
<1>1. history \subseteq rows /\ streak \subseteq history /\ HistoryLimit \in Nat
  BY SettingsAssumption DEF Newest, Run
<1>2. /\ IsFiniteSet(streak) /\ Cardinality(streak) \in Nat
      /\ Cardinality(streak) <= HistoryLimit
  <2> HIDE DEF streak, history
  <2>1. IsFiniteSet(history) /\ Cardinality(history) \in Nat /\ Cardinality(history) <= HistoryLimit
    BY NewestBounded DEF history
  <2>2. streak \in SUBSET history
    BY <1>1
  <2>3. IsFiniteSet(streak) /\ Cardinality(streak) <= Cardinality(history)
    BY <2>1, <2>2, FS_Subset
  <2>4. Cardinality(streak) \in Nat
    BY <2>3, FS_CardinalityType
  <2> QED BY <1>1, <2>1, <2>3, <2>4
<1>3. \A y \in streak : Goes(y, started)
  BY DEF Run
<1>4. \A x \in rows \ history : ~(Cardinality(Above(x, rows)) < HistoryLimit)
  BY DEF Newest
<1>5. \A x \in history : Cardinality(Above(x, rows)) < HistoryLimit
  BY DEF Newest
<1>6. ASSUME NEW y \in streak, NEW z \in rest PROVE Newer(y, z)
  <2>1. y # z /\ y \in rows /\ z \in rows
    BY <1>1
  <2> SUFFICES ASSUME Newer(z, y) PROVE FALSE
    BY <2>1, NewerIsAnOrder
  <2>2. CASE z \notin history
    <3>1. /\ Cardinality(Above(z, rows)) \in Nat /\ Cardinality(Above(y, rows)) \in Nat
          /\ Cardinality(Above(z, rows)) < Cardinality(Above(y, rows))
      BY <2>1, FewerAbove
    <3>2. ~(Cardinality(Above(z, rows)) < HistoryLimit) /\ Cardinality(Above(y, rows)) < HistoryLimit
      BY <1>1, <1>4, <1>5, <2>1, <2>2
    <3> QED BY <1>1, <3>1, <3>2
  <2>3. CASE z \in history
    <3>1. PICK u \in history : (u = z \/ Newer(u, z)) /\ ~Goes(u, started)
      BY <2>3 DEF Run
    <3>2. Newer(u, y)
      BY <1>1, <2>1, <2>3, <3>1, NewerIsAnOrder
    <3> QED BY <3>1, <3>2 DEF Run
  <2> QED BY <2>2, <2>3
<1>7. ASSUME NEW z \in rest, \A y \in rest : ~Newer(y, z), Goes(z, started)
      PROVE  Cardinality(streak) = HistoryLimit
  <2>1. z \notin history
    <3> SUFFICES ASSUME z \in history PROVE FALSE
      OBVIOUS
    <3>1. PICK u \in history : (u = z \/ Newer(u, z)) /\ ~Goes(u, started)
      BY DEF Run
    <3>2. Newer(u, z) /\ u \in rest
      BY <1>1, <1>3, <1>7, <3>1
    <3> QED BY <1>7, <3>2
  <2>2. Above(z, rows) \in SUBSET streak
    BY <1>7 DEF Above
  <2>3. Cardinality(Above(z, rows)) <= Cardinality(streak) /\ IsFiniteSet(Above(z, rows))
    <3> HIDE DEF streak
    <3> QED BY <1>2, <2>2, FS_Subset
  <2>4. Cardinality(Above(z, rows)) \in Nat /\ ~(Cardinality(Above(z, rows)) < HistoryLimit)
    BY <1>1, <1>4, <2>1, <2>3, FS_CardinalityType
  <2> HIDE DEF streak
  <2> QED BY <1>1, <1>2, <2>3, <2>4
<1> DEFINE count == 1 + Cardinality(streak)
<1>8. Cardinality(streak) = count - 1
  BY <1>2
<1> HIDE DEF streak, history, count
<1>9. TrueStreak(rows, count, started)
  BY <1>1, <1>3, <1>6, <1>7, <1>8 DEF TrueStreak
<1> QED BY <1>9 DEF streak, history, count

-----------------------------------------------------------------------------
\* What the session of worker w sees, and the rows of its key before a signal.
RowsOf(w) == signals \cup pending[w]
Before(x, rows) == {y \in rows : y.key = x.key /\ Newer(x, y)}

\* No row is of the future, none that a scan sees is newer than what it adds, and
\* each P1 has its true streak among them.
CountsOf(w) ==
    /\ \A x \in RowsOf(w) : x.created <= now
    /\ task[w].pc = "scan" => /\ task[w].created <= now
                              /\ \A x \in RowsOf(w) : x.created <= task[w].created
    /\ IdsDiffer(RowsOf(w))
    /\ \A x \in signals, y \in pending[w] : Newer(y, x)
    /\ \A x \in RowsOf(w) : x.priority = "P1" =>
          TrueStreak(Before(x, RowsOf(w)), x.count, batch[x.batch].started)
CountInv == late = {} /\ \A w \in Workers : CountsOf(w)
OneWorker == Workers # {} /\ \A v, w \in Workers : v = w

\* Rows are typed, and their batches keep their start times.
LEMMA RowsKeep ==
    ASSUME TypeInv, EvidenceInv, NEW w \in Workers, Keeps(batch, batch')
    PROVE  /\ RowsOf(w) \in SUBSET Signal /\ IsFiniteSet(RowsOf(w))
           /\ \A x \in RowsOf(w) : /\ x.id <= lastId
                                   /\ batch'[x.batch].started = batch[x.batch].started
<1>1. RowsOf(w) \in SUBSET Signal
  BY DEF TypeInv, TypeOK, RowsOf
<1>2. IsFiniteSet(RowsOf(w))
  BY FS_Union DEF TypeInv, FiniteRows, RowsOf
<1>3. ASSUME NEW x \in RowsOf(w)
      PROVE  x.id <= lastId /\ batch[x.batch].status # "absent" /\ x.batch \in Batches
  <2>1. x.batch \in Batches
    BY <1>1 DEF Signal
  <2> QED BY <1>3, <2>1 DEF EvidenceInv, Accounted, RowsOf
<1> QED BY <1>1, <1>2, <1>3 DEF Keeps

\* A step that flushes nothing: the rows of the session are committed together,
\* rolled back, or left.
LEMMA CountStep ==
    ASSUME OneWorker, TypeInv, TypeInv', EvidenceInv, CountInv, NEW w \in Workers,
           now <= now', late' = {}, Keeps(batch, batch'),
           \/ signals' = signals /\ pending'[w] \in {{}, pending[w]}
           \/ signals' = signals \cup pending[w] /\ pending'[w] = {},
           task'[w].pc = "scan" => \/ task'[w].created = now /\ now' = now
                                   \/ task[w].pc = "scan" /\ task'[w].created = task[w].created
    PROVE  CountInv'
<1> DEFINE rows == RowsOf(w)
           kept == signals' \cup pending'[w]
<1>1. rows \in SUBSET Signal /\ IsFiniteSet(rows) /\ IdsDiffer(rows)
  BY RowsKeep DEF CountInv, CountsOf
<1>2. kept = rows \/ kept = signals
  BY DEF RowsOf
<1>3. kept \subseteq rows /\ signals \subseteq rows
  BY <1>2 DEF RowsOf
<1>4. \A x \in rows : x.created <= now /\ x.created \in Int /\ now \in Int /\ now' \in Int
  BY <1>1, BoundsAssumption DEF CountInv, CountsOf, TypeInv, TypeOK, Signal
<1>5. \A x \in kept : x.created <= now'
  BY <1>3, <1>4
<1>6. ASSUME task'[w].pc = "scan"
      PROVE  task'[w].created <= now' /\ \A x \in kept : x.created <= task'[w].created
  <2>1. CASE task'[w].created = now /\ now' = now
    BY <1>3, <1>4, <2>1, BoundsAssumption DEF TypeInv, TypeOK
  <2>2. CASE task[w].pc = "scan" /\ task'[w].created = task[w].created
    <3>1. task[w].created <= now /\ \A x \in rows : x.created <= task[w].created
      BY <2>2 DEF CountInv, CountsOf
    <3>2. task[w].created \in Int /\ now \in Int /\ now' \in Int
      BY BoundsAssumption DEF TypeInv, TypeOK, Task
    <3> QED BY <1>3, <2>2, <3>1, <3>2
  <2> QED BY <1>6, <2>1, <2>2
<1>7. IdsDiffer(kept)
  BY <1>1, <1>3 DEF IdsDiffer
<1>8. \A x \in signals', y \in pending'[w] : Newer(y, x)
  BY DEF CountInv, CountsOf
<1>9. ASSUME NEW x \in kept PROVE Before(x, kept) = Before(x, rows)
  <2>1. CASE kept = rows
    BY <2>1
  <2>2. CASE kept = signals
    <3>1. \A y \in pending[w] : ~Newer(x, y)
      BY <1>1, <1>3, <1>9, <2>2, NewerIsAnOrder DEF CountInv, CountsOf, RowsOf
    <3> QED BY <2>2, <3>1 DEF Before, RowsOf
  <2> QED BY <1>2, <2>1, <2>2
<1>10. ASSUME NEW x \in kept, x.priority = "P1"
       PROVE  TrueStreak(Before(x, kept), x.count, batch'[x.batch].started)
  <2>1. batch'[x.batch].started = batch[x.batch].started
    BY <1>3, RowsKeep
  <2>2. TrueStreak(Before(x, rows), x.count, batch[x.batch].started)
    BY <1>3, <1>10 DEF CountInv, CountsOf
  <2> QED BY <1>9, <2>1, <2>2
<1> HIDE DEF rows
<1>11. CountsOf(w)'
  BY <1>5, <1>6, <1>7, <1>8, <1>10 DEF CountsOf, RowsOf
<1> QED
  BY <1>11 DEF CountInv, OneWorker

\* The signal that is added comes after all rows of its session, with its true streak.
LEMMA CountAdd ==
    ASSUME OneWorker, TypeInv, TypeInv', EvidenceInv, CountInv, NEW w \in Workers, AddCandidate(w)
    PROVE  CountInv'
<1> DEFINE c == Head(task[w].todo)
           x == NewSignal(w, c)
           rows == RowsOf(w)
           ofKey == {y \in rows : y.key = c.key}
<1>1. /\ task[w].pc = "scan" /\ task[w].todo # <<>>
      /\ UNCHANGED <<now, batch, signals, late>>
      /\ pending' = [pending EXCEPT ![w] = @ \cup {x}]
      /\ Continue(w, [task[w] EXCEPT !.todo = Tail(@)])
  BY DEF AddCandidate
<1>2. task'[w].created = task[w].created
  <2>1. task[w] \in Task /\ task' = [task EXCEPT ![w] = [task[w] EXCEPT !.todo = Tail(@)]]
    BY <1>1 DEF Continue, TypeInv, TypeOK
  <2> QED BY <2>1 DEF TypeInv, TypeOK, Task
<1>3. /\ x.id = lastId + 1 /\ x.batch = task[w].batch /\ x.key = c.key
      /\ x.priority = c.priority /\ x.created = task[w].created
      /\ x.count = ConsecutiveP1Count(SignalHistory(w, c.key), c.priority, task[w].started)
  BY DEF NewSignal
<1>4. /\ rows \in SUBSET Signal /\ IsFiniteSet(rows) /\ IdsDiffer(rows)
      /\ \A y \in rows : y.id <= lastId
  BY <1>1, RowsKeep DEF CountInv, CountsOf, Keeps
<1>5. c.priority = "P1" =>
        x.count = 1 + Cardinality(Run(Newest(ofKey, HistoryLimit), task[w].started))
  <2>1. SignalHistory(w, c.key) = Newest(ofKey, HistoryLimit)
    BY DEF SignalHistory, Newest, Above, RowsOf
  <2> DEFINE history == Newest(ofKey, HistoryLimit)
             started == task[w].started
  <2>2. x.count = ConsecutiveP1Count(history, c.priority, started)
    BY <1>3, <2>1
  <2> HIDE DEF history, started, x, c
  <2>3. c.priority = "P1" => ConsecutiveP1Count(history, c.priority, started)
                               = 1 + Cardinality(Run(history, started))
    BY DEF ConsecutiveP1Count, Run, Goes, WithinContinuityWindow
  <2> QED BY <2>2, <2>3 DEF history, started
<1>6. batch[task[w].batch].started = task[w].started
  BY <1>1 DEF EvidenceInv, StartsAgree, Working
<1>7. pending'[w] = pending[w] \cup {x} /\ signals' \cup pending'[w] = rows \cup {x}
  BY <1>1 DEF TypeInv, TypeOK, RowsOf
<1>8. signals' \cup pending'[w] \in SUBSET Signal
  BY DEF TypeInv, TypeOK
<1> HIDE DEF x, c
<1> DEFINE all == rows \cup {x}
<1>9. /\ all \in SUBSET Signal /\ x \in Signal
  BY <1>7, <1>8
<1>10. /\ task[w].created <= now /\ \A y \in rows : y.created <= task[w].created
  BY <1>1 DEF CountInv, CountsOf
<1>11. \A y \in rows : Newer(x, y) /\ y.id # x.id
  <2>1. \A y \in rows : y.created \in Int /\ y.id \in Int /\ y.created <= task[w].created /\ y.id <= lastId
    BY <1>4, <1>10, BoundsAssumption DEF Signal
  <2>2. task[w].created \in Int /\ lastId \in Int
    BY BoundsAssumption DEF TypeInv, TypeOK, Task
  <2> HIDE DEF rows
  <2> QED BY <1>3, <2>1, <2>2 DEF Newer
<1>12. IdsDiffer(all)
  BY <1>4, <1>11 DEF IdsDiffer
<1>13. \A y \in rows : ~Newer(y, x)
  BY <1>9, <1>11, <1>12, NewerIsAnOrder
<1>14. \A y \in rows : Before(y, all) = Before(y, rows)
  BY <1>13 DEF Before
<1>15. Before(x, all) = ofKey
  <2>1. ~Newer(x, x)
    BY <1>9, <1>12, NewerIsAnOrder
  <2> QED BY <1>3, <1>11, <2>1 DEF Before
<1>16. ASSUME x.priority = "P1" PROVE TrueStreak(Before(x, all), x.count, batch[x.batch].started)
  <2>1. ofKey \in SUBSET rows
    OBVIOUS
  <2>2. ofKey \in SUBSET Signal /\ IsFiniteSet(ofKey) /\ IdsDiffer(ofKey)
    <3> HIDE DEF ofKey, rows
    <3> QED BY <1>4, <2>1, FS_Subset DEF IdsDiffer
  <2> DEFINE started == task[w].started
  <2> HIDE DEF ofKey, started
  <2>3. TrueStreak(ofKey, 1 + Cardinality(Run(Newest(ofKey, HistoryLimit), started)), started)
    BY <2>2, LoopIsTrue
  <2> QED BY <1>3, <1>5, <1>6, <1>15, <1>16, <2>3 DEF started
<1>17. \A y \in all : y.priority = "P1" => TrueStreak(Before(y, all), y.count, batch[y.batch].started)
  BY <1>14, <1>16 DEF CountInv, CountsOf
<1>18. \A y \in all : y.created <= task[w].created /\ y.created <= now
  <2>1. \A y \in rows : y.created <= now
    BY DEF CountInv, CountsOf
  <2>2. x.created <= task[w].created /\ x.created <= now
    BY <1>3, <1>10, BoundsAssumption DEF TypeInv, TypeOK, Task
  <2> QED BY <1>10, <2>1, <2>2
<1>19. \A y \in signals, z \in pending[w] \cup {x} : Newer(z, y)
  BY <1>11 DEF CountInv, CountsOf, RowsOf
<1> HIDE DEF rows
<1>20. CountsOf(w)'
  BY <1>1, <1>2, <1>7, <1>10, <1>12, <1>17, <1>18, <1>19 DEF CountsOf, RowsOf
<1> QED
  BY <1>1, <1>20 DEF CountInv, OneWorker

\* A batch that was opened stays, with the time its scan started.
LEMMA KeepsNext == TypeInv /\ [Next]_vars => Keeps(batch, batch')
<1> SUFFICES ASSUME TypeInv, [Next]_vars PROVE Keeps(batch, batch')
  OBVIOUS
<1>1. UNCHANGED batch => Keeps(batch, batch')
  BY DEF Keeps
<1>2. \A w \in Workers : task[w].pc \in Working => task[w].batch \in Batches
  BY DEF TypeInv, GoodTask
<1>3. ASSUME NEW w \in Workers, OpenBatch(w) PROVE Keeps(batch, batch')
  <2>1. PICK b \in Batches :
            /\ batch[b].status = "absent"
            /\ batch' = [batch EXCEPT ![b] = [status |-> "running", sources |-> FALSE,
                                              started |-> task[w].started]]
    BY <1>3 DEF OpenBatch, Insert
  <2>2. \A c \in Batches \ {b} : batch'[c] = batch[c]
    BY <2>1 DEF TypeInv, TypeOK
  <2> QED BY <2>1, <2>2 DEF Keeps
<1>9. ASSUME NEW w \in Workers, OpenAnswerLost(w) PROVE Keeps(batch, batch')
  BY <1>9, InsertEffect DEF OpenAnswerLost, Keeps
<1>4. ASSUME NEW w \in Workers, CommitScan(w) \/ CommitAnswerLost(w) PROVE Keeps(batch, batch')
  <2>1. Committing(w) /\ Apply(task[w].batch, task[w].sources, pending[w])
    BY <1>4 DEF CommitScan, CommitAnswerLost
  <2> QED BY <1>2, <2>1, ApplyKeeps DEF Committing, Working
<1>5. ASSUME NEW w \in Workers, RecordScanFailure(w) \/ MarkFailure(w) PROVE Keeps(batch, batch')
  <2>1. SetFailure(w) /\ task[w].batch \in Batches
    BY <1>2, <1>5 DEF RecordScanFailure, MarkFailure, Working
  <2> QED BY <2>1, FailureKeeps
<1>6. ASSUME NEW l, Lands(l) PROVE Keeps(batch, batch')
  <2>1. l.batch \in Batches /\ Apply(l.batch, l.sources, l.rows)
    BY <1>6 DEF Lands, TypeInv, TypeOK, LateCommit
  <2> QED BY <2>1, ApplyKeeps
<1>7. ASSUME NEW w \in Workers, \/ StartScan(w) \/ LoadSources(w) \/ AddCandidate(w)
                                \/ ReloadScan(w) \/ CheckStillRunning(w) \/ CommitAnswerLate(w)
                                \/ DatabaseError(w) \/ OtherError(w) \/ Lose(w)
      PROVE  UNCHANGED batch
  BY <1>7 DEF StartScan, LoadSources, AddCandidate, ReloadScan, CheckStillRunning,
              CommitAnswerLate, DatabaseError, OtherError, Lose
<1>8. (\E l \in late : Drops(l)) \/ Tick \/ UNCHANGED vars => UNCHANGED batch
  BY DEF Drops, Tick, vars
<1> QED
  BY <1>1, <1>3, <1>4, <1>5, <1>6, <1>7, <1>8, <1>9 DEF Next, Scan, Fail, Server, Quiescent

\* Every step of the one worker keeps the counts true.
LEMMA CountNext ==
    ASSUME OneWorker, MaxLate = 0
    PROVE  TypeInv /\ TypeInv' /\ EvidenceInv /\ CountInv /\ [Next]_vars => CountInv'
<1> SUFFICES ASSUME TypeInv, TypeInv', EvidenceInv, CountInv, [Next]_vars PROVE CountInv'
  OBVIOUS
<1> USE DEF spent
<1>a. /\ late = {} /\ lates = 0 /\ Keeps(batch, batch') /\ now \in Int
      /\ \A w \in Workers : task[w] \in Task
  BY KeepsNext, BoundsAssumption DEF CountInv, TypeInv, TypeOK
<1>b. \A w \in Workers : Rollback(w) => pending'[w] = {}
  BY DEF Rollback, TypeInv, TypeOK
\* A step that flushes nothing and starts no transaction.
<1>1. ASSUME NEW w \in Workers, NEW t, Continue(w, t),
             t.pc = "scan" => \/ t.created = now
                              \/ task[w].pc = "scan" /\ t.created = task[w].created,
             \/ signals' = signals /\ (UNCHANGED pending \/ Rollback(w))
             \/ signals' = signals \cup pending[w] /\ Rollback(w),
             UNCHANGED <<now, late>>
      PROVE  CountInv'
  <2>1. task'[w] = t
    BY <1>1 DEF Continue, TypeInv, TypeOK
  <2> QED BY <1>1, <1>a, <1>b, <2>1, CountStep
<1>2. ASSUME NEW w \in Workers, Leave(w),
             UNCHANGED <<now, signals, late>>, UNCHANGED pending \/ Rollback(w)
      PROVE  CountInv'
  <2> DEFINE t == NoTask
  <2>1. Continue(w, t) /\ t.pc # "scan"
    BY <1>2 DEF Leave, NoTask
  <2> HIDE DEF t
  <2> QED BY <1>1, <1>2, <2>1
<1>3. ASSUME NEW w \in Workers, NEW phase, phase # "scan",
             Continue(w, [task[w] EXCEPT !.pc = phase]),
             \/ signals' = signals /\ (UNCHANGED pending \/ Rollback(w))
             \/ signals' = signals \cup pending[w] /\ Rollback(w),
             UNCHANGED <<now, late>>
      PROVE  CountInv'
  <2> DEFINE t == [task[w] EXCEPT !.pc = phase]
  <2>1. Continue(w, t) /\ t.pc = phase
    BY <1>3, <1>a DEF Task
  <2> HIDE DEF t
  <2> QED BY <1>1, <1>3, <2>1
<1>4. ASSUME NEW w \in Workers, StartScan(w) PROVE CountInv'
  <2> DEFINE t == [NoTask EXCEPT !.pc = "stamped", !.started = now]
  <2>1. Continue(w, t) /\ t.pc # "scan"
    BY <1>4 DEF StartScan, NoTask
  <2> HIDE DEF t
  <2> QED BY <1>1, <1>4, <2>1 DEF StartScan
<1>5. ASSUME NEW w \in Workers, OpenBatch(w) PROVE CountInv'
  <2>1. PICK b \in Batches : Continue(w, [task[w] EXCEPT !.pc = "load", !.batch = b])
    BY <1>5 DEF OpenBatch, Insert
  <2> DEFINE t == [task[w] EXCEPT !.pc = "load", !.batch = b]
  <2>2. Continue(w, t) /\ t.pc # "scan"
    BY <1>a, <2>1 DEF Task
  <2> HIDE DEF t
  <2> QED BY <1>1, <1>5, <2>2 DEF OpenBatch, Insert
<1>6. ASSUME NEW w \in Workers, LoadSources(w) PROVE CountInv'
  <2>1. PICK found \in BOOLEAN, list \in CandidateLists :
            Continue(w, [task[w] EXCEPT !.pc = "scan", !.created = now,
                                        !.sources = found, !.todo = list])
    BY <1>6 DEF LoadSources
  <2> DEFINE t == [task[w] EXCEPT !.pc = "scan", !.created = now,
                                  !.sources = found, !.todo = list]
  <2>2. Continue(w, t) /\ t.created = now
    BY <1>a, <2>1 DEF Task
  <2> HIDE DEF t
  <2> QED BY <1>1, <1>6, <2>2 DEF LoadSources
<1>7. ASSUME NEW w \in Workers, AddCandidate(w) PROVE CountInv'
  BY <1>7, CountAdd
<1>8. ASSUME NEW w \in Workers, CommitScan(w) PROVE CountInv'
  BY <1>3, <1>8 DEF CommitScan, Apply
<1>9. ASSUME NEW w \in Workers, CommitAnswerLost(w) PROVE CountInv'
  BY <1>3, <1>9 DEF CommitAnswerLost, Apply
<1>10. ASSUME NEW w \in Workers, \/ ReloadScan(w) \/ MarkFailure(w) \/ Lose(w)
                                 \/ OpenAnswerLost(w)
       PROVE  CountInv'
  BY <1>2, <1>10 DEF ReloadScan, MarkFailure, Lose, OpenAnswerLost
<1>11. ASSUME NEW w \in Workers, RecordScanFailure(w) PROVE CountInv'
  BY <1>3, <1>11 DEF RecordScanFailure
<1>12. ASSUME NEW w \in Workers, CheckStillRunning(w) PROVE CountInv'
  <2>1. Leave(w) \/ Continue(w, [task[w] EXCEPT !.pc = "mark"])
    BY <1>12 DEF CheckStillRunning
  <2> QED BY <1>2, <1>3, <1>12, <2>1 DEF CheckStillRunning
<1>13. ASSUME NEW w \in Workers, NEW phase \in {"dberror", "error"}, NEW found,
              Continue(w, [task[w] EXCEPT !.pc = phase, !.sources = found]),
              Rollback(w), UNCHANGED <<now, signals, late>>
       PROVE  CountInv'
  <2> DEFINE t == [task[w] EXCEPT !.pc = phase, !.sources = found]
  <2>1. Continue(w, t) /\ t.pc # "scan"
    BY <1>13, <1>a DEF Task
  <2> HIDE DEF t
  <2> QED BY <1>1, <1>13, <2>1
<1>14. ASSUME NEW w \in Workers, DatabaseError(w) PROVE CountInv'
  <2>1. UNCHANGED <<now, signals, late>> /\ Rollback(w)
    BY <1>14 DEF DatabaseError
  <2>2. \/ Leave(w)
        \/ \E found \in SourcesSoFar(w) :
              Continue(w, [task[w] EXCEPT !.pc = "dberror", !.sources = found])
    BY <1>14 DEF DatabaseError
  <2> QED BY <1>2, <1>13, <2>1, <2>2
<1>15. ASSUME NEW w \in Workers, OtherError(w) PROVE CountInv'
  <2>1. UNCHANGED <<now, signals, late>> /\ Rollback(w)
    BY <1>15 DEF OtherError
  <2>2. PICK found \in SourcesSoFar(w) :
            Continue(w, [task[w] EXCEPT !.pc = "error", !.sources = found])
    BY <1>15 DEF OtherError
  <2> QED BY <1>13, <2>1, <2>2
<1>16. ASSUME UNCHANGED <<batch, signals, pending, task, late>>, now <= now' PROVE CountInv'
  <2> SUFFICES ASSUME NEW w \in Workers PROVE CountInv'
    BY <1>a, <1>16 DEF CountInv
  <2> QED BY <1>16, <1>a, CountStep
<1>17. CASE Tick
  BY <1>16, <1>17, <1>a DEF Tick
<1>18. CASE UNCHANGED vars
  BY <1>16, <1>18, <1>a DEF vars
<1>19. ~Server /\ \A w \in Workers : ~CommitAnswerLate(w)
  BY <1>a DEF Server, CommitAnswerLate
<1> QED
  BY <1>4, <1>5, <1>6, <1>7, <1>8, <1>9, <1>10, <1>11, <1>12, <1>14, <1>15,
     <1>17, <1>18, <1>19 DEF Next, Scan, Fail, Quiescent

\* Of scans that do not overlap and commits that are not decided late, every count of
\* a stored P1 is the length of the streak that the stored rows show before it.
THEOREM CountsCorrect ==
    ASSUME OneWorker, MaxLate = 0
    PROVE  Spec => []CountsAreTrue
<1>1. Init => EvidenceInv /\ CountInv
  BY BoundsAssumption
  DEF Init, EvidenceInv, Accounted, StartsAgree, NoTask, Working, CountInv, CountsOf, RowsOf,
      IdsDiffer
<1>2. TypeInv /\ CountInv => CountsAreTrue
  <2> SUFFICES ASSUME TypeInv, CountInv, NEW x \in signals, x.priority = "P1"
               PROVE  StreakIsTrue(x)
    BY DEF CountsAreTrue
  <2>1. PICK w \in Workers : CountsOf(w)
    BY DEF OneWorker, CountInv
  <2>2. RowsOf(w) \in SUBSET Signal
    BY DEF TypeInv, TypeOK, RowsOf
  <2>3. \A y \in pending[w] : ~Newer(x, y)
    BY <2>1, <2>2, NewerIsAnOrder DEF CountsOf, RowsOf
  <2>4. Before(x, RowsOf(w)) = PrecedingSignals(x)
    BY <2>3 DEF Before, PrecedingSignals, RowsOf
  <2>5. TrueStreak(PrecedingSignals(x), x.count, batch[x.batch].started)
    BY <2>1, <2>4 DEF CountsOf, RowsOf
  <2> QED BY <2>5 DEF TrueStreak, StreakIsTrue, InStreakOf, Goes
<1> QED
  BY <1>1, <1>2, TypeAlways, EvidenceNext, CountNext, PTL DEF Spec
=============================================================================
