----------------------- MODULE ProviderCollectionProofs -----------------------
(***************************************************************************)
(* Every attempt leaves a whole set of rows under a time of its own, and   *)
(* the scan that reads the latest rows later sees this attempt, a newer    *)
(* one or the failure.                                                     *)
(***************************************************************************)
EXTENDS ProviderCollection, WellFoundedInduction, TLAPS

\* The phases of a collector that are before its scan, and those of the scan.
Collecting == {"fetch", "flush", "log", "commit"}
Scanning == {"scan", "own", "endpoint"}

\* What a fetch has brought, if anything.
Attempts ==
    {NoAttempt, [result |-> "failure", rows |-> 0, missing |-> 0]}
      \cup {[result |-> "success", rows |-> d.rows, missing |-> d.missing] : d \in Datasets}

CheckRow == [endpoint : Endpoints, at : Nat, log : Nat, status : {"ok", "degraded", "failed"},
             snapshot : Nat]
LogRow == [endpoint : Endpoints, at : Nat, fin : Nat, result : {"success", "failure"},
           rows : {a.rows : a \in Attempts}]
TaskState == [pc : {"idle"} \cup Collecting \cup Scanning, i : 1..Len(Plan), at : Nat, fin : Nat,
              data : Attempts, tries : Nat, mine : [Endpoints -> Nat],
              read : [Endpoints -> Nat], seen : SUBSET CheckRow]

\* Whether the rows of a task's attempt have their time.
Dated(t) == t.pc = "commit" \/ (t.pc = "log" /\ t.data.result = "success")

FailedAt(e, at) == \E k \in checks : k.endpoint = e /\ k.at = at /\ k.status = "failed"
SnapshotAt(e, at) == \E s \in snapshots : s.endpoint = e /\ s.at = at

\* What a task remembers of its attempts at the time now is in the tables, and what it has read for
\* its scan is not older than a successful attempt of its own.
GoodTask(t, now) ==
    /\ t.pc = "flush" => t.data.result = "success"
    /\ t.pc \in {"log", "commit"} => t.data.result \in {"success", "failure"}
    /\ Dated(t) => t.at \in 1..now
    /\ t.pc = "commit" => t.fin \in 1..now
    /\ t.pc \in Collecting => \A e \in Endpoints : t.read[e] = None
    /\ \A e \in Endpoints :
        /\ t.mine[e] = None \/ FailedAt(e, t.mine[e]) \/ SnapshotAt(e, t.mine[e])
        /\ t.read[e] = None \/ FailedAt(e, t.mine[e]) \/ t.mine[e] <= t.read[e]

TaskInv == /\ task \in [Collectors -> TaskState]
           /\ \A c \in Collectors : GoodTask(task[c], clock)

\* No two attempts have the same time.
TimesAreUnique ==
    /\ \A k, l \in checks : k.at = l.at => k.status = l.status
    /\ \A c \in Collectors : Dated(task[c]) => \A k \in checks : k.at # task[c].at
    /\ \A c, d \in Collectors :
        c # d /\ Dated(task[c]) /\ Dated(task[d]) => task[c].at # task[d].at

TablesInv ==
    /\ clock \in Nat /\ starts \in 0..MaxStarts /\ errors \in 0..MaxErrors
    /\ \A s \in snapshots : s.endpoint \in Endpoints /\ s.at \in 1..clock
    /\ logs \in SUBSET LogRow /\ \A l \in logs : l.fin \in 1..clock
    /\ checks \in SUBSET CheckRow /\ \A k \in checks : k.at \in 1..clock
    /\ \A k \in checks : k.status # "failed" => SnapshotAt(k.endpoint, k.at)

\* What a status view has read is from the logs, and a later read finds all of it.
ViewInv ==
    /\ view \in [pc : {"idle", "latest", "success", "done"}, latest : SUBSET LogRow,
                 success : SUBSET LogRow, failure : SUBSET LogRow]
    /\ \A l \in view.latest : l \in logs /\ l.endpoint = ViewedEndpoint
    /\ view.pc \in {"success", "done"} =>
        \A l \in view.latest : l.result = "success" => \E s \in view.success : s.fin >= l.fin
    /\ view.pc = "done" =>
        \A l \in view.latest : l.result = "failure" => \E f \in view.failure : f.fin >= l.fin

\* The inductive invariant.
CollectionInv == /\ TablesInv /\ TaskInv /\ TimesAreUnique /\ ViewInv
                 /\ AttemptsAreWhole /\ OldDataIsMarked

ConstantsAssumption == PlanAssumption /\ BoundsAssumption

-----------------------------------------------------------------------------
(***************************************************************************)
(* Numbers, attempts and the latest row.                                   *)
(***************************************************************************)
\* A set of numbers that has a member and a bound has a greatest member.
LEMMA GreatestNumber ==
    ASSUME NEW S \in SUBSET Nat, S # {}, NEW limit \in Nat, \A n \in S : n <= limit
    PROVE  \E m \in S : \A n \in S : n <= m
<1> DEFINE D == {limit - n : n \in S}
           R == {pair \in Nat \X Nat : pair[1] < pair[2]}
<1>1. IsWellFoundedOn(R, Nat)
  BY NatLessThanWellFounded DEF OpToRel
<1>2. \A m, n \in Nat : m < n => <<m, n>> \in R
  OBVIOUS
<1> HIDE DEF R
<1>3. ASSUME NEW n \in S PROVE n \in Nat /\ limit - n \in Nat
  <2>1. n \in Nat /\ n <= limit
    OBVIOUS
  <2> QED BY <2>1
<1>4. D \in SUBSET Nat /\ D # {} /\ \A n \in S : limit - n \in D
  BY <1>3
<1>5. \A d \in D : \E n \in S : d = limit - n
  OBVIOUS
<1> HIDE DEF D
<1>6. PICK d \in D : \A e \in D : ~(<<e, d>> \in R)
  BY <1>1, <1>4, WFMin
<1>7. PICK m \in S : d = limit - m
  BY <1>5, <1>6
<1>8. ASSUME NEW n \in S PROVE n <= m
  <2>1. limit - n \in D /\ limit - n \in Nat /\ d \in Nat /\ n \in Nat /\ m \in Nat
    BY <1>3, <1>4, <1>6
  <2>2. ~(limit - n < d)
    BY <1>2, <1>6, <2>1
  <2> QED BY <1>7, <2>1, <2>2
<1> QED BY <1>8

\* A check says failed of the attempts whose fetch raised, and of no other.
LEMMA StatusOfAttempt ==
    ASSUME NEW a \in Attempts
    PROVE  /\ CheckStatus(a) \in {"ok", "degraded", "failed"}
           /\ CheckStatus(a) = "failed" <=> a.result = "failure"
BY DEF Attempts, NoAttempt, CheckStatus, QualityStatus

\* Of rows with a time that is not in the future there is a latest one.
LEMMA LatestCheckIsThere ==
    ASSUME TablesInv, NEW e, NEW k \in checks, k.endpoint = e
    PROVE  \E l \in LatestEndpointCheck(e) : k.at <= l.at
<1> DEFINE rows == {r \in checks : r.endpoint = e}
           times == {r.at : r \in rows}
<1>1. times \in SUBSET Nat /\ times # {} /\ \A n \in times : n <= clock
  BY DEF TablesInv
<1>2. PICK m \in times : \A n \in times : n <= m
  <2> HIDE DEF times
  <2> QED BY <1>1, GreatestNumber DEF TablesInv
<1>3. PICK l \in rows : l.at = m
  BY <1>2
<1>4. \A r \in rows : r.at <= l.at
  BY <1>2, <1>3
<1> QED BY <1>3, <1>4 DEF LatestEndpointCheck, Latest, At

\* A log of a result is followed by a latest log of that result.
LEMMA LatestLogIsThere ==
    ASSUME TablesInv, NEW e, NEW results, NEW l \in logs, l.endpoint = e, l.result \in results
    PROVE  \E s \in LatestFetchLog(e, results) : s.fin >= l.fin
<1> DEFINE rows == {r \in logs : r.endpoint = e /\ r.result \in results}
           times == {r.fin : r \in rows}
<1>1. times \in SUBSET Nat /\ times # {} /\ \A n \in times : n <= clock
  BY DEF TablesInv
<1>2. PICK m \in times : \A n \in times : n <= m
  <2> HIDE DEF times
  <2> QED BY <1>1, GreatestNumber DEF TablesInv
<1>3. PICK s \in rows : s.fin = m
  BY <1>2
<1>4. \A r \in rows : r.fin <= s.fin
  BY <1>2, <1>3
<1> QED BY <1>3, <1>4 DEF LatestFetchLog, Latest, Fin, TablesInv, LogRow

-----------------------------------------------------------------------------
(***************************************************************************)
(* The steps of a collector.                                               *)
(***************************************************************************)
\* A step of one collector that adds no rows.
LEMMA TaskKeeps ==
    ASSUME CollectionInv, NEW c \in Collectors, NEW x \in TaskState,
           task' = [task EXCEPT ![c] = x], UNCHANGED <<snapshots, logs, checks, view>>,
           clock' \in Nat, clock <= clock', starts' \in 0..MaxStarts, errors' \in 0..MaxErrors,
           OldDataIsMarked', GoodTask(x, clock'),
           Dated(x) => x.at > clock \/ (Dated(task[c]) /\ x.at = task[c].at)
    PROVE  CollectionInv'
<1>1. task' \in [Collectors -> TaskState] /\ task'[c] = x
  BY DEF CollectionInv, TaskInv
<1>2. \A d \in Collectors : d # c => task'[d] = task[d]
  BY DEF CollectionInv, TaskInv
<1>3. TablesInv'
  BY DEF CollectionInv, TablesInv, SnapshotAt
<1>4. TaskInv'
  <2>2. ASSUME NEW d \in Collectors PROVE GoodTask(task[d], clock)'
    <3>1. CASE d = c
      BY <1>1, <3>1 DEF GoodTask, FailedAt, SnapshotAt, Dated
    <3>2. CASE d # c
      <4>1. task[d] \in TaskState /\ GoodTask(task[d], clock)
        BY DEF CollectionInv, TaskInv
      <4>2. task'[d] = task[d]
        BY <1>2, <3>2
      <4>3. \A n \in 1..clock : n \in 1..clock'
        BY DEF CollectionInv, TablesInv
      <4> QED BY <4>1, <4>2, <4>3 DEF GoodTask, FailedAt, SnapshotAt, Dated
    <3> QED BY <3>1, <3>2
  <2> QED BY <1>1, <2>2 DEF TaskInv
<1>5. TimesAreUnique'
  <2>1. \A k \in checks : k.at \in Nat /\ k.at <= clock
    BY DEF CollectionInv, TablesInv
  <2>2. \A d \in Collectors : Dated(task[d]) => task[d].at \in Nat /\ task[d].at <= clock
    BY DEF CollectionInv, TaskInv, GoodTask, TablesInv
  <2>3. x.at \in Nat /\ clock \in Nat
    BY DEF TaskState, CollectionInv, TablesInv
  <2>4. (\A k, l \in checks : k.at = l.at => k.status = l.status)'
    BY DEF CollectionInv, TimesAreUnique
  <2>5. ASSUME NEW d \in Collectors, Dated(task'[d]), NEW k \in checks PROVE k.at # task'[d].at
    <3>1. CASE d = c
      BY <1>1, <2>1, <2>3, <2>5, <3>1 DEF CollectionInv, TimesAreUnique
    <3>2. CASE d # c
      BY <1>2, <2>5, <3>2 DEF CollectionInv, TimesAreUnique
    <3> QED BY <3>1, <3>2
  <2>6. ASSUME NEW d \in Collectors, NEW e \in Collectors, d # e, Dated(task'[d]), Dated(task'[e])
        PROVE  task'[d].at # task'[e].at
    BY <1>1, <1>2, <2>2, <2>3, <2>6 DEF CollectionInv, TimesAreUnique
  <2> QED BY <2>4, <2>5, <2>6 DEF TimesAreUnique, Dated
<1>6. ViewInv'
  BY DEF CollectionInv, ViewInv
<1>7. AttemptsAreWhole'
  BY DEF CollectionInv, AttemptsAreWhole
<1> QED BY <1>3, <1>4, <1>5, <1>6, <1>7 DEF CollectionInv

\* The first endpoint, and the one that follows another.
LEMMA PlanFacts ==
    ASSUME PlanAssumption
    PROVE  /\ 1 \in 1..Len(Plan) /\ Len(Plan) \in Nat
           /\ \A i \in 1..Len(Plan) : Plan[i] \in Endpoints /\ (i < Len(Plan) => i + 1 \in 1..Len(Plan))
<1>1. Plan \in Seq(STRING) /\ Len(Plan) > 0 /\ Len(Plan) \in Nat
  BY DEF PlanAssumption
<1>2. DOMAIN Plan = 1..Len(Plan)
  BY <1>1
<1>3. \A i \in 1..Len(Plan) : Plan[i] \in Endpoints
  BY <1>1, <1>2 DEF Endpoints, ToSet
<1>4. \A i \in 1..Len(Plan) : i < Len(Plan) => i + 1 \in 1..Len(Plan)
  BY <1>1
<1> QED BY <1>1, <1>3, <1>4

\* A collector that has attempted nothing yet is in order.
LEMMA FreshIsGood ==
    ASSUME PlanAssumption, NEW phase \in {"idle", "fetch"}, NEW n \in Nat, NEW x,
           x = [pc |-> phase, i |-> 1, at |-> None, fin |-> None, data |-> NoAttempt, tries |-> n,
                mine |-> NoTask.mine, read |-> NoTask.read, seen |-> {}]
    PROVE  x \in TaskState /\ ~Dated(x) /\ \A now : GoodTask(x, now)
<1> DEFINE mine == NoTask.mine  read == NoTask.read
<1>1. /\ mine \in [Endpoints -> Nat] /\ read \in [Endpoints -> Nat]
      /\ \A e \in Endpoints : mine[e] = None /\ read[e] = None
  BY DEF NoTask, None
<1> HIDE DEF mine, read
<1>2. 1 \in 1..Len(Plan) /\ NoAttempt \in Attempts /\ None \in Nat
  BY PlanFacts DEF Attempts, None
<1>3. x = [pc |-> phase, i |-> 1, at |-> None, fin |-> None, data |-> NoAttempt, tries |-> n,
           mine |-> mine, read |-> read, seen |-> {}]
  BY DEF mine, read
<1>4. x \in TaskState
  BY <1>1, <1>2, <1>3 DEF TaskState, Collecting
<1>5. x.pc = phase /\ x.mine = mine /\ x.read = read
  BY <1>3
<1>6. \A e \in Endpoints : x.mine[e] = None /\ x.read[e] = None
  BY <1>1, <1>5
<1> QED BY <1>4, <1>5, <1>6 DEF GoodTask, Dated

\* The collector without a task, and the one whose task starts again.
LEMMA NoTaskIsFresh ==
    ASSUME NEW n \in Nat
    PROVE  /\ NoTask = [pc |-> "idle", i |-> 1, at |-> None, fin |-> None, data |-> NoAttempt,
                        tries |-> 0, mine |-> NoTask.mine, read |-> NoTask.read, seen |-> {}]
           /\ [NoTask EXCEPT !.pc = "fetch", !.tries = n]
                = [pc |-> "fetch", i |-> 1, at |-> None, fin |-> None, data |-> NoAttempt,
                   tries |-> n, mine |-> NoTask.mine, read |-> NoTask.read, seen |-> {}]
<1> DEFINE nothing == [e \in Endpoints |-> None]
           F(phase, tries) ==
               [pc |-> phase, i |-> 1, at |-> None, fin |-> None, data |-> NoAttempt,
                tries |-> tries, mine |-> nothing, read |-> nothing, seen |-> {}]
<1>1. NoTask = F("idle", 0)
  BY DEF NoTask
<1> HIDE DEF nothing
<1>2. NoTask.mine = nothing /\ NoTask.read = nothing
  BY <1>1
<1>3. [NoTask EXCEPT !.pc = "fetch"] = F("fetch", 0)
  BY <1>1
<1>4. [F("fetch", 0) EXCEPT !.tries = n] = F("fetch", n)
  OBVIOUS
<1> QED BY <1>1, <1>2, <1>3, <1>4

\* The tables are empty at first.
LEMMA InitInv == ASSUME ConstantsAssumption, Init PROVE CollectionInv
<1>1. NoTask \in TaskState /\ GoodTask(NoTask, clock) /\ ~Dated(NoTask)
  BY NoTaskIsFresh, FreshIsGood DEF ConstantsAssumption
<1>2. TablesInv
  BY DEF Init, TablesInv, ConstantsAssumption, BoundsAssumption
<1>3. TaskInv /\ TimesAreUnique
  BY <1>1 DEF Init, TaskInv, TimesAreUnique
<1>4. ViewInv
  BY DEF Init, ViewInv, NoView
<1>5. AttemptsAreWhole /\ OldDataIsMarked
  BY DEF Init, AttemptsAreWhole, OldDataIsMarked
<1> QED BY <1>2, <1>3, <1>4, <1>5 DEF CollectionInv

\* A collection begins with nothing read.
LEMMA StartKeeps ==
    ASSUME ConstantsAssumption, CollectionInv, NEW c \in Collectors, StartCollection(c)
    PROVE  CollectionInv'
<1> DEFINE t == task[c]
           x == [t EXCEPT !.pc = "fetch", !.i = 1, !.mine = NoTask.mine, !.read = NoTask.read,
                          !.seen = {}]
<1>1. t \in TaskState
  BY DEF CollectionInv, TaskInv
<1>2. /\ NoTask.mine \in [Endpoints -> Nat] /\ NoTask.read \in [Endpoints -> Nat]
      /\ \A e \in Endpoints : NoTask.mine[e] = None /\ NoTask.read[e] = None
  BY DEF NoTask, None
<1>3. 1 \in 1..Len(Plan)
  BY PlanFacts DEF ConstantsAssumption
<1>4. x \in TaskState /\ x.pc = "fetch" /\ x.mine = NoTask.mine /\ x.read = NoTask.read
  <2> HIDE DEF t
  <2> DEFINE mine == NoTask.mine  read == NoTask.read
  <2>1. mine \in [Endpoints -> Nat] /\ read \in [Endpoints -> Nat]
    BY <1>2
  <2> HIDE DEF mine, read
  <2>2. [t EXCEPT !.pc = "fetch", !.i = 1, !.mine = mine, !.read = read, !.seen = {}] \in TaskState
    BY <1>1, <1>3, <2>1 DEF TaskState, Collecting
  <2>3. /\ [t EXCEPT !.pc = "fetch", !.i = 1, !.mine = mine, !.read = read, !.seen = {}].pc = "fetch"
        /\ [t EXCEPT !.pc = "fetch", !.i = 1, !.mine = mine, !.read = read, !.seen = {}].mine = mine
        /\ [t EXCEPT !.pc = "fetch", !.i = 1, !.mine = mine, !.read = read, !.seen = {}].read = read
    BY <1>1 DEF TaskState
  <2> QED BY <2>2, <2>3 DEF mine, read
<1>5. /\ task' = [task EXCEPT ![c] = x] /\ starts' = starts + 1 /\ starts < MaxStarts
      /\ UNCHANGED <<clock, snapshots, logs, checks, summaries, view, errors>>
  BY DEF StartCollection, Continue
<1> HIDE DEF x
<1>6. GoodTask(x, clock') /\ ~Dated(x)
  <2>1. \A e \in Endpoints : x.mine[e] = None /\ x.read[e] = None
    BY <1>2, <1>4
  <2> QED BY <1>4, <2>1 DEF GoodTask, Dated
<1>7. OldDataIsMarked' /\ clock' \in Nat /\ clock <= clock' /\ starts' \in 0..MaxStarts
      /\ errors' \in 0..MaxErrors
  BY <1>5 DEF CollectionInv, OldDataIsMarked, TablesInv, ConstantsAssumption, BoundsAssumption
<1> QED BY <1>4, <1>5, <1>6, <1>7, TaskKeeps

\* What is known of a collector before its step.
LEMMA TaskFacts ==
    ASSUME ConstantsAssumption, CollectionInv, NEW c \in Collectors
    PROVE  /\ task[c] \in TaskState /\ GoodTask(task[c], clock) /\ clock \in Nat
           /\ task[c].i \in 1..Len(Plan) /\ Plan[task[c].i] \in Endpoints
           /\ starts \in 0..MaxStarts /\ errors \in 0..MaxErrors
           /\ UNCHANGED <<summaries, starts, errors>> =>
                OldDataIsMarked' /\ starts' \in 0..MaxStarts /\ errors' \in 0..MaxErrors
<1>1. task[c] \in TaskState /\ GoodTask(task[c], clock)
  BY DEF CollectionInv, TaskInv
<1>2. task[c].i \in 1..Len(Plan)
  BY <1>1 DEF TaskState
<1>3. Plan[task[c].i] \in Endpoints
  BY <1>2, PlanFacts DEF ConstantsAssumption
<1> QED BY <1>1, <1>2, <1>3 DEF CollectionInv, TablesInv, OldDataIsMarked

\* A fetch leaves a success to flush or a failure to log.
LEMMA FetchKeeps ==
    ASSUME ConstantsAssumption, CollectionInv, NEW c \in Collectors, Fetch(c)
    PROVE  CollectionInv'
<1> DEFINE t == task[c]
<1>1. t \in TaskState /\ GoodTask(t, clock) /\ t.pc = "fetch" /\ clock \in Nat
  BY TaskFacts DEF Fetch
<1>2. PICK phase \in {"flush", "log"}, a \in Attempts :
        /\ task' = [task EXCEPT ![c] = [t EXCEPT !.pc = phase, !.data = a]]
        /\ a.result = IF phase = "flush" THEN "success" ELSE "failure"
  <2> HIDE DEF t
  <2>1. ASSUME NEW d \in Datasets,
               Continue(c, [t EXCEPT !.pc = "flush",
                   !.data = [result |-> "success", rows |-> d.rows, missing |-> d.missing]])
        PROVE  \E a \in Attempts :
                  /\ task' = [task EXCEPT ![c] = [t EXCEPT !.pc = "flush", !.data = a]]
                  /\ a.result = "success"
    <3> DEFINE b == [result |-> "success", rows |-> d.rows, missing |-> d.missing]
    <3>1. b \in Attempts /\ b.result = "success"
      BY DEF Attempts
    <3>2. task' = [task EXCEPT ![c] = [t EXCEPT !.pc = "flush", !.data = b]]
      BY <2>1 DEF Continue
    <3> HIDE DEF b
    <3> QED BY <3>1, <3>2
  <2>2. ASSUME Continue(c, [t EXCEPT !.pc = "log",
                   !.data = [result |-> "failure", rows |-> 0, missing |-> 0]])
        PROVE  \E a \in Attempts :
                  /\ task' = [task EXCEPT ![c] = [t EXCEPT !.pc = "log", !.data = a]]
                  /\ a.result = "failure"
    <3> DEFINE b == [result |-> "failure", rows |-> 0, missing |-> 0]
    <3>1. b \in Attempts /\ b.result = "failure"
      BY DEF Attempts
    <3>2. task' = [task EXCEPT ![c] = [t EXCEPT !.pc = "log", !.data = b]]
      BY <2>2 DEF Continue
    <3> HIDE DEF b
    <3> QED BY <3>1, <3>2
  <2>3. \/ \E d \in Datasets :
            Continue(c, [t EXCEPT !.pc = "flush",
                !.data = [result |-> "success", rows |-> d.rows, missing |-> d.missing]])
        \/ Continue(c, [t EXCEPT !.pc = "log",
                !.data = [result |-> "failure", rows |-> 0, missing |-> 0]])
    BY DEF Fetch, t
  <2> QED BY <2>1, <2>2, <2>3
<1> DEFINE x == [t EXCEPT !.pc = phase, !.data = a]
<1>3. /\ x \in TaskState /\ x.pc = phase /\ x.data = a /\ x.mine = t.mine /\ x.read = t.read
      /\ x.at = t.at
  <2> HIDE DEF t
  <2>1. [t EXCEPT !.pc = phase, !.data = a] \in TaskState
    BY <1>1 DEF TaskState, Collecting
  <2> QED BY <1>1, <2>1 DEF TaskState
<1>4. UNCHANGED <<clock, snapshots, logs, checks, summaries, view, starts, errors>>
  BY DEF Fetch
<1> HIDE DEF x
<1>5. GoodTask(x, clock') /\ ~(x.pc = "commit") /\ (x.pc = "log" => x.data.result = "failure")
  BY <1>1, <1>2, <1>3, <1>4 DEF GoodTask, Dated, Collecting
<1>6. ~Dated(x)
  BY <1>5 DEF Dated
<1>7. task' = [task EXCEPT ![c] = x]
  BY <1>2 DEF x
<1>8. clock' \in Nat /\ clock <= clock'
  BY <1>1, <1>4
<1>9. OldDataIsMarked' /\ starts' \in 0..MaxStarts /\ errors' \in 0..MaxErrors
  BY <1>4, TaskFacts
<1> QED BY <1>3, <1>4, <1>5, <1>6, <1>7, <1>8, <1>9, TaskKeeps

\* The first flush gives the rows of a success their time.
LEMMA FlushKeeps ==
    ASSUME ConstantsAssumption, CollectionInv, NEW c \in Collectors, FlushSnapshot(c)
    PROVE  CollectionInv'
<1> DEFINE t == task[c]
           x == [t EXCEPT !.pc = "log", !.at = clock']
<1>1. t \in TaskState /\ GoodTask(t, clock) /\ t.pc = "flush" /\ clock \in Nat
  BY TaskFacts DEF FlushSnapshot
<1>2. /\ task' = [task EXCEPT ![c] = x] /\ clock' = clock + 1
      /\ UNCHANGED <<snapshots, logs, checks, summaries, view, starts, errors>>
  BY DEF FlushSnapshot, Continue, Tick
<1>3. clock' \in Nat /\ clock < clock' /\ clock' \in 1..clock'
  BY <1>1, <1>2
<1>4. /\ x \in TaskState /\ x.pc = "log" /\ x.data = t.data /\ x.mine = t.mine /\ x.read = t.read
      /\ x.at = clock'
  <2> DEFINE n == clock'
  <2>1. n \in Nat
    BY <1>3
  <2> HIDE DEF t, n
  <2>2. [t EXCEPT !.pc = "log", !.at = n] \in TaskState
    BY <1>1, <2>1 DEF TaskState, Collecting
  <2>3. /\ [t EXCEPT !.pc = "log", !.at = n].pc = "log"
        /\ [t EXCEPT !.pc = "log", !.at = n].data = t.data
        /\ [t EXCEPT !.pc = "log", !.at = n].mine = t.mine
        /\ [t EXCEPT !.pc = "log", !.at = n].read = t.read
        /\ [t EXCEPT !.pc = "log", !.at = n].at = n
    BY <1>1 DEF TaskState
  <2> QED BY <2>2, <2>3 DEF n
<1> HIDE DEF x
<1>5. GoodTask(x, clock')
  BY <1>1, <1>3, <1>4 DEF GoodTask, Dated, Collecting
<1>6. OldDataIsMarked' /\ starts' \in 0..MaxStarts /\ errors' \in 0..MaxErrors
  BY <1>2, TaskFacts
<1>7. clock <= clock'
  BY <1>1, <1>2
<1> QED BY <1>2, <1>3, <1>4, <1>5, <1>6, <1>7, TaskKeeps

\* The log has a time, and so has the failure it tells of.
LEMMA LogKeeps ==
    ASSUME ConstantsAssumption, CollectionInv, NEW c \in Collectors, AddLog(c)
    PROVE  CollectionInv'
<1> DEFINE t == task[c]
           at == IF t.data.result = "failure" THEN clock + 2 ELSE t.at
           x == [t EXCEPT !.pc = "commit", !.fin = clock + 1, !.at = at]
<1>1. t \in TaskState /\ GoodTask(t, clock) /\ t.pc = "log" /\ clock \in Nat
  BY TaskFacts DEF AddLog
<1>2. /\ task' = [task EXCEPT ![c] = x] /\ clock' = clock + 2
      /\ UNCHANGED <<snapshots, logs, checks, summaries, view, starts, errors>>
  BY DEF AddLog, Continue
<1>3. /\ at \in 1..clock' /\ at \in Nat /\ clock + 1 \in Nat /\ clock + 1 \in 1..clock' /\ clock' \in Nat
      /\ at > clock \/ (Dated(t) /\ at = t.at)
  <2>1. CASE t.data.result = "failure"
    BY <1>1, <1>2, <2>1
  <2>2. CASE t.data.result # "failure"
    <3>1. Dated(t) /\ t.at \in 1..clock
      BY <1>1, <2>2 DEF GoodTask, Dated
    <3> QED BY <1>1, <1>2, <2>2, <3>1
  <2> QED BY <2>1, <2>2
<1>4. /\ x \in TaskState /\ x.pc = "commit" /\ x.data = t.data /\ x.mine = t.mine /\ x.read = t.read
      /\ x.at = at /\ x.fin = clock + 1
  <2> DEFINE n == clock + 1
  <2>1. n \in Nat /\ at \in Nat
    BY <1>3
  <2> HIDE DEF t, n, at
  <2>2. [t EXCEPT !.pc = "commit", !.fin = n, !.at = at] \in TaskState
    BY <1>1, <2>1 DEF TaskState, Collecting
  <2>3. /\ [t EXCEPT !.pc = "commit", !.fin = n, !.at = at].pc = "commit"
        /\ [t EXCEPT !.pc = "commit", !.fin = n, !.at = at].data = t.data
        /\ [t EXCEPT !.pc = "commit", !.fin = n, !.at = at].mine = t.mine
        /\ [t EXCEPT !.pc = "commit", !.fin = n, !.at = at].read = t.read
        /\ [t EXCEPT !.pc = "commit", !.fin = n, !.at = at].at = at
        /\ [t EXCEPT !.pc = "commit", !.fin = n, !.at = at].fin = n
    BY <1>1 DEF TaskState
  <2> QED BY <2>2, <2>3 DEF n
<1> HIDE DEF x, at
<1>5. GoodTask(x, clock')
  BY <1>1, <1>3, <1>4 DEF GoodTask, Dated, Collecting
<1>6. clock <= clock'
  BY <1>1, <1>2
<1>7. OldDataIsMarked' /\ starts' \in 0..MaxStarts /\ errors' \in 0..MaxErrors
  BY <1>2, TaskFacts
<1> QED BY <1>2, <1>3, <1>4, <1>5, <1>6, <1>7, TaskKeeps

\* What a scan reads as the latest snapshot of an endpoint is not older than any.
LEMMA SnapshotReadIsLatest ==
    ASSUME TablesInv, NEW e \in Endpoints, NEW n,
           n = (IF LatestSnapshot(e) = {} THEN None ELSE (CHOOSE s \in LatestSnapshot(e) : TRUE).at)
    PROVE  n \in Nat /\ (n = None \/ \A m \in Nat : SnapshotAt(e, m) => m <= n)
<1>1. \A s \in LatestSnapshot(e) :
        s \in snapshots /\ s.at \in Nat /\ \A r \in snapshots : r.endpoint = e => r.at <= s.at
  BY DEF LatestSnapshot, Latest, At, TablesInv
<1>2. CASE LatestSnapshot(e) = {}
  BY <1>2 DEF None
<1>3. CASE LatestSnapshot(e) # {}
  <2>1. PICK s \in LatestSnapshot(e) : n = s.at
    BY <1>3
  <2> QED BY <1>1, <2>1 DEF SnapshotAt
<1> QED BY <1>2, <1>3

\* A scan reads a snapshot that is not older than its own attempt, unless that failed.
LEMMA ReadSnapshotKeeps ==
    ASSUME ConstantsAssumption, CollectionInv, NEW c \in Collectors, ReadSnapshot(c)
    PROVE  CollectionInv'
<1> DEFINE t == task[c]
           e == Plan[t.i]
           n == IF LatestSnapshot(e) = {} THEN None ELSE (CHOOSE s \in LatestSnapshot(e) : TRUE).at
           x == IF t.i < Len(Plan) THEN [[t EXCEPT !.read[e] = n] EXCEPT !.i = @ + 1]
                ELSE [[t EXCEPT !.read[e] = n] EXCEPT !.i = 1, !.pc = "own"]
<1>1. /\ t \in TaskState /\ GoodTask(t, clock) /\ t.pc = "scan" /\ clock \in Nat
      /\ t.i \in 1..Len(Plan) /\ e \in Endpoints
  BY TaskFacts DEF ReadSnapshot
<1>2. /\ task' = [task EXCEPT ![c] = x]
      /\ UNCHANGED <<clock, snapshots, logs, checks, summaries, view, starts, errors>>
  BY DEF ReadSnapshot, Continue
<1>3. n \in Nat /\ (n = None \/ \A m \in Nat : SnapshotAt(e, m) => m <= n)
  BY <1>1, SnapshotReadIsLatest DEF CollectionInv
<1>4. 1 \in 1..Len(Plan) /\ (t.i < Len(Plan) => t.i + 1 \in 1..Len(Plan))
  BY <1>1, PlanFacts DEF ConstantsAssumption
<1> HIDE DEF n
<1>5. /\ x \in TaskState /\ x.pc \in Scanning
      /\ x.mine = t.mine /\ x.read = [t.read EXCEPT ![e] = n]
  <2> DEFINE read == [t.read EXCEPT ![e] = n]  r == [t EXCEPT !.read = read]
  <2>1. read \in [Endpoints -> Nat]
    BY <1>1, <1>3 DEF TaskState
  <2>2. [t EXCEPT !.read[e] = n] = r
    BY <1>1 DEF TaskState
  <2> HIDE DEF read, t, e
  <2>3. r \in TaskState /\ r.pc = "scan" /\ r.i = t.i /\ r.mine = t.mine /\ r.read = read
    BY <1>1, <2>1 DEF TaskState
  <2> HIDE DEF r
  <2>4. x = IF t.i < Len(Plan) THEN [r EXCEPT !.i = r.i + 1] ELSE [r EXCEPT !.i = 1, !.pc = "own"]
    BY <2>2, <2>3
  <2> HIDE DEF x
  <2>5. CASE t.i < Len(Plan)
    <3> DEFINE next == r.i + 1
    <3>1. x = [r EXCEPT !.i = next]
      BY <2>4, <2>5
    <3>2. next \in 1..Len(Plan)
      BY <1>4, <2>3, <2>5
    <3> HIDE DEF next
    <3>3. x \in TaskState /\ x.pc = r.pc /\ x.mine = r.mine /\ x.read = r.read
      BY <2>3, <3>1, <3>2 DEF TaskState
    <3> QED BY <2>3, <3>3 DEF Scanning, read
  <2>6. CASE ~(t.i < Len(Plan))
    <3>1. x = [r EXCEPT !.i = 1, !.pc = "own"]
      BY <2>4, <2>6
    <3> QED BY <1>4, <2>3, <3>1 DEF TaskState, Scanning, read
  <2> QED BY <2>5, <2>6
<1>6. \A d \in Endpoints : x.read[d] = None \/ FailedAt(d, x.mine[d]) \/ x.mine[d] <= x.read[d]
  <2> HIDE DEF x, t, e
  <2>1. t.read \in [Endpoints -> Nat] /\ t.mine \in [Endpoints -> Nat]
    BY <1>1 DEF TaskState
  <2> SUFFICES ASSUME NEW d \in Endpoints
               PROVE  x.read[d] = None \/ FailedAt(d, x.mine[d]) \/ x.mine[d] <= x.read[d]
    OBVIOUS
  <2>2. CASE d = e
    <3>1. x.read[d] = n /\ x.mine[d] = t.mine[d] /\ t.mine[d] \in Nat
      BY <1>5, <2>1, <2>2
    <3>2. t.mine[d] = None \/ FailedAt(d, t.mine[d]) \/ SnapshotAt(d, t.mine[d])
      BY <1>1 DEF GoodTask
    <3> QED BY <1>3, <2>2, <3>1, <3>2 DEF None
  <2>3. CASE d # e
    BY <1>1, <1>5, <2>1, <2>3 DEF GoodTask
  <2> QED BY <2>2, <2>3
<1> HIDE DEF x
<1>7. GoodTask(x, clock') /\ ~Dated(x)
  BY <1>1, <1>5, <1>6 DEF GoodTask, Dated, Scanning, Collecting
<1>8. OldDataIsMarked' /\ starts' \in 0..MaxStarts /\ errors' \in 0..MaxErrors
  BY <1>2, TaskFacts
<1>9. clock' \in Nat /\ clock <= clock'
  BY <1>1, <1>2
<1> QED BY <1>2, <1>5, <1>7, <1>8, <1>9, TaskKeeps

\* Of a snapshot the scan reads its check.
LEMMA ReadOwnCheckKeeps ==
    ASSUME ConstantsAssumption, CollectionInv, NEW c \in Collectors, ReadOwnCheck(c)
    PROVE  CollectionInv'
<1> DEFINE t == task[c]
           own == {k \in checks : k.endpoint = Plan[t.i] /\ k.snapshot # None
                                  /\ k.snapshot = t.read[Plan[t.i]]}
           x == [t EXCEPT !.pc = "endpoint", !.seen = own]
<1>1. t \in TaskState /\ GoodTask(t, clock) /\ t.pc = "own" /\ clock \in Nat
  BY TaskFacts DEF ReadOwnCheck
<1>2. /\ task' = [task EXCEPT ![c] = x]
      /\ UNCHANGED <<clock, snapshots, logs, checks, summaries, view, starts, errors>>
  BY DEF ReadOwnCheck, Continue
<1>3. own \in SUBSET CheckRow
  BY DEF CollectionInv, TablesInv
<1>4. x \in TaskState /\ x.pc = "endpoint" /\ x.mine = t.mine /\ x.read = t.read
  <2> HIDE DEF t, own
  <2>1. [t EXCEPT !.pc = "endpoint", !.seen = own] \in TaskState
    BY <1>1, <1>3 DEF TaskState, Scanning
  <2> QED BY <1>1, <2>1 DEF TaskState
<1> HIDE DEF x
<1>5. GoodTask(x, clock') /\ ~Dated(x)
  BY <1>1, <1>4 DEF GoodTask, Dated, Collecting
<1>6. OldDataIsMarked' /\ starts' \in 0..MaxStarts /\ errors' \in 0..MaxErrors
  BY <1>2, TaskFacts
<1>7. clock' \in Nat /\ clock <= clock'
  BY <1>1, <1>2
<1> QED BY <1>2, <1>4, <1>5, <1>6, <1>7, TaskKeeps

\* The latest check tells of a failure, or there is data as new as the attempt.
LEMMA SummaryIsTrue ==
    ASSUME ConstantsAssumption, CollectionInv, NEW c \in Collectors, NEW e \in Endpoints,
           NEW n, n = task[c].read[e], n # None, NEW a, a = task[c].mine[e], NEW own
    PROVE  \/ n >= a
           \/ QualitySummary(SelectedQualityCheck(own, LatestEndpointCheck(e))) = "failed"
           \/ \E s \in snapshots : s.endpoint = e /\ s.at > n
<1>1. /\ n \in Nat /\ a \in Nat /\ (FailedAt(e, a) \/ a <= n)
  BY TaskFacts DEF GoodTask, TaskState
<1> SUFFICES ASSUME FailedAt(e, a), ~(a <= n) PROVE
           \/ QualitySummary(SelectedQualityCheck(own, LatestEndpointCheck(e))) = "failed"
           \/ \E s \in snapshots : s.endpoint = e /\ s.at > n
  BY <1>1
<1>2. PICK k \in checks : k.endpoint = e /\ k.at = a /\ k.status = "failed"
  BY DEF FailedAt
<1>3. PICK l \in LatestEndpointCheck(e) : k.at <= l.at
  BY <1>2, LatestCheckIsThere DEF CollectionInv
<1>4. l \in checks /\ l.endpoint = e /\ l.at \in Nat
  BY DEF LatestEndpointCheck, Latest, CollectionInv, TablesInv
<1>5. CASE l.status = "failed"
  <2>1. \A m \in LatestEndpointCheck(e) : m.status = "failed"
    <3>1. ASSUME NEW m \in LatestEndpointCheck(e) PROVE m.status = "failed"
      <4>1. m \in checks /\ m.at \in Nat /\ m.at <= l.at /\ l.at <= m.at
        BY <1>4 DEF LatestEndpointCheck, Latest, At, CollectionInv, TablesInv
      <4>2. m.at = l.at
        BY <1>4, <4>1
      <4> QED BY <1>4, <1>5, <4>1, <4>2 DEF CollectionInv, TimesAreUnique
    <3> QED BY <3>1
  <2>2. SelectedQualityCheck(own, LatestEndpointCheck(e)) = LatestEndpointCheck(e)
    BY <1>5 DEF SelectedQualityCheck
  <2> QED BY <2>1, <2>2 DEF QualitySummary
<1>6. CASE l.status # "failed"
  <2>1. PICK s \in snapshots : s.endpoint = e /\ s.at = l.at
    BY <1>4, <1>6 DEF CollectionInv, TablesInv, SnapshotAt
  <2>2. s.at > n
    BY <1>1, <1>2, <1>3, <1>4, <2>1
  <2> QED BY <2>1, <2>2
<1> QED BY <1>5, <1>6

\* The scan sums up the quality of a source it has read, and ends after the last.
LEMMA ReadEndpointCheckKeeps ==
    ASSUME ConstantsAssumption, CollectionInv, NEW c \in Collectors, ReadEndpointCheck(c)
    PROVE  CollectionInv'
<1> DEFINE t == task[c]
           e == Plan[t.i]
           x == IF t.i < Len(Plan) THEN [t EXCEPT !.pc = "own", !.i = @ + 1] ELSE NoTask
           row == [endpoint |-> e, snapshot |-> t.read[e], attempt |-> t.mine[e],
                   status |-> QualitySummary(SelectedQualityCheck(t.seen, LatestEndpointCheck(e))),
                   newer |-> \E s \in snapshots : s.endpoint = e /\ s.at > t.read[e]]
<1>1. /\ t \in TaskState /\ GoodTask(t, clock) /\ t.pc = "endpoint" /\ clock \in Nat
      /\ t.i \in 1..Len(Plan) /\ e \in Endpoints /\ starts \in 0..MaxStarts /\ errors \in 0..MaxErrors
  BY TaskFacts DEF ReadEndpointCheck
<1>2. /\ task' = [task EXCEPT ![c] = x]
      /\ UNCHANGED <<clock, snapshots, logs, checks, view, starts, errors>>
      /\ summaries' = IF t.read[e] = None THEN summaries ELSE summaries \cup {row}
  BY DEF ReadEndpointCheck, Continue
<1>3. t.i < Len(Plan) => t.i + 1 \in 1..Len(Plan)
  BY <1>1, PlanFacts DEF ConstantsAssumption
<1>4. OldDataIsMarked'
  <2>1. CASE t.read[e] = None
    BY <1>2, <2>1 DEF OldDataIsMarked, CollectionInv
  <2>2. CASE t.read[e] # None
    <3>1. row.snapshot >= row.attempt \/ row.status = "failed" \/ row.newer
      BY <1>1, <2>2, SummaryIsTrue
    <3>2. summaries' = summaries \cup {row}
      BY <1>2, <2>2
    <3> HIDE DEF row
    <3> QED BY <3>1, <3>2 DEF OldDataIsMarked, CollectionInv
  <2> QED BY <2>1, <2>2
<1>5. x \in TaskState /\ GoodTask(x, clock) /\ ~Dated(x)
  <2>1. CASE t.i < Len(Plan)
    <3> DEFINE next == t.i + 1
    <3>1. x = [t EXCEPT !.pc = "own", !.i = next]
      BY <2>1
    <3>2. next \in 1..Len(Plan)
      BY <1>3, <2>1
    <3> HIDE DEF next, t, x
    <3>3. x \in TaskState /\ x.pc = "own" /\ x.mine = t.mine /\ x.read = t.read
      BY <1>1, <3>1, <3>2 DEF TaskState, Scanning
    <3> QED BY <1>1, <3>3 DEF GoodTask, Dated, Collecting
  <2>2. CASE ~(t.i < Len(Plan))
    BY <2>2, NoTaskIsFresh, FreshIsGood DEF ConstantsAssumption
  <2> QED BY <2>1, <2>2
<1> HIDE DEF x
<1>6. clock' \in Nat /\ clock <= clock' /\ GoodTask(x, clock')
  BY <1>1, <1>2, <1>5
<1>7. starts' \in 0..MaxStarts /\ errors' \in 0..MaxErrors
  BY <1>1, <1>2
<1> QED BY <1>2, <1>4, <1>5, <1>6, <1>7, TaskKeeps

\* What was not committed is forgotten.
LEMMA InterruptKeeps ==
    ASSUME ConstantsAssumption, CollectionInv, NEW c \in Collectors, Interrupt(c)
    PROVE  CollectionInv'
<1> DEFINE n == task[c].tries + 1
           x == IF task'[c] = NoTask THEN NoTask ELSE [NoTask EXCEPT !.pc = "fetch", !.tries = n]
<1>1. task[c].tries \in Nat /\ clock \in Nat /\ starts \in 0..MaxStarts /\ errors \in 0..MaxErrors
  BY TaskFacts DEF TaskState
<1>2. /\ task' = [task EXCEPT ![c] = x]
      /\ errors < MaxErrors /\ errors' = errors + 1
      /\ UNCHANGED <<clock, snapshots, logs, checks, summaries, view, starts>>
  BY <1>1, TaskFacts DEF Interrupt, Continue, TaskState
<1>3. n \in Nat
  BY <1>1
<1>4. x \in TaskState /\ ~Dated(x) /\ GoodTask(x, clock)
  <2> HIDE DEF n
  <2> QED BY <1>3, NoTaskIsFresh, FreshIsGood DEF ConstantsAssumption
<1> HIDE DEF x
<1>5. clock' \in Nat /\ clock <= clock' /\ GoodTask(x, clock')
  BY <1>1, <1>2, <1>4
<1>6. OldDataIsMarked' /\ starts' \in 0..MaxStarts /\ errors' \in 0..MaxErrors
  BY <1>1, <1>2 DEF OldDataIsMarked, CollectionInv, ConstantsAssumption, BoundsAssumption
<1> QED BY <1>2, <1>4, <1>5, <1>6, TaskKeeps

-----------------------------------------------------------------------------
(***************************************************************************)
(* The commit of an attempt, and the status view.                          *)
(***************************************************************************)
\* The next endpoint, or the scan.
LEMMA NextEndpointFacts ==
    ASSUME PlanAssumption, NEW t \in TaskState
    PROVE  /\ NextEndpoint(t) \in TaskState /\ NextEndpoint(t).pc \in {"fetch", "scan"}
           /\ NextEndpoint(t).mine = t.mine /\ NextEndpoint(t).read = t.read
<1>1. t.i \in 1..Len(Plan) /\ 1 \in 1..Len(Plan) /\ (t.i < Len(Plan) => t.i + 1 \in 1..Len(Plan))
  BY PlanFacts DEF TaskState
<1>2. CASE t.i < Len(Plan)
  <2> DEFINE next == t.i + 1
  <2>1. NextEndpoint(t) = [t EXCEPT !.pc = "fetch", !.i = next] /\ next \in 1..Len(Plan)
    BY <1>1, <1>2 DEF NextEndpoint
  <2> HIDE DEF next
  <2> QED BY <2>1 DEF TaskState, Collecting
<1>3. CASE ~(t.i < Len(Plan))
  <2>1. NextEndpoint(t) = [t EXCEPT !.pc = "scan", !.i = 1]
    BY <1>3 DEF NextEndpoint
  <2> QED BY <1>1, <2>1 DEF TaskState, Scanning
<1> QED BY <1>2, <1>3

\* All rows of an attempt appear in one step, under a time that no other has.
LEMMA CommitKeeps ==
    ASSUME ConstantsAssumption, CollectionInv, NEW c \in Collectors, CommitAttempt(c)
    PROVE  CollectionInv'
<1> DEFINE t == task[c]
           e == Plan[t.i]
           status == CheckStatus(t.data)
           log == [endpoint |-> e, at |-> t.at, fin |-> t.fin,
                   result |-> t.data.result, rows |-> t.data.rows]
           snapshot == [endpoint |-> e, at |-> t.at, rows |-> t.data.rows]
           check == [endpoint |-> e, at |-> t.at, log |-> t.fin, status |-> status,
                     snapshot |-> IF t.data.result = "success" THEN t.at ELSE None]
           r == [t EXCEPT !.mine[e] = t.at]
           x == NextEndpoint(r)
<1>1. /\ t \in TaskState /\ GoodTask(t, clock) /\ t.pc = "commit" /\ clock \in Nat
      /\ t.i \in 1..Len(Plan) /\ e \in Endpoints
  BY TaskFacts DEF CommitAttempt
<1>2. /\ task' = [task EXCEPT ![c] = x] /\ logs' = logs \cup {log}
      /\ snapshots' = IF t.data.result = "success" THEN snapshots \cup {snapshot} ELSE snapshots
      /\ checks' = checks \cup {check}
      /\ UNCHANGED <<clock, summaries, view, starts, errors>>
  BY DEF CommitAttempt, Continue
<1>3. /\ t.at \in 1..clock /\ t.fin \in 1..clock /\ t.at \in Nat /\ t.fin \in Nat
      /\ t.data \in Attempts /\ t.data.result \in {"success", "failure"} /\ t.data.rows \in {a.rows : a \in Attempts}
  BY <1>1 DEF GoodTask, Dated, TaskState
<1>4. status \in {"ok", "degraded", "failed"} /\ (status = "failed" <=> t.data.result = "failure")
  BY <1>3, StatusOfAttempt
<1>5. /\ log \in LogRow /\ log.fin = t.fin /\ log.at = t.at /\ log.endpoint = e
      /\ log.result = t.data.result /\ log.rows = t.data.rows
  <2> HIDE DEF t, e
  <2> QED BY <1>1, <1>3 DEF LogRow
<1>6. snapshot.at = t.at /\ snapshot.endpoint = e /\ snapshot.rows = t.data.rows
  OBVIOUS
<1>7. /\ check \in CheckRow /\ check.at = t.at /\ check.endpoint = e /\ check.status = status
      /\ check.log = t.fin /\ check.snapshot = IF t.data.result = "success" THEN t.at ELSE None
  <2> HIDE DEF t, e, status
  <2> QED BY <1>1, <1>3, <1>4 DEF CheckRow, None
<1>8. r \in TaskState /\ r.read = t.read /\ r.mine = [t.mine EXCEPT ![e] = t.at]
  <2> DEFINE mine == [t.mine EXCEPT ![e] = t.at]
  <2>1. mine \in [Endpoints -> Nat] /\ r = [t EXCEPT !.mine = mine]
    BY <1>1, <1>3 DEF TaskState
  <2> HIDE DEF t, e, mine, r
  <2>2. r \in TaskState /\ r.read = t.read /\ r.mine = mine
    BY <1>1, <2>1 DEF TaskState
  <2> QED BY <2>2 DEF mine
<1>9. /\ x \in TaskState /\ x.pc \in {"fetch", "scan"}
      /\ x.mine = [t.mine EXCEPT ![e] = t.at] /\ x.read = t.read
  BY <1>8, NextEndpointFacts DEF ConstantsAssumption
<1> HIDE DEF log, snapshot, check, x, r, status, e, t
<1>10. snapshots \subseteq snapshots' /\ checks \subseteq checks' /\ logs \subseteq logs'
  BY <1>2
<1>11. t.data.result = "success" => snapshot \in snapshots'
  BY <1>2
<1>12. TablesInv'
  <2>1. \A s \in snapshots' : s.endpoint \in Endpoints /\ s.at \in 1..clock
    BY <1>1, <1>2, <1>3, <1>6 DEF CollectionInv, TablesInv
  <2>2. logs' \in SUBSET LogRow /\ \A l \in logs' : l.fin \in 1..clock
    BY <1>2, <1>3, <1>5 DEF CollectionInv, TablesInv
  <2>3. checks' \in SUBSET CheckRow /\ \A k \in checks' : k.at \in 1..clock
    BY <1>2, <1>3, <1>7 DEF CollectionInv, TablesInv
  <2>4. \A k \in checks' : k.status # "failed" =>
            \E s \in snapshots' : s.endpoint = k.endpoint /\ s.at = k.at
    <3>1. ASSUME NEW k \in checks, k.status # "failed"
          PROVE  \E s \in snapshots' : s.endpoint = k.endpoint /\ s.at = k.at
      BY <1>10, <3>1 DEF CollectionInv, TablesInv, SnapshotAt
    <3>2. check.status # "failed" =>
            \E s \in snapshots' : s.endpoint = check.endpoint /\ s.at = check.at
      BY <1>3, <1>4, <1>6, <1>7, <1>11
    <3> QED BY <1>2, <3>1, <3>2
  <2> QED BY <1>2, <2>1, <2>2, <2>3, <2>4 DEF CollectionInv, TablesInv, SnapshotAt
<1>13. /\ \A f, m : FailedAt(f, m) => \E k \in checks' : k.endpoint = f /\ k.at = m /\ k.status = "failed"
       /\ \A f, m : SnapshotAt(f, m) => \E s \in snapshots' : s.endpoint = f /\ s.at = m
  BY <1>10 DEF FailedAt, SnapshotAt
<1>14. task' \in [Collectors -> TaskState] /\ task'[c] = x
       /\ \A d \in Collectors : d # c => task'[d] = task[d] /\ task[d] \in TaskState /\ GoodTask(task[d], clock)
  BY <1>2, <1>9 DEF CollectionInv, TaskInv
<1>15. TaskInv'
  <2>1. ASSUME NEW d \in Collectors, d # c PROVE GoodTask(task[d], clock)'
    <3>1. task'[d] = task[d] /\ GoodTask(task[d], clock) /\ clock' = clock
      BY <1>2, <1>14, <2>1
    <3>2. ASSUME NEW f \in Endpoints
          PROVE  /\ \/ task[d].mine[f] = None
                    \/ \E k \in checks' :
                        k.endpoint = f /\ k.at = task[d].mine[f] /\ k.status = "failed"
                    \/ \E s \in snapshots' : s.endpoint = f /\ s.at = task[d].mine[f]
                 /\ \/ task[d].read[f] = None
                    \/ \E k \in checks' :
                        k.endpoint = f /\ k.at = task[d].mine[f] /\ k.status = "failed"
                    \/ task[d].mine[f] <= task[d].read[f]
      BY <1>13, <3>1 DEF GoodTask
    <3>3. /\ task[d].pc = "flush" => task[d].data.result = "success"
          /\ task[d].pc \in {"log", "commit"} => task[d].data.result \in {"success", "failure"}
          /\ Dated(task[d]) => task[d].at \in 1..clock
          /\ task[d].pc = "commit" => task[d].fin \in 1..clock
          /\ task[d].pc \in Collecting => \A f \in Endpoints : task[d].read[f] = None
      BY <3>1 DEF GoodTask
    <3> QED BY <3>1, <3>2, <3>3 DEF GoodTask, FailedAt, SnapshotAt, Dated
  <2>2. GoodTask(task[c], clock)'
    <3>1. \A f \in Endpoints : x.read[f] = None \/ t.pc \notin Collecting
      BY <1>1, <1>9 DEF GoodTask
    <3>2. t.pc \in Collecting
      BY <1>1 DEF Collecting
    <3>3. ASSUME NEW f \in Endpoints
          PROVE  \/ x.mine[f] = None
                 \/ \E k \in checks' : k.endpoint = f /\ k.at = x.mine[f] /\ k.status = "failed"
                 \/ \E s \in snapshots' : s.endpoint = f /\ s.at = x.mine[f]
      <4>1. CASE f # e
        <5>1. x.mine[f] = t.mine[f]
          BY <1>1, <1>9, <4>1 DEF TaskState
        <5>2. t.mine[f] = None \/ FailedAt(f, t.mine[f]) \/ SnapshotAt(f, t.mine[f])
          BY <1>1 DEF GoodTask
        <5> QED BY <1>13, <5>1, <5>2
      <4>2. CASE f = e
        <5>1. x.mine[f] = t.at
          BY <1>1, <1>9, <4>2 DEF TaskState
        <5>2. check \in checks'
          BY <1>2
        <5>3. CASE t.data.result = "success"
          BY <1>6, <1>11, <4>2, <5>1, <5>3
        <5>4. CASE t.data.result = "failure"
          BY <1>4, <1>7, <4>2, <5>1, <5>2, <5>4
        <5> QED BY <1>3, <5>3, <5>4
      <4> QED BY <4>1, <4>2
    <3>4. task'[c] = x /\ x.pc \in {"fetch", "scan"}
      BY <1>9, <1>14
    <3> QED BY <3>1, <3>2, <3>3, <3>4 DEF GoodTask, FailedAt, SnapshotAt, Dated
  <2> QED BY <1>14, <2>1, <2>2 DEF TaskInv
<1>16. TimesAreUnique'
  <2>1. Dated(t) /\ \A k \in checks : k.at # t.at
    BY <1>1 DEF CollectionInv, TimesAreUnique, Dated, t
  <2>2. \A d \in Collectors : d # c /\ Dated(task[d]) => task[d].at # t.at
    BY <2>1 DEF CollectionInv, TimesAreUnique, t
  <2>3. ASSUME NEW k \in checks', NEW l \in checks', k.at = l.at PROVE k.status = l.status
    BY <1>2, <1>7, <2>1, <2>3 DEF CollectionInv, TimesAreUnique
  <2>4. ~Dated(task'[c])
    BY <1>9, <1>14 DEF Dated
  <2>5. ASSUME NEW d \in Collectors, Dated(task'[d]) PROVE d # c /\ task'[d] = task[d]
    BY <1>14, <2>4, <2>5
  <2>6. ASSUME NEW d \in Collectors, Dated(task'[d]), NEW k \in checks' PROVE k.at # task'[d].at
    BY <1>2, <1>7, <2>2, <2>5, <2>6 DEF CollectionInv, TimesAreUnique
  <2>7. ASSUME NEW d \in Collectors, NEW f \in Collectors, d # f, Dated(task'[d]), Dated(task'[f])
        PROVE  task'[d].at # task'[f].at
    BY <2>5, <2>7 DEF CollectionInv, TimesAreUnique
  <2> QED BY <2>3, <2>6, <2>7 DEF TimesAreUnique, Dated
<1>17. ViewInv'
  BY <1>2, <1>10 DEF CollectionInv, ViewInv
<1>18. AttemptsAreWhole'
  <2>1. check \in checks' /\ log \in logs'
    BY <1>2
  <2>2. ASSUME NEW s \in snapshots'
        PROVE  /\ \E l \in logs' : l.at = s.at /\ l.endpoint = s.endpoint /\ l.rows = s.rows
               /\ \E k \in checks' : k.snapshot = s.at
    <3>1. CASE s \in snapshots
      BY <1>10, <3>1 DEF CollectionInv, AttemptsAreWhole
    <3>2. CASE s = snapshot /\ t.data.result = "success"
      BY <1>5, <1>6, <1>7, <2>1, <3>2
    <3> QED BY <1>2, <3>1, <3>2
  <2>3. ASSUME NEW l \in logs'
        PROVE  \E k \in checks' : /\ k.log = l.fin /\ k.at = l.at
                                  /\ l.result = "failure" <=> k.status = "failed"
    <3>1. CASE l \in logs
      BY <1>10, <3>1 DEF CollectionInv, AttemptsAreWhole
    <3>2. CASE l = log
      BY <1>4, <1>5, <1>7, <2>1, <3>2
    <3> QED BY <1>2, <3>1, <3>2
  <2> QED BY <2>2, <2>3 DEF AttemptsAreWhole
<1>19. OldDataIsMarked'
  BY <1>2 DEF OldDataIsMarked, CollectionInv
<1> QED BY <1>12, <1>15, <1>16, <1>17, <1>18, <1>19 DEF CollectionInv

\* A view reads the latest log, the latest success and the latest failure.
LEMMA ViewKeeps == ASSUME CollectionInv, View PROVE CollectionInv'
<1>1. UNCHANGED <<clock, snapshots, logs, checks, task, summaries, starts, errors>>
  BY DEF View, ViewLatest, ViewLastSuccess, ViewLastFailure, ViewAgain
<1>2. ViewInv'
  <2>1. CASE ViewLatest
    <3> DEFINE rows == LatestFetchLog(ViewedEndpoint, {"success", "failure"})
    <3>1. rows \subseteq LogRow /\ \A l \in rows : l \in logs /\ l.endpoint = ViewedEndpoint
      BY DEF LatestFetchLog, Latest, CollectionInv, TablesInv
    <3>2. view' = [pc |-> "latest", latest |-> rows, success |-> {}, failure |-> {}]
      BY <2>1 DEF ViewLatest, NoView
    <3> HIDE DEF rows
    <3> QED BY <1>1, <3>1, <3>2 DEF ViewInv
  <2>2. CASE ViewLastSuccess
    <3> DEFINE rows == LatestFetchLog(ViewedEndpoint, {"success"})
    <3>1. rows \subseteq LogRow
      BY DEF LatestFetchLog, Latest, CollectionInv, TablesInv
    <3>2. \A l \in view.latest : l.result = "success" => \E s \in rows : s.fin >= l.fin
      BY LatestLogIsThere DEF CollectionInv, ViewInv
    <3>3. view' = [view EXCEPT !.pc = "success", !.success = rows]
      BY <2>2 DEF ViewLastSuccess
    <3> HIDE DEF rows
    <3>4. /\ view'.pc = "success" /\ view'.latest = view.latest /\ view'.success = rows
          /\ view' \in [pc : {"idle", "latest", "success", "done"}, latest : SUBSET LogRow,
                        success : SUBSET LogRow, failure : SUBSET LogRow]
      BY <3>1, <3>3 DEF CollectionInv, ViewInv
    <3> QED BY <1>1, <3>2, <3>4 DEF CollectionInv, ViewInv
  <2>3. CASE ViewLastFailure
    <3> DEFINE rows == LatestFetchLog(ViewedEndpoint, {"failure"})
    <3>1. rows \subseteq LogRow
      BY DEF LatestFetchLog, Latest, CollectionInv, TablesInv
    <3>2. \A l \in view.latest : l.result = "failure" => \E s \in rows : s.fin >= l.fin
      BY LatestLogIsThere DEF CollectionInv, ViewInv
    <3>3. view' = [view EXCEPT !.pc = "done", !.failure = rows] /\ view.pc = "success"
      BY <2>3 DEF ViewLastFailure
    <3> HIDE DEF rows
    <3>4. /\ view'.pc = "done" /\ view'.latest = view.latest /\ view'.success = view.success
          /\ view'.failure = rows
          /\ view' \in [pc : {"idle", "latest", "success", "done"}, latest : SUBSET LogRow,
                        success : SUBSET LogRow, failure : SUBSET LogRow]
      BY <3>1, <3>3 DEF CollectionInv, ViewInv
    <3> QED BY <1>1, <3>2, <3>3, <3>4 DEF CollectionInv, ViewInv
  <2>4. CASE ViewAgain
    BY <1>1, <2>4 DEF ViewAgain, NoView, ViewInv
  <2> QED BY <2>1, <2>2, <2>3, <2>4 DEF View
<1>3. TablesInv' /\ TimesAreUnique' /\ AttemptsAreWhole' /\ OldDataIsMarked'
  BY <1>1 DEF CollectionInv, TablesInv, SnapshotAt, TimesAreUnique, Dated, AttemptsAreWhole,
             OldDataIsMarked
<1>4. TaskInv'
  BY <1>1 DEF CollectionInv, TaskInv, GoodTask, FailedAt, SnapshotAt, Dated
<1> QED BY <1>2, <1>3, <1>4 DEF CollectionInv

\* The inductive invariant holds.
LEMMA CollectionAlways == ASSUME ConstantsAssumption PROVE Spec => []CollectionInv
<1>1. Init => CollectionInv
  BY InitInv
<1>2. CollectionInv /\ [Next]_vars => CollectionInv'
  <2> SUFFICES ASSUME CollectionInv, [Next]_vars PROVE CollectionInv'
    OBVIOUS
  <2>1. ASSUME NEW c \in Collectors, StartCollection(c) \/ Work(c) \/ Interrupt(c)
        PROVE  CollectionInv'
    BY <2>1, StartKeeps, FetchKeeps, FlushKeeps, LogKeeps, CommitKeeps, ReadSnapshotKeeps,
       ReadOwnCheckKeeps, ReadEndpointCheckKeeps, InterruptKeeps DEF Work
  <2>2. CASE UNCHANGED vars
    BY <2>2 DEF vars, CollectionInv, TablesInv, TaskInv, GoodTask, FailedAt, SnapshotAt, Dated,
                TimesAreUnique, ViewInv, AttemptsAreWhole, OldDataIsMarked
  <2> QED BY <2>1, <2>2, ViewKeeps DEF Next
<1> QED BY <1>1, <1>2, PTL DEF Spec

-----------------------------------------------------------------------------
\* Wherever collections overlap, are cut off or start again, what they leave is whole,
\* no scan takes data older than its own attempt for sound, and a status view is
\* coherent (_record_success, _record_failure, _selected_quality_check).
THEOREM CollectionsCorrect == ASSUME ConstantsAssumption PROVE Spec => []CollectionsAreWhole
<1>1. CollectionInv => CollectionsAreWhole
  <2> SUFFICES ASSUME CollectionInv PROVE CollectionsAreWhole
    OBVIOUS
  <2>1. TypeOK
    BY DEF TypeOK, CollectionInv, TablesInv, TaskInv, TaskState, LogRow, CheckRow, Collecting,
           Scanning
  <2>2. ViewsAreCoherent
    BY DEF ViewsAreCoherent, CollectionInv, ViewInv, LogRow
  <2> QED BY <2>1, <2>2 DEF CollectionInv, CollectionsAreWhole
<1> QED BY <1>1, CollectionAlways, PTL
=============================================================================
