-------------------------- MODULE RadarPipelineProofs --------------------------
(***************************************************************************)
(* A tick of the beat is at one place: in the queue, with one process or   *)
(* ended.  Each attempt at it is paid for by a retry or a restart, and the *)
(* newest batch has been offered or its tick is still to be attempted.     *)
(***************************************************************************)
EXTENDS RadarPipeline, FiniteSetTheorems, TLAPS

\* The phases of a process before it has opened a batch, and after.
Early == {"collect", "open"}
Late == {"scan", "push", "ack"}

Batch == [tick : 1 .. MaxBeats, status : Outcomes \cup {"running"}]
Working == [pc : Early \cup Late, msg : Message, batch : Nat]
End == [tick : 1 .. MaxBeats, how : {"done", "given_up", "lost"}, batch : Nat]

Busy(w) == worker[w] # Idle

TypeInv ==
    /\ beats \in 0 .. MaxBeats /\ queue \in SUBSET Message /\ data \in BOOLEAN
    /\ restarts \in 0 .. MaxDeaths
    /\ up \subseteq Workers /\ \A w \in Workers : Busy(w) => w \in up
    /\ worker \in [Workers -> {Idle} \cup Working]
    /\ batches \in Seq(Batch) /\ ended \in Seq(End)
    /\ \A b \in DOMAIN logged : b \in DOMAIN batches /\ logged[b] \in {"sent", "failed"}

\* Each tick is at one place: its message waits, or a process is at it, or it has ended.
OnePlace ==
    /\ \A m \in queue : m.tick <= beats /\ m.copy <= restarts
    /\ \A m, n \in queue : m.tick = n.tick => m = n
    /\ \A w \in Workers : Busy(w) =>
        /\ worker[w].msg.tick <= beats /\ worker[w].msg.copy <= restarts
        /\ \A m \in queue : m.tick # worker[w].msg.tick
        /\ \A v \in Workers : Busy(v) /\ v # w => worker[v].msg.tick # worker[w].msg.tick
    /\ \A i \in DOMAIN ended :
        /\ ended[i].tick <= beats
        /\ \A m \in queue : m.tick # ended[i].tick
        /\ \A w \in Workers : Busy(w) => worker[w].msg.tick # ended[i].tick

\* A process that has opened a batch has the latest one of its tick.
OwnBatch ==
    /\ \A w \in Workers : Busy(w) => worker[w].batch \in 0 .. Len(batches)
    /\ \A w \in Workers : Busy(w) /\ worker[w].pc \in Late =>
        /\ worker[w].batch \in DOMAIN batches
        /\ batches[worker[w].batch].tick = worker[w].msg.tick
        /\ \A b \in DOMAIN batches : batches[b].tick = worker[w].msg.tick => b <= worker[w].batch
        /\ worker[w].pc = "scan" => batches[worker[w].batch].status = "running"

\* The batches of a tick are counted by the retries and copies of its message.
Counted ==
    /\ \A t \in 1 .. MaxBeats : t > beats => AttemptsOf(t) = {}
    /\ \A m \in queue : Cardinality(AttemptsOf(m.tick)) <= m.retries + m.copy
    /\ \A w \in Workers : Busy(w) =>
        Cardinality(AttemptsOf(worker[w].msg.tick))
            <= worker[w].msg.retries + worker[w].msg.copy
                 + (IF worker[w].pc \in Early THEN 0 ELSE 1)
    /\ \A t \in 1 .. MaxBeats : Cardinality(AttemptsOf(t)) <= 1 + MAX_RETRIES + restarts

\* A successful newest batch that was not offered is of a tick that is still to be
\* attempted or pushed, or was given up.
NewestIsPending ==
    batches # <<>> /\ Last(batches).status = "success" /\ Len(batches) \notin DOMAIN logged =>
        LET t == Last(batches).tick IN
        \/ \E m \in queue : m.tick = t
        \/ \E w \in Workers :
              /\ Busy(w) /\ worker[w].msg.tick = t
              /\ worker[w].pc \in Early \/ (worker[w].pc = "push" /\ worker[w].batch = Len(batches))
        \/ \E i \in DOMAIN ended : ended[i].tick = t /\ ended[i].how # "done"

\* A single process works at the newest batch, and has offered those it is done with.
OneProcess ==
    (\A v, w \in up : v = w) =>
    /\ \A w \in Workers : Busy(w) /\ worker[w].pc \in Late => worker[w].batch = Len(batches)
    /\ \A w \in Workers :
        Busy(w) /\ worker[w].pc = "ack" /\ batches[worker[w].batch].status = "success" =>
            worker[w].batch \in DOMAIN logged
    /\ \A i \in DOMAIN ended : ended[i].how = "done" =>
        /\ ended[i].batch \in DOMAIN batches
        /\ batches[ended[i].batch].status = "success" => ended[i].batch \in DOMAIN logged
        /\ \A w \in Workers : Busy(w) /\ worker[w].pc \in Late => ended[i].batch < worker[w].batch

\* The inductive invariant.
PipelineInv == TypeInv /\ OnePlace /\ OwnBatch /\ Counted /\ NewestIsPending /\ OneProcess

-----------------------------------------------------------------------------
(***************************************************************************)
(* Processes and batches.                                                  *)
(***************************************************************************)
\* A process is idle or at a message.
LEMMA Shape ==
    ASSUME TypeInv, NEW w \in Workers
    PROVE  /\ Busy(w) <=> worker[w].pc # "idle"
           /\ Busy(w) =>
                /\ worker[w] \in Working /\ worker[w].pc \in Early \cup Late
                /\ worker[w].msg \in Message /\ worker[w].batch \in Nat
                /\ worker[w].msg.tick \in 1 .. MaxBeats /\ worker[w].msg.retries \in 0 .. MAX_RETRIES
                /\ worker[w].msg.copy \in 0 .. MaxDeaths
<1>1. worker[w] \in {Idle} \cup Working
  BY DEF TypeInv
<1>2. Idle.pc = "idle" /\ \A x \in Working : x.pc \in Early \cup Late /\ x.pc # "idle"
  BY DEF Idle, Working, Early, Late
<1>3. \A x \in Working : x.msg \in Message /\ x.batch \in Nat
  BY DEF Working
<1>4. \A m \in Message : m.tick \in 1 .. MaxBeats /\ m.retries \in 0 .. MAX_RETRIES /\ m.copy \in 0 .. MaxDeaths
  BY DEF Message
<1> QED BY <1>1, <1>2, <1>3, <1>4 DEF Busy

\* What a step of one process does to the processes.
LEMMA Becomes ==
    ASSUME TypeInv, NEW w \in Workers, NEW x \in {Idle} \cup Working,
           worker' = [worker EXCEPT ![w] = x]
    PROVE  /\ worker' \in [Workers -> {Idle} \cup Working]
           /\ worker'[w] = x /\ \A v \in Workers : v # w => worker'[v] = worker[v]
           /\ Busy(w)' <=> x # Idle
           /\ \A v \in Workers : v # w => (Busy(v)' <=> Busy(v))
BY DEF TypeInv, Busy

\* A scan that ends changes the status of its batch and nothing else of the batches.
StatusOnly(w) ==
    \/ batches' = batches
    \/ /\ worker[w].pc = "scan"
       /\ \E s \in Outcomes : batches' = [batches EXCEPT ![worker[w].batch].status = s]

\* The batches stay what they are, but for that status.
LEMMA BatchesStay ==
    ASSUME PipelineInv, NEW w \in Workers, Busy(w), StatusOnly(w)
    PROVE  /\ batches' \in Seq(Batch) /\ Len(batches') = Len(batches)
           /\ Len(batches) \in Nat /\ DOMAIN batches' = 1 .. Len(batches)
           /\ DOMAIN batches = 1 .. Len(batches)
           /\ \A b \in DOMAIN batches : batches'[b].tick = batches[b].tick
           /\ \A b \in DOMAIN batches :
                b # worker[w].batch \/ worker[w].pc # "scan" => batches'[b].status = batches[b].status
           /\ \A t : AttemptsOf(t)' = AttemptsOf(t)
<1>1. batches \in Seq(Batch) /\ Len(batches) \in Nat /\ DOMAIN batches = 1 .. Len(batches)
  BY DEF PipelineInv, TypeInv
<1>2. /\ batches' \in Seq(Batch) /\ Len(batches') = Len(batches)
      /\ \A b \in DOMAIN batches : batches'[b].tick = batches[b].tick
      /\ \A b \in DOMAIN batches :
            b # worker[w].batch \/ worker[w].pc # "scan" => batches'[b].status = batches[b].status
  <2>1. CASE batches' = batches
    BY <1>1, <2>1
  <2>2. ASSUME worker[w].pc = "scan", NEW s \in Outcomes,
               batches' = [batches EXCEPT ![worker[w].batch].status = s]
        PROVE  /\ batches' \in Seq(Batch) /\ Len(batches') = Len(batches)
               /\ \A b \in DOMAIN batches : batches'[b].tick = batches[b].tick
               /\ \A b \in DOMAIN batches :
                    b # worker[w].batch \/ worker[w].pc # "scan" => batches'[b].status = batches[b].status
    <3> DEFINE own == worker[w].batch
               new == [batches[own] EXCEPT !.status = s]
    <3>1. own \in 1 .. Len(batches)
      BY <1>1, <2>2 DEF PipelineInv, OwnBatch, Late
    <3>2. batches[own] \in Batch
      BY <1>1, <3>1
    <3>3. new \in Batch /\ new.tick = batches[own].tick
      BY <3>2 DEF Batch
    <3>4. batches' = [batches EXCEPT ![own] = new]
      BY <2>2
    <3> HIDE DEF own, new
    <3>5. /\ batches' \in Seq(Batch) /\ Len(batches') = Len(batches) /\ batches'[own] = new
          /\ \A b \in DOMAIN batches : b # own => batches'[b] = batches[b]
      BY <1>1, <3>1, <3>3, <3>4
    <3> QED BY <2>2, <3>3, <3>5 DEF own
  <2> QED BY <2>1, <2>2 DEF StatusOnly
<1>3. DOMAIN batches' = 1 .. Len(batches)
  BY <1>1, <1>2
<1> QED BY <1>1, <1>2, <1>3 DEF AttemptsOf

\* The batches of a tick can be counted.
LEMMA AttemptsAreFinite ==
    ASSUME batches \in Seq(Batch), NEW t
    PROVE  /\ AttemptsOf(t) \subseteq 1 .. Len(batches) /\ IsFiniteSet(AttemptsOf(t))
           /\ Cardinality(AttemptsOf(t)) \in Nat
<1>1. Len(batches) \in Nat /\ DOMAIN batches = 1 .. Len(batches)
  OBVIOUS
<1>2. AttemptsOf(t) \subseteq 1 .. Len(batches)
  BY <1>1 DEF AttemptsOf
<1>3. IsFiniteSet(1 .. Len(batches))
  BY <1>1, FS_Interval
<1>4. IsFiniteSet(AttemptsOf(t))
  BY <1>2, <1>3, FS_Subset
<1> QED BY <1>2, <1>4, FS_CardinalityType

-----------------------------------------------------------------------------
(***************************************************************************)
(* The steps.                                                              *)
(***************************************************************************)
\* A process goes on with its task.
LEMMA GoesOn ==
    ASSUME PipelineAssumption, PipelineInv, NEW w \in Workers, Busy(w), NEW x \in Working,
           worker' = [worker EXCEPT ![w] = x],
           x.msg = worker[w].msg, x.batch = worker[w].batch, StatusOnly(w),
           UNCHANGED <<up, beats, queue, ended, restarts>>, data' \in BOOLEAN,
           \A b \in DOMAIN logged' : b \in DOMAIN batches /\ logged'[b] \in {"sent", "failed"},
           \A b \in DOMAIN logged : b \in DOMAIN logged',
           \/ worker[w].pc \in Early /\ x.pc \in Early /\ UNCHANGED batches
           \/ worker[w].pc = "scan" /\ x.pc = "push"
           \/ /\ worker[w].pc = "push" /\ x.pc = "ack" /\ UNCHANGED batches
              /\ batches[Len(batches)].status = "success" => Len(batches) \in DOMAIN logged'
    PROVE  PipelineInv'
<1>1. /\ batches' \in Seq(Batch) /\ Len(batches') = Len(batches) /\ Len(batches) \in Nat
      /\ DOMAIN batches' = 1 .. Len(batches) /\ DOMAIN batches = 1 .. Len(batches)
      /\ \A b \in DOMAIN batches : batches'[b].tick = batches[b].tick
      /\ \A b \in DOMAIN batches :
            b # worker[w].batch \/ worker[w].pc # "scan" => batches'[b].status = batches[b].status
      /\ \A t : AttemptsOf(t)' = AttemptsOf(t)
  BY BatchesStay
<1>2. /\ worker' \in [Workers -> {Idle} \cup Working]
      /\ worker'[w] = x /\ \A v \in Workers : v # w => worker'[v] = worker[v]
  BY Becomes DEF PipelineInv
<1>3. x # Idle /\ x.pc \in Early \cup Late /\ (x.pc \in Late <=> worker[w].pc \in Late)
      /\ (x.pc \in Early <=> worker[w].pc \in Early) /\ x.pc # "scan"
  BY DEF Working, Early, Late, Idle
<1>4. \A v \in Workers :
        /\ Busy(v)' <=> Busy(v)
        /\ worker'[v].msg = worker[v].msg /\ worker'[v].batch = worker[v].batch
        /\ worker'[v].pc \in Late <=> worker[v].pc \in Late
        /\ worker'[v].pc \in Early <=> worker[v].pc \in Early
        /\ v # w => worker'[v].pc = worker[v].pc
  BY <1>2, <1>3 DEF Busy
<1>5. TypeInv'
  BY <1>1, <1>2, <1>4 DEF PipelineInv, TypeInv
<1>6. OnePlace'
  <2>1. \A v \in Workers : (Busy(v)' <=> Busy(v)) /\ worker'[v].msg = worker[v].msg
    BY <1>4
  <2> HIDE DEF Busy
  <2> QED BY <2>1 DEF PipelineInv, OnePlace
<1>7. OwnBatch'
  <2>1. ASSUME NEW v \in Workers, Busy(v)' PROVE worker'[v].batch \in 0 .. Len(batches')
    BY <1>1, <1>4, <2>1 DEF PipelineInv, OwnBatch
  <2>2. ASSUME NEW v \in Workers, Busy(v)', worker'[v].pc \in Late
        PROVE  /\ worker'[v].batch \in DOMAIN batches'
               /\ batches'[worker'[v].batch].tick = worker'[v].msg.tick
               /\ \A b \in DOMAIN batches' : batches'[b].tick = worker'[v].msg.tick => b <= worker'[v].batch
    BY <1>1, <1>4, <2>2 DEF PipelineInv, OwnBatch
  <2>3. ASSUME NEW v \in Workers, Busy(v)', worker'[v].pc \in Late, worker'[v].pc = "scan"
        PROVE  batches'[worker'[v].batch].status = "running"
    <3>1. v # w
      BY <1>2, <1>3, <2>3
    <3>2. /\ Busy(v) /\ worker[v].pc = "scan" /\ worker[v].pc \in Late /\ worker'[v].batch = worker[v].batch
          /\ worker[v].batch \in DOMAIN batches /\ batches[worker[v].batch].status = "running"
      BY <1>4, <2>3, <3>1 DEF PipelineInv, OwnBatch
    <3>3. worker[w].pc = "scan" => worker[w].batch # worker[v].batch
      BY <3>1, <3>2 DEF PipelineInv, OwnBatch, OnePlace, Late
    <3> QED BY <1>1, <3>2, <3>3
  <2> QED BY <2>1, <2>2, <2>3 DEF OwnBatch
<1>8. Counted'
  <2>1. \A v \in Workers : (Busy(v)' <=> Busy(v)) /\ worker'[v].msg = worker[v].msg
                           /\ (worker'[v].pc \in Early <=> worker[v].pc \in Early)
    BY <1>4
  <2> QED BY <1>1, <2>1 DEF PipelineInv, Counted
<1>9. NewestIsPending'
  <2> SUFFICES ASSUME batches' # <<>>, Last(batches').status = "success", Len(batches') \notin DOMAIN logged'
               PROVE  LET t == Last(batches').tick IN
                      \/ \E m \in queue' : m.tick = t
                      \/ \E v \in Workers :
                            /\ Busy(v)' /\ worker'[v].msg.tick = t
                            /\ worker'[v].pc \in Early \/ (worker'[v].pc = "push" /\ worker'[v].batch = Len(batches'))
                      \/ \E i \in DOMAIN ended' : ended'[i].tick = t /\ ended'[i].how # "done"
    BY DEF NewestIsPending
  <2> DEFINE n == Len(batches)  t == batches[n].tick
  <2>1. n \in DOMAIN batches /\ Last(batches') = batches'[n] /\ Last(batches) = batches[n] /\ batches # <<>>
        /\ batches'[n].tick = t
    BY <1>1 DEF Last
  <2>2. n \notin DOMAIN logged /\ n \notin DOMAIN logged'
    BY <1>1
  <2>3. CASE worker[w].pc = "scan" /\ worker[w].batch = n
    <3>1. worker[w].msg.tick = t
      BY <2>3 DEF PipelineInv, OwnBatch, Late
    <3>2. Busy(w)' /\ worker'[w].msg.tick = t /\ worker'[w].pc = "push" /\ worker'[w].batch = n
      BY <1>2, <1>4, <2>3, <3>1 DEF Early
    <3> QED BY <1>1, <2>1, <3>2
  <2>4. CASE ~(worker[w].pc = "scan" /\ worker[w].batch = n)
    <3>1. batches[n].status = "success"
      BY <1>1, <2>1, <2>4
    <3>2. \/ \E m \in queue : m.tick = t
          \/ \E v \in Workers :
                /\ Busy(v) /\ worker[v].msg.tick = t
                /\ worker[v].pc \in Early \/ (worker[v].pc = "push" /\ worker[v].batch = n)
          \/ \E i \in DOMAIN ended : ended[i].tick = t /\ ended[i].how # "done"
      BY <2>1, <2>2, <3>1 DEF PipelineInv, NewestIsPending
    <3>3. ASSUME NEW v \in Workers, Busy(v), worker[v].msg.tick = t,
                 worker[v].pc \in Early \/ (worker[v].pc = "push" /\ worker[v].batch = n)
          PROVE  /\ Busy(v)' /\ worker'[v].msg.tick = t
                 /\ worker'[v].pc \in Early \/ (worker'[v].pc = "push" /\ worker'[v].batch = n)
      <4>1. ~(v = w /\ worker[w].pc = "push")
        BY <1>1, <2>2, <3>1 DEF Early
      <4> QED BY <1>4, <3>3, <4>1
    <3> QED BY <1>1, <2>1, <3>2, <3>3
  <2> QED BY <2>3, <2>4
<1>10. OneProcess'
  <2> SUFFICES ASSUME \A u, v \in up : u = v PROVE OneProcess'
    BY DEF OneProcess
  <2>0. \A v \in Workers : Busy(v) => v = w
    BY DEF PipelineInv, TypeInv
  <2>1. /\ \A v \in Workers : Busy(v) /\ worker[v].pc \in Late => worker[v].batch = Len(batches)
        /\ \A v \in Workers :
            Busy(v) /\ worker[v].pc = "ack" /\ batches[worker[v].batch].status = "success" =>
                worker[v].batch \in DOMAIN logged
        /\ \A i \in DOMAIN ended : ended[i].how = "done" =>
            /\ ended[i].batch \in DOMAIN batches
            /\ batches[ended[i].batch].status = "success" => ended[i].batch \in DOMAIN logged
            /\ \A v \in Workers : Busy(v) /\ worker[v].pc \in Late => ended[i].batch < worker[v].batch
    BY DEF PipelineInv, OneProcess
  <2>2. \A v \in Workers : Busy(v)' /\ worker'[v].pc \in Late => worker'[v].batch = Len(batches')
    BY <1>1, <1>4, <2>1
  <2>3. ASSUME NEW v \in Workers, Busy(v)', worker'[v].pc = "ack",
               batches'[worker'[v].batch].status = "success"
        PROVE  worker'[v].batch \in DOMAIN logged'
    <3>1. v = w /\ x.pc = "ack" /\ worker[w].pc = "push" /\ UNCHANGED batches
      BY <1>2, <1>4, <2>0, <2>3 DEF Early
    <3>2. worker'[v].batch = Len(batches)
      BY <1>1, <2>2, <2>3 DEF Late
    <3> QED BY <2>3, <3>1, <3>2 DEF Early
  <2>4. ASSUME NEW i \in DOMAIN ended', ended'[i].how = "done"
        PROVE  /\ ended'[i].batch \in DOMAIN batches'
               /\ batches'[ended'[i].batch].status = "success" => ended'[i].batch \in DOMAIN logged'
               /\ \A v \in Workers : Busy(v)' /\ worker'[v].pc \in Late => ended'[i].batch < worker'[v].batch
    <3> DEFINE b == ended[i].batch
    <3>1. ended' = ended /\ b \in DOMAIN batches /\ (batches[b].status = "success" => b \in DOMAIN logged)
      BY <2>1, <2>4
    <3>2. \A v \in Workers : Busy(v) /\ worker[v].pc \in Late => b < worker[v].batch
      BY <2>1, <2>4
    <3>3. worker[w].pc = "scan" => b # worker[w].batch
      BY <1>1, <3>1, <3>2 DEF Late
    <3>4. batches'[b].status = batches[b].status
      BY <1>1, <3>1, <3>3
    <3> QED BY <1>1, <1>4, <3>1, <3>2, <3>4
  <2> QED BY <2>2, <2>3, <2>4 DEF OneProcess
<1> QED BY <1>5, <1>6, <1>7, <1>8, <1>9, <1>10 DEF PipelineInv

\* A process gives its message back, after an exception or when it is killed.
LEMMA GivesBack ==
    ASSUME PipelineAssumption, PipelineInv, NEW w \in Workers, Busy(w), NEW m \in Message,
           worker' = [worker EXCEPT ![w] = Idle], queue' = queue \cup {m}, StatusOnly(w),
           m.tick = worker[w].msg.tick,
           m.retries + m.copy = worker[w].msg.retries + worker[w].msg.copy + 1,
           restarts' \in 0 .. MaxDeaths, restarts <= restarts', m.copy <= restarts',
           UNCHANGED <<up, beats, data, logged, ended>>
    PROVE  PipelineInv'
<1>1. /\ batches' \in Seq(Batch) /\ Len(batches') = Len(batches) /\ Len(batches) \in Nat
      /\ DOMAIN batches' = 1 .. Len(batches) /\ DOMAIN batches = 1 .. Len(batches)
      /\ \A b \in DOMAIN batches : batches'[b].tick = batches[b].tick
      /\ \A b \in DOMAIN batches :
            b # worker[w].batch \/ worker[w].pc # "scan" => batches'[b].status = batches[b].status
      /\ \A t : AttemptsOf(t)' = AttemptsOf(t)
  BY BatchesStay
<1>2. /\ worker' \in [Workers -> {Idle} \cup Working] /\ ~Busy(w)'
      /\ \A v \in Workers : v # w => worker'[v] = worker[v] /\ (Busy(v)' <=> Busy(v))
  BY Becomes DEF PipelineInv
<1>3. restarts \in Nat /\ restarts' \in Nat /\ \A k \in queue : k.copy \in Nat
  BY DEF PipelineInv, TypeInv, PipelineAssumption, Message
<1>4. \A v \in Workers : Busy(v)' => v # w /\ Busy(v) /\ worker'[v] = worker[v]
                                     /\ worker[v].msg.copy \in Nat
  <2>1. \A v \in Workers : Busy(v) => worker[v].msg.copy \in Nat
    BY Shape DEF PipelineInv
  <2> QED BY <1>2, <2>1
<1>5. TypeInv'
  BY <1>1, <1>2 DEF PipelineInv, TypeInv
<1>6. OnePlace'
  <2>1. /\ worker[w].msg.tick <= beats /\ \A k \in queue : k.tick # worker[w].msg.tick
        /\ \A v \in Workers : Busy(v) /\ v # w => worker[v].msg.tick # worker[w].msg.tick
        /\ \A i \in DOMAIN ended : ended[i].tick # worker[w].msg.tick
    BY DEF PipelineInv, OnePlace
  <2>2. \A k \in queue' : k.tick <= beats' /\ k.copy <= restarts'
    BY <1>3, <2>1 DEF PipelineInv, OnePlace
  <2>3. \A k, l \in queue' : k.tick = l.tick => k = l
    BY <2>1 DEF PipelineInv, OnePlace
  <2>4. ASSUME NEW v \in Workers, Busy(v)'
        PROVE  /\ worker'[v].msg.tick <= beats' /\ worker'[v].msg.copy <= restarts'
               /\ \A k \in queue' : k.tick # worker'[v].msg.tick
               /\ \A u \in Workers : Busy(u)' /\ u # v => worker'[u].msg.tick # worker'[v].msg.tick
    BY <1>3, <1>4, <2>1, <2>4 DEF PipelineInv, OnePlace
  <2>5. ASSUME NEW i \in DOMAIN ended'
        PROVE  /\ ended'[i].tick <= beats'
               /\ \A k \in queue' : k.tick # ended'[i].tick
               /\ \A v \in Workers : Busy(v)' => worker'[v].msg.tick # ended'[i].tick
    BY <1>4, <2>1 DEF PipelineInv, OnePlace
  <2> QED BY <2>2, <2>3, <2>4, <2>5 DEF OnePlace
<1>7. OwnBatch'
  <2>1. ASSUME NEW v \in Workers, Busy(v)', worker'[v].pc \in Late
        PROVE  /\ worker'[v].batch \in DOMAIN batches'
               /\ batches'[worker'[v].batch].tick = worker'[v].msg.tick
               /\ \A b \in DOMAIN batches' : batches'[b].tick = worker'[v].msg.tick => b <= worker'[v].batch
               /\ worker'[v].pc = "scan" => batches'[worker'[v].batch].status = "running"
    <3>1. v # w /\ Busy(v) /\ worker'[v] = worker[v] /\ worker[v].pc \in Late
      BY <1>4, <2>1
    <3>2. /\ worker[v].batch \in DOMAIN batches /\ batches[worker[v].batch].tick = worker[v].msg.tick
          /\ \A b \in DOMAIN batches : batches[b].tick = worker[v].msg.tick => b <= worker[v].batch
          /\ worker[v].pc = "scan" => batches[worker[v].batch].status = "running"
      BY <3>1 DEF PipelineInv, OwnBatch
    <3>3. worker[w].pc = "scan" => worker[w].batch # worker[v].batch
      BY <3>1, <3>2 DEF PipelineInv, OwnBatch, OnePlace, Late
    <3> QED BY <1>1, <3>1, <3>2, <3>3
  <2> QED BY <1>1, <1>4, <2>1 DEF PipelineInv, OwnBatch
<1>8. Counted'
  <2>1. \A t : Cardinality(AttemptsOf(t))' = Cardinality(AttemptsOf(t))
    BY <1>1
  <2>2. worker[w].msg.tick \in 1 .. MaxBeats
    BY Shape DEF PipelineInv
  <2>3. Cardinality(AttemptsOf(m.tick)) <= m.retries + m.copy
    <3>1. /\ m.retries \in Nat /\ m.copy \in Nat
          /\ worker[w].msg.retries \in Nat /\ worker[w].msg.copy \in Nat
      BY Shape DEF PipelineInv, Message
    <3>2. Cardinality(AttemptsOf(m.tick)) \in Nat
      BY AttemptsAreFinite DEF PipelineInv, TypeInv
    <3>3. Cardinality(AttemptsOf(worker[w].msg.tick))
            <= worker[w].msg.retries + worker[w].msg.copy + (IF worker[w].pc \in Early THEN 0 ELSE 1)
      BY DEF PipelineInv, Counted
    <3> QED BY <3>1, <3>2, <3>3
  <2>4. \A k \in queue' : Cardinality(AttemptsOf(k.tick)) <= k.retries + k.copy
    BY <2>3 DEF PipelineInv, Counted
  <2>5. \A v \in Workers : Busy(v)' =>
            Cardinality(AttemptsOf(worker'[v].msg.tick))
                <= worker'[v].msg.retries + worker'[v].msg.copy
                     + (IF worker'[v].pc \in Early THEN 0 ELSE 1)
    BY <1>4 DEF PipelineInv, Counted
  <2>6. ASSUME NEW t \in 1 .. MaxBeats PROVE Cardinality(AttemptsOf(t)) <= 1 + MAX_RETRIES + restarts'
    <3>1. Cardinality(AttemptsOf(t)) \in Nat
      BY AttemptsAreFinite DEF PipelineInv, TypeInv
    <3>2. Cardinality(AttemptsOf(t)) <= 1 + MAX_RETRIES + restarts
      BY DEF PipelineInv, Counted
    <3> QED BY <1>3, <3>1, <3>2 DEF PipelineAssumption
  <2>7. \A t \in 1 .. MaxBeats : t > beats' => AttemptsOf(t) = {}
    BY DEF PipelineInv, Counted
  <2> QED BY <1>1, <2>1, <2>4, <2>5, <2>6, <2>7 DEF Counted
<1>9. NewestIsPending'
  <2> DEFINE n == Len(batches)  t == batches[n].tick
  <2> SUFFICES ASSUME batches' # <<>>, Last(batches').status = "success", n \notin DOMAIN logged
               PROVE  \/ \E k \in queue' : k.tick = t
                      \/ \E v \in Workers :
                            /\ Busy(v)' /\ worker'[v].msg.tick = t
                            /\ worker'[v].pc \in Early \/ (worker'[v].pc = "push" /\ worker'[v].batch = n)
                      \/ \E i \in DOMAIN ended : ended[i].tick = t /\ ended[i].how # "done"
    BY <1>1 DEF NewestIsPending, Last
  <2>1. n \in DOMAIN batches /\ Last(batches') = batches'[n] /\ Last(batches) = batches[n] /\ batches # <<>>
    BY <1>1 DEF Last
  <2>2. CASE worker[w].msg.tick = t
    BY <2>2
  <2>3. CASE worker[w].msg.tick # t
    <3>1. worker[w].pc = "scan" => worker[w].batch # n
      BY <2>3 DEF PipelineInv, OwnBatch, Late
    <3>2. batches[n].status = "success"
      BY <1>1, <2>1, <3>1
    <3>3. \/ \E k \in queue : k.tick = t
          \/ \E v \in Workers :
                /\ Busy(v) /\ worker[v].msg.tick = t
                /\ worker[v].pc \in Early \/ (worker[v].pc = "push" /\ worker[v].batch = n)
          \/ \E i \in DOMAIN ended : ended[i].tick = t /\ ended[i].how # "done"
      BY <2>1, <3>2 DEF PipelineInv, NewestIsPending
    <3>4. \A v \in Workers : Busy(v) /\ worker[v].msg.tick = t => Busy(v)' /\ worker'[v] = worker[v]
      BY <1>2, <2>3
    <3> QED BY <3>3, <3>4
  <2> QED BY <2>2, <2>3
<1>10. OneProcess'
  <2> SUFFICES ASSUME \A u, v \in up : u = v PROVE OneProcess'
    BY DEF OneProcess
  <2>1. \A v \in Workers : ~Busy(v)'
    BY <1>2 DEF PipelineInv, TypeInv
  <2>2. ASSUME NEW i \in DOMAIN ended', ended'[i].how = "done"
        PROVE  /\ ended'[i].batch \in DOMAIN batches'
               /\ batches'[ended'[i].batch].status = "success" => ended'[i].batch \in DOMAIN logged'
    <3> DEFINE b == ended[i].batch
    <3>1. /\ b \in DOMAIN batches /\ (batches[b].status = "success" => b \in DOMAIN logged)
          /\ worker[w].pc \in Late => b < worker[w].batch
      BY <2>2 DEF PipelineInv, OneProcess
    <3>2. worker[w].pc = "scan" => b # worker[w].batch
      BY <1>1, <3>1 DEF Late
    <3> QED BY <1>1, <3>1, <3>2
  <2> QED BY <2>1, <2>2 DEF OneProcess
<1> QED BY <1>5, <1>6, <1>7, <1>8, <1>9, <1>10 DEF PipelineInv

\* A process is done with a message, well or not.
LEMMA EndsTask ==
    ASSUME PipelineAssumption, PipelineInv, NEW w \in Workers, Busy(w), NEW how \in {"done", "given_up", "lost"},
           worker' = [worker EXCEPT ![w] = Idle],
           ended' = Append(ended, [tick |-> worker[w].msg.tick, how |-> how, batch |-> worker[w].batch]),
           StatusOnly(w), UNCHANGED <<up, beats, queue, data, logged, restarts>>,
           how = "done" => worker[w].pc = "ack" /\ UNCHANGED batches
    PROVE  PipelineInv'
<1> DEFINE end == [tick |-> worker[w].msg.tick, how |-> how, batch |-> worker[w].batch]
<1>1. /\ batches' \in Seq(Batch) /\ Len(batches') = Len(batches) /\ Len(batches) \in Nat
      /\ DOMAIN batches' = 1 .. Len(batches) /\ DOMAIN batches = 1 .. Len(batches)
      /\ \A b \in DOMAIN batches : batches'[b].tick = batches[b].tick
      /\ \A b \in DOMAIN batches :
            b # worker[w].batch \/ worker[w].pc # "scan" => batches'[b].status = batches[b].status
      /\ \A t : AttemptsOf(t)' = AttemptsOf(t)
  BY BatchesStay
<1>2. /\ worker' \in [Workers -> {Idle} \cup Working] /\ ~Busy(w)'
      /\ \A v \in Workers : Busy(v)' => v # w /\ Busy(v) /\ worker'[v] = worker[v]
      /\ \A v \in Workers : v # w => worker'[v] = worker[v] /\ (Busy(v)' <=> Busy(v))
  BY Becomes DEF PipelineInv
<1>3. end \in End /\ end.tick = worker[w].msg.tick /\ end.how = how /\ end.batch = worker[w].batch
  BY Shape DEF PipelineInv, End
<1>4. ended \in Seq(End) /\ Len(ended) \in Nat /\ DOMAIN ended = 1 .. Len(ended)
  BY DEF PipelineInv, TypeInv
<1> HIDE DEF end
<1>5. /\ ended' \in Seq(End) /\ DOMAIN ended' = 1 .. Len(ended) + 1
      /\ \A i \in DOMAIN ended : i \in DOMAIN ended' /\ ended'[i] = ended[i]
      /\ ended'[Len(ended) + 1] = end /\ Len(ended) + 1 \in DOMAIN ended'
      /\ \A i \in DOMAIN ended' : i \in DOMAIN ended \/ i = Len(ended) + 1
  BY <1>3, <1>4 DEF end
<1>6. TypeInv'
  BY <1>1, <1>2, <1>5 DEF PipelineInv, TypeInv
<1>7. OnePlace'
  <2>1. /\ worker[w].msg.tick <= beats /\ \A k \in queue : k.tick # worker[w].msg.tick
        /\ \A v \in Workers : Busy(v) /\ v # w => worker[v].msg.tick # worker[w].msg.tick
    BY DEF PipelineInv, OnePlace
  <2>2. ASSUME NEW v \in Workers, Busy(v)'
        PROVE  /\ worker'[v].msg.tick <= beats' /\ worker'[v].msg.copy <= restarts'
               /\ \A k \in queue' : k.tick # worker'[v].msg.tick
               /\ \A u \in Workers : Busy(u)' /\ u # v => worker'[u].msg.tick # worker'[v].msg.tick
    BY <1>2, <2>2 DEF PipelineInv, OnePlace
  <2>3. ASSUME NEW i \in DOMAIN ended'
        PROVE  /\ ended'[i].tick <= beats'
               /\ \A k \in queue' : k.tick # ended'[i].tick
               /\ \A v \in Workers : Busy(v)' => worker'[v].msg.tick # ended'[i].tick
    <3>1. CASE i \in DOMAIN ended
      BY <1>2, <1>5, <3>1 DEF PipelineInv, OnePlace
    <3>2. CASE i = Len(ended) + 1
      BY <1>2, <1>3, <1>5, <2>1, <3>2
    <3> QED BY <1>5, <3>1, <3>2
  <2>4. (\A k \in queue : k.tick <= beats /\ k.copy <= restarts)' /\ (\A k, l \in queue : k.tick = l.tick => k = l)'
    BY DEF PipelineInv, OnePlace
  <2> QED BY <2>2, <2>3, <2>4 DEF OnePlace
<1>8. OwnBatch'
  <2>1. ASSUME NEW v \in Workers, Busy(v)', worker'[v].pc \in Late
        PROVE  /\ worker'[v].batch \in DOMAIN batches'
               /\ batches'[worker'[v].batch].tick = worker'[v].msg.tick
               /\ \A b \in DOMAIN batches' : batches'[b].tick = worker'[v].msg.tick => b <= worker'[v].batch
               /\ worker'[v].pc = "scan" => batches'[worker'[v].batch].status = "running"
    <3>1. v # w /\ Busy(v) /\ worker'[v] = worker[v] /\ worker[v].pc \in Late
      BY <1>2, <2>1
    <3>2. /\ worker[v].batch \in DOMAIN batches /\ batches[worker[v].batch].tick = worker[v].msg.tick
          /\ \A b \in DOMAIN batches : batches[b].tick = worker[v].msg.tick => b <= worker[v].batch
          /\ worker[v].pc = "scan" => batches[worker[v].batch].status = "running"
      BY <3>1 DEF PipelineInv, OwnBatch
    <3>3. worker[w].pc = "scan" => worker[w].batch # worker[v].batch
      BY <3>1, <3>2 DEF PipelineInv, OwnBatch, OnePlace, Late
    <3> QED BY <1>1, <3>1, <3>2, <3>3
  <2> QED BY <1>1, <1>2, <2>1 DEF PipelineInv, OwnBatch
<1>9. Counted'
  <2>1. \A v \in Workers : Busy(v)' =>
            Cardinality(AttemptsOf(worker'[v].msg.tick))
                <= worker'[v].msg.retries + worker'[v].msg.copy
                     + (IF worker'[v].pc \in Early THEN 0 ELSE 1)
    BY <1>2 DEF PipelineInv, Counted
  <2> QED BY <1>1, <2>1 DEF PipelineInv, Counted
<1>10. NewestIsPending'
  <2> DEFINE n == Len(batches)  t == batches[n].tick
  <2> SUFFICES ASSUME batches' # <<>>, Last(batches').status = "success", n \notin DOMAIN logged
               PROVE  \/ \E k \in queue : k.tick = t
                      \/ \E v \in Workers :
                            /\ Busy(v)' /\ worker'[v].msg.tick = t
                            /\ worker'[v].pc \in Early \/ (worker'[v].pc = "push" /\ worker'[v].batch = n)
                      \/ \E i \in DOMAIN ended' : ended'[i].tick = t /\ ended'[i].how # "done"
    BY <1>1 DEF NewestIsPending, Last
  <2>1. n \in DOMAIN batches /\ Last(batches') = batches'[n] /\ Last(batches) = batches[n] /\ batches # <<>>
    BY <1>1 DEF Last
  <2>2. CASE worker[w].msg.tick = t /\ how # "done"
    BY <1>3, <1>5, <2>2
  <2>3. CASE ~(worker[w].msg.tick = t /\ how # "done")
    <3>1. worker[w].pc = "scan" => worker[w].batch # n
      BY <2>3 DEF PipelineInv, OwnBatch, Late
    <3>2. batches[n].status = "success"
      BY <1>1, <2>1, <3>1
    <3>3. \/ \E k \in queue : k.tick = t
          \/ \E v \in Workers :
                /\ Busy(v) /\ worker[v].msg.tick = t
                /\ worker[v].pc \in Early \/ (worker[v].pc = "push" /\ worker[v].batch = n)
          \/ \E i \in DOMAIN ended : ended[i].tick = t /\ ended[i].how # "done"
      BY <2>1, <3>2 DEF PipelineInv, NewestIsPending
    <3>4. ASSUME NEW v \in Workers, Busy(v), worker[v].msg.tick = t,
                 worker[v].pc \in Early \/ (worker[v].pc = "push" /\ worker[v].batch = n)
          PROVE  Busy(v)' /\ worker'[v] = worker[v]
      <4>1. v # w
        BY <2>3, <3>4 DEF Early
      <4> QED BY <1>2, <3>4, <4>1
    <3>5. \A i \in DOMAIN ended : i \in DOMAIN ended' /\ ended'[i] = ended[i]
      BY <1>5
    <3> QED BY <3>3, <3>4, <3>5
  <2> QED BY <2>2, <2>3
<1>11. OneProcess'
  <2> SUFFICES ASSUME \A u, v \in up : u = v PROVE OneProcess'
    BY DEF OneProcess
  <2>1. \A v \in Workers : ~Busy(v)'
    BY <1>2 DEF PipelineInv, TypeInv
  <2>2. ASSUME NEW i \in DOMAIN ended', ended'[i].how = "done"
        PROVE  /\ ended'[i].batch \in DOMAIN batches'
               /\ batches'[ended'[i].batch].status = "success" => ended'[i].batch \in DOMAIN logged'
    <3>1. CASE i \in DOMAIN ended
      <4> DEFINE b == ended[i].batch
      <4>1. /\ b \in DOMAIN batches /\ (batches[b].status = "success" => b \in DOMAIN logged)
            /\ worker[w].pc \in Late => b < worker[w].batch
        BY <1>5, <2>2, <3>1 DEF PipelineInv, OneProcess
      <4>2. worker[w].pc = "scan" => b # worker[w].batch
        BY <1>1, <4>1 DEF Late
      <4> QED BY <1>1, <1>5, <3>1, <4>1, <4>2
    <3>2. CASE i = Len(ended) + 1
      <4>1. how = "done" /\ worker[w].pc = "ack" /\ UNCHANGED batches /\ ended'[i].batch = worker[w].batch
        BY <1>3, <1>5, <2>2, <3>2
      <4>2. /\ worker[w].batch \in DOMAIN batches
            /\ batches[worker[w].batch].status = "success" => worker[w].batch \in DOMAIN logged
        BY <4>1 DEF PipelineInv, OwnBatch, OneProcess, Late
      <4> QED BY <4>1, <4>2
    <3> QED BY <1>5, <3>1, <3>2
  <2> QED BY <2>1, <2>2 DEF OneProcess
<1> QED BY <1>6, <1>7, <1>8, <1>9, <1>10, <1>11 DEF PipelineInv

\* A process takes a message from the queue.
LEMMA TakeKeeps ==
    ASSUME PipelineAssumption, PipelineInv, NEW w \in Workers, NEW m \in queue, Take(w, m)
    PROVE  PipelineInv'
<1> DEFINE x == [pc |-> "collect", msg |-> m, batch |-> 0]
<1>1. /\ w \in up /\ ~Busy(w) /\ queue' = queue \ {m} /\ worker' = [worker EXCEPT ![w] = x]
      /\ UNCHANGED <<up, beats, data, batches, logged, ended, restarts>>
  BY Shape DEF Take, PipelineInv
<1>2. x \in Working /\ x # Idle /\ x.pc = "collect" /\ x.msg = m /\ x.batch = 0 /\ m \in Message
  BY DEF Working, Early, Idle, PipelineInv, TypeInv
<1> HIDE DEF x
<1>3. /\ worker' \in [Workers -> {Idle} \cup Working] /\ Busy(w)' /\ worker'[w] = x
      /\ \A v \in Workers : v # w => worker'[v] = worker[v] /\ (Busy(v)' <=> Busy(v))
  BY <1>1, <1>2, Becomes DEF PipelineInv
<1>4. \A v \in Workers : Busy(v)' /\ worker'[v].pc \in Late => v # w /\ Busy(v) /\ worker'[v] = worker[v]
  BY <1>2, <1>3 DEF Late
<1>5. TypeInv'
  BY <1>1, <1>3 DEF PipelineInv, TypeInv
<1>6. OnePlace'
  <2>1. /\ m.tick <= beats /\ m.copy <= restarts /\ \A k \in queue' : k \in queue /\ k.tick # m.tick
        /\ \A v \in Workers : Busy(v) => worker[v].msg.tick # m.tick
        /\ \A i \in DOMAIN ended : ended[i].tick # m.tick
    BY <1>1 DEF PipelineInv, OnePlace
  <2>2. ASSUME NEW v \in Workers, Busy(v)'
        PROVE  /\ worker'[v].msg.tick <= beats' /\ worker'[v].msg.copy <= restarts'
               /\ \A k \in queue' : k.tick # worker'[v].msg.tick
               /\ \A u \in Workers : Busy(u)' /\ u # v => worker'[u].msg.tick # worker'[v].msg.tick
    <3>1. CASE v = w
      BY <1>1, <1>2, <1>3, <2>1, <3>1
    <3>2. CASE v # w
      BY <1>1, <1>2, <1>3, <2>1, <2>2, <3>2 DEF PipelineInv, OnePlace
    <3> QED BY <3>1, <3>2
  <2>3. ASSUME NEW i \in DOMAIN ended'
        PROVE  /\ ended'[i].tick <= beats'
               /\ \A k \in queue' : k.tick # ended'[i].tick
               /\ \A v \in Workers : Busy(v)' => worker'[v].msg.tick # ended'[i].tick
    BY <1>1, <1>2, <1>3, <2>1 DEF PipelineInv, OnePlace
  <2>4. (\A k \in queue : k.tick <= beats /\ k.copy <= restarts)' /\ (\A k, l \in queue : k.tick = l.tick => k = l)'
    BY <1>1 DEF PipelineInv, OnePlace
  <2> QED BY <2>2, <2>3, <2>4 DEF OnePlace
<1>7. OwnBatch'
  <2>1. ASSUME NEW v \in Workers, Busy(v)' PROVE worker'[v].batch \in 0 .. Len(batches')
    <3>1. CASE v = w
      <4>1. Len(batches) \in Nat
        BY DEF PipelineInv, TypeInv
      <4> QED BY <1>1, <1>2, <1>3, <3>1, <4>1
    <3>2. CASE v # w
      BY <1>1, <1>3, <2>1, <3>2 DEF PipelineInv, OwnBatch
    <3> QED BY <3>1, <3>2
  <2> QED BY <1>1, <1>4, <2>1 DEF PipelineInv, OwnBatch
<1>8. Counted'
  <2>1. ASSUME NEW v \in Workers, Busy(v)'
        PROVE  Cardinality(AttemptsOf(worker'[v].msg.tick))
                <= worker'[v].msg.retries + worker'[v].msg.copy
                     + (IF worker'[v].pc \in Early THEN 0 ELSE 1)
    <3>1. CASE v = w
      <4>1. Cardinality(AttemptsOf(m.tick)) <= m.retries + m.copy + 0
        BY <1>2 DEF PipelineInv, Counted, Message
      <4> QED BY <1>2, <1>3, <3>1, <4>1 DEF Early
    <3>2. CASE v # w
      BY <1>3, <2>1, <3>2 DEF PipelineInv, Counted
    <3> QED BY <3>1, <3>2
  <2>2. \A t : AttemptsOf(t)' = AttemptsOf(t)
    BY <1>1 DEF AttemptsOf
  <2> QED BY <1>1, <2>1, <2>2 DEF PipelineInv, Counted
<1>9. NewestIsPending'
  BY <1>1, <1>2, <1>3 DEF PipelineInv, NewestIsPending, Early
<1>10. OneProcess'
  BY <1>1, <1>2, <1>3, <1>4 DEF PipelineInv, OneProcess, Late
<1> QED BY <1>5, <1>6, <1>7, <1>8, <1>9, <1>10 DEF PipelineInv

\* A process opens a batch, which is then the newest.
LEMMA OpenKeeps ==
    ASSUME PipelineAssumption, PipelineInv, NEW w \in Workers, OpenBatch(w)
    PROVE  PipelineInv'
<1> DEFINE new == [tick |-> worker[w].msg.tick, status |-> "running"]
           n == Len(batches) + 1
           x == [pc |-> "scan", msg |-> worker[w].msg, batch |-> n]
<1>1. /\ Busy(w) /\ worker[w].pc = "open" /\ worker[w] \in Working /\ worker[w].msg \in Message
      /\ worker[w].msg.tick \in 1 .. MaxBeats /\ batches' = Append(batches, new)
      /\ UNCHANGED <<up, beats, queue, data, logged, ended, restarts>>
  BY Shape DEF OpenBatch, PipelineInv
<1>2. /\ batches \in Seq(Batch) /\ Len(batches) \in Nat /\ DOMAIN batches = 1 .. Len(batches)
      /\ n \in Nat /\ n \notin DOMAIN batches
  BY DEF PipelineInv, TypeInv
<1>3. new \in Batch /\ new.tick = worker[w].msg.tick /\ new.status = "running"
  BY <1>1 DEF Batch
<1>4. /\ x \in Working /\ x # Idle /\ x.pc = "scan" /\ x.msg = worker[w].msg /\ x.batch = n
  BY <1>1, <1>2 DEF Working, Late, Idle
<1>5. worker' = [worker EXCEPT ![w] = x]
  <2> DEFINE y == [worker[w] EXCEPT !.pc = "scan"]
  <2>1. y \in [pc : Early \cup Late, msg : Message, batch : Nat] /\ y.pc = "scan" /\ y.msg = worker[w].msg
    BY <1>1 DEF Working, Late
  <2>2. worker' = [worker EXCEPT ![w] = [y EXCEPT !.batch = n]]
    BY DEF OpenBatch, PipelineInv, TypeInv
  <2> HIDE DEF y, n
  <2>3. [y EXCEPT !.batch = n] = [pc |-> "scan", msg |-> worker[w].msg, batch |-> n]
    BY <2>1
  <2> QED BY <2>2, <2>3
<1> HIDE DEF x, new
<1>6. /\ batches' \in Seq(Batch) /\ Len(batches') = n /\ DOMAIN batches' = 1 .. n
      /\ batches'[n] = new /\ \A b \in DOMAIN batches : batches'[b] = batches[b] /\ b \in DOMAIN batches'
      /\ \A b \in DOMAIN batches' : b = n \/ b \in DOMAIN batches
  BY <1>1, <1>2, <1>3
<1> HIDE DEF n
<1>7. /\ worker' \in [Workers -> {Idle} \cup Working] /\ Busy(w)' /\ worker'[w] = x
      /\ \A v \in Workers : v # w => worker'[v] = worker[v] /\ (Busy(v)' <=> Busy(v))
  BY <1>4, <1>5, Becomes DEF PipelineInv
<1>8. TypeInv'
  BY <1>1, <1>6, <1>7 DEF PipelineInv, TypeInv
<1>9. OnePlace'
  <2>1. \A v \in Workers : (Busy(v)' <=> Busy(v)) /\ (Busy(v) => worker'[v].msg = worker[v].msg)
    BY <1>1, <1>4, <1>7
  <2> HIDE DEF Busy
  <2> QED BY <1>1, <2>1 DEF PipelineInv, OnePlace
<1>10. OwnBatch'
  <2>1. ASSUME NEW v \in Workers, Busy(v)'
        PROVE  /\ worker'[v].batch \in 0 .. Len(batches')
               /\ worker'[v].pc \in Late =>
                    /\ worker'[v].batch \in DOMAIN batches'
                    /\ batches'[worker'[v].batch].tick = worker'[v].msg.tick
                    /\ \A b \in DOMAIN batches' :
                          batches'[b].tick = worker'[v].msg.tick => b <= worker'[v].batch
                    /\ worker'[v].pc = "scan" => batches'[worker'[v].batch].status = "running"
    <3>1. CASE v = w
      <4>1. worker'[v].batch = n /\ n \in 1 .. n /\ worker'[v].msg.tick = new.tick
        BY <1>2, <1>3, <1>4, <1>7, <3>1 DEF n
      <4> QED BY <1>2, <1>3, <1>6, <4>1 DEF n
    <3>2. CASE v # w
      <4>1. Busy(v) /\ worker'[v] = worker[v] /\ worker[v].msg.tick # new.tick
        BY <1>1, <1>3, <1>7, <2>1, <3>2 DEF PipelineInv, OnePlace
      <4>2. worker[v].batch \in 0 .. Len(batches')
        BY <1>2, <1>6, <4>1 DEF PipelineInv, OwnBatch, n
      <4> QED BY <1>6, <4>1, <4>2 DEF PipelineInv, OwnBatch
    <3> QED BY <3>1, <3>2
  <2> QED BY <2>1 DEF OwnBatch
<1>11. Counted'
  <2>0. PICK own : own = worker[w].msg.tick
    OBVIOUS
  <2>1. \A t : t # own => AttemptsOf(t)' = AttemptsOf(t)
    BY <1>3, <1>6, <2>0 DEF AttemptsOf
  <2>2. AttemptsOf(own)' = AttemptsOf(own) \cup {n}
    <3>1. \A b \in DOMAIN batches' : b # n => b \in DOMAIN batches /\ batches'[b].tick = batches[b].tick
      BY <1>6
    <3>2. n \in DOMAIN batches' /\ batches'[n].tick = own
      BY <1>3, <1>6, <1>2, <2>0 DEF n
    <3> QED BY <1>6, <3>1, <3>2 DEF AttemptsOf
  <2>3. /\ IsFiniteSet(AttemptsOf(own)) /\ n \notin AttemptsOf(own)
        /\ Cardinality(AttemptsOf(own)) \in Nat
    BY <1>2, AttemptsAreFinite DEF AttemptsOf
  <2>4. Cardinality(AttemptsOf(own)') = Cardinality(AttemptsOf(own)) + 1
    BY <2>2, <2>3, FS_AddElement
  <2>5. Cardinality(AttemptsOf(own)) <= worker[w].msg.retries + worker[w].msg.copy
    BY <1>1, <2>0 DEF PipelineInv, Counted, Early, Message
  <2>6. /\ worker[w].msg.retries \in Nat /\ worker[w].msg.copy \in Nat /\ worker[w].msg.copy <= restarts
        /\ worker[w].msg.retries <= MAX_RETRIES /\ restarts \in Nat /\ own <= beats /\ own \in 1 .. MaxBeats
    BY <1>1, <2>0, Shape DEF PipelineInv, OnePlace, TypeInv, PipelineAssumption
  <2>7. Cardinality(AttemptsOf(own)') <= 1 + MAX_RETRIES + restarts
    BY <2>3, <2>4, <2>5, <2>6 DEF PipelineAssumption
  <2>8. \A t \in 1 .. MaxBeats : t > beats => AttemptsOf(t)' = {}
    <3>1. \A t \in 1 .. MaxBeats : t > beats => t # own
      BY <2>6 DEF PipelineInv, TypeInv, PipelineAssumption
    <3> QED BY <2>1, <3>1 DEF PipelineInv, Counted
  <2>9. ASSUME NEW m, m \in queue PROVE Cardinality(AttemptsOf(m.tick)') <= m.retries + m.copy
    <3>1. m.tick # own
      BY <1>1, <2>0, <2>9 DEF PipelineInv, OnePlace
    <3> QED BY <2>1, <2>9, <3>1 DEF PipelineInv, Counted
  <2>10. ASSUME NEW v \in Workers, Busy(v)'
         PROVE  Cardinality(AttemptsOf(worker[v].msg.tick)')
                  <= worker'[v].msg.retries + worker'[v].msg.copy
                       + (IF worker'[v].pc \in Early THEN 0 ELSE 1)
    <3>1. CASE v = w
      <4>1. worker'[v].msg = worker[w].msg /\ worker'[v].msg.tick = own /\ worker'[v].pc \notin Early
        BY <1>4, <1>7, <2>0, <3>1 DEF Early
      <4>2. Cardinality(AttemptsOf(own)') <= worker[w].msg.retries + worker[w].msg.copy + 1
        BY <2>3, <2>4, <2>5, <2>6
      <4>3. AttemptsOf(worker[v].msg.tick)' = AttemptsOf(own)'
        BY <4>1 DEF AttemptsOf
      <4> QED BY <4>1, <4>2, <4>3
    <3>2. CASE v # w
      <4>1. PICK t : t = worker[v].msg.tick
        OBVIOUS
      <4>2. Busy(v) /\ worker'[v] = worker[v] /\ t # own
        BY <1>1, <1>7, <2>0, <2>10, <3>2, <4>1 DEF PipelineInv, OnePlace
      <4>3. AttemptsOf(worker[v].msg.tick)' = AttemptsOf(t)'
        BY <4>1, <4>2 DEF AttemptsOf
      <4> QED BY <2>1, <4>1, <4>2, <4>3 DEF PipelineInv, Counted
    <3> QED BY <3>1, <3>2
  <2>11. ASSUME NEW t \in 1 .. MaxBeats PROVE Cardinality(AttemptsOf(t)') <= 1 + MAX_RETRIES + restarts
    BY <2>1, <2>7 DEF PipelineInv, Counted
  <2> QED BY <1>1, <2>8, <2>9, <2>10, <2>11 DEF Counted
<1>12. NewestIsPending'
  BY <1>3, <1>6 DEF NewestIsPending, Last
<1>13. OneProcess'
  <2> SUFFICES ASSUME \A u, v \in up : u = v PROVE OneProcess'
    BY <1>1 DEF OneProcess
  <2>1. \A v \in Workers : Busy(v)' => worker'[v].batch = Len(batches') /\ worker'[v].pc # "ack"
    BY <1>1, <1>4, <1>6, <1>7 DEF PipelineInv, TypeInv
  <2>2. ASSUME NEW i \in DOMAIN ended', ended'[i].how = "done"
        PROVE  /\ ended'[i].batch \in DOMAIN batches'
               /\ batches'[ended'[i].batch].status = "success" => ended'[i].batch \in DOMAIN logged'
               /\ ended'[i].batch < Len(batches')
    <3> DEFINE b == ended[i].batch
    <3>1. /\ ended' = ended /\ logged' = logged /\ b \in DOMAIN batches
          /\ batches[b].status = "success" => b \in DOMAIN logged
      BY <1>1, <2>2 DEF PipelineInv, OneProcess
    <3>2. b < Len(batches')
      BY <1>2, <1>6, <3>1 DEF n
    <3> QED BY <1>6, <3>1, <3>2
  <2> QED BY <2>1, <2>2 DEF OneProcess
<1> QED BY <1>8, <1>9, <1>10, <1>11, <1>12, <1>13 DEF PipelineInv

\* A tick of the beat is a new message.
LEMMA BeatKeeps == ASSUME PipelineAssumption, PipelineInv, Beat PROVE PipelineInv'
<1> DEFINE m == [tick |-> beats + 1, retries |-> 0, copy |-> 0]
<1>1. /\ beats < MaxBeats /\ beats' = beats + 1 /\ queue' = queue \cup {m}
      /\ UNCHANGED <<up, worker, data, batches, logged, ended, restarts>>
  BY DEF Beat
<1>2. beats \in Nat /\ restarts \in Nat /\ beats' \in 0 .. MaxBeats /\ beats' \in 1 .. MaxBeats
  BY <1>1 DEF PipelineInv, TypeInv, PipelineAssumption
<1>3. m \in Message /\ m.tick = beats' /\ m.retries = 0 /\ m.copy = 0
  BY <1>1, <1>2 DEF Message, PipelineAssumption
<1>4. /\ \A k \in queue : k.tick \in Nat
      /\ \A w \in Workers : Busy(w) => worker[w].msg.tick \in Nat
      /\ \A i \in DOMAIN ended : ended[i].tick \in Nat
  <2>1. \A k \in queue : k.tick \in 1 .. MaxBeats
    BY DEF PipelineInv, TypeInv, Message
  <2>2. \A w \in Workers : Busy(w) => worker[w].msg.tick \in 1 .. MaxBeats
    BY Shape DEF PipelineInv
  <2>3. \A i \in DOMAIN ended : ended[i] \in End
    BY DEF PipelineInv, TypeInv
  <2>4. \A i \in DOMAIN ended : ended[i].tick \in 1 .. MaxBeats
    BY <2>3 DEF End
  <2> QED BY <2>1, <2>2, <2>4
<1> HIDE DEF m
<1>5. TypeInv'
  BY <1>1, <1>2, <1>3 DEF PipelineInv, TypeInv, Busy
<1>6. OnePlace'
  <2>1. /\ \A k \in queue : k.tick <= beats /\ k.tick # beats'
        /\ \A w \in Workers : Busy(w) => worker[w].msg.tick <= beats /\ worker[w].msg.tick # beats'
        /\ \A i \in DOMAIN ended : ended[i].tick <= beats /\ ended[i].tick # beats'
    BY <1>1, <1>2, <1>4 DEF PipelineInv, OnePlace
  <2>2. \A k \in queue' : k.tick <= beats' /\ k.copy <= restarts
    BY <1>1, <1>2, <1>3, <1>4, <2>1 DEF PipelineInv, OnePlace
  <2>3. \A k, l \in queue' : k.tick = l.tick => k = l
    BY <1>1, <1>3, <2>1 DEF PipelineInv, OnePlace
  <2>4. ASSUME NEW w \in Workers, Busy(w)
        PROVE  /\ worker[w].msg.tick <= beats' /\ worker[w].msg.copy <= restarts
               /\ \A k \in queue' : k.tick # worker[w].msg.tick
               /\ \A v \in Workers : Busy(v) /\ v # w => worker[v].msg.tick # worker[w].msg.tick
    BY <1>1, <1>2, <1>3, <1>4, <2>1, <2>4 DEF PipelineInv, OnePlace
  <2>5. ASSUME NEW i \in DOMAIN ended
        PROVE  /\ ended[i].tick <= beats'
               /\ \A k \in queue' : k.tick # ended[i].tick
               /\ \A w \in Workers : Busy(w) => worker[w].msg.tick # ended[i].tick
    BY <1>1, <1>2, <1>3, <1>4, <2>1 DEF PipelineInv, OnePlace
  <2> QED BY <1>1, <2>2, <2>3, <2>4, <2>5 DEF OnePlace, Busy
<1>7. OwnBatch'
  BY <1>1 DEF PipelineInv, OwnBatch, Busy
<1>8. Counted'
  <2>1. \A t : AttemptsOf(t)' = AttemptsOf(t)
    BY <1>1 DEF AttemptsOf
  <2>2. Cardinality(AttemptsOf(m.tick)) <= m.retries + m.copy
    <3>1. AttemptsOf(m.tick) = {}
      BY <1>1, <1>2, <1>3 DEF PipelineInv, Counted
    <3> QED BY <1>3, <3>1, FS_EmptySet
  <2>3. \A t \in 1 .. MaxBeats : t > beats' => t > beats
    BY <1>1, <1>2
  <2> QED BY <1>1, <2>1, <2>2, <2>3 DEF PipelineInv, Counted, Busy
<1>9. NewestIsPending'
  BY <1>1 DEF PipelineInv, NewestIsPending, Busy
<1>10. OneProcess'
  BY <1>1 DEF PipelineInv, OneProcess, Busy
<1> QED BY <1>5, <1>6, <1>7, <1>8, <1>9, <1>10 DEF PipelineInv

-----------------------------------------------------------------------------
(***************************************************************************)
(* The actions of the model as those steps.                                *)
(***************************************************************************)
\* A process that changes its phase only.
LEMMA Turns ==
    ASSUME TypeInv, NEW w \in Workers, Busy(w), NEW p \in Early \cup Late,
           worker' = [worker EXCEPT ![w].pc = p]
    PROVE  \E x \in Working :
               /\ worker' = [worker EXCEPT ![w] = x]
               /\ x.pc = p /\ x.msg = worker[w].msg /\ x.batch = worker[w].batch
<1> DEFINE x == [worker[w] EXCEPT !.pc = p]
<1>1. worker[w] \in Working
  BY Shape
<1>2. x \in Working /\ x.pc = p /\ x.msg = worker[w].msg /\ x.batch = worker[w].batch
  BY <1>1 DEF Working
<1>3. worker' = [worker EXCEPT ![w] = x]
  BY DEF TypeInv
<1> QED BY <1>2, <1>3

\* A collection ends.
LEMMA CollectKeeps ==
    ASSUME PipelineAssumption, PipelineInv, NEW w \in Workers, NEW found \in BOOLEAN, Collect(w, found)
    PROVE  PipelineInv'
<1>1. /\ Busy(w) /\ worker[w].pc = "collect" /\ worker' = [worker EXCEPT ![w].pc = "open"]
      /\ data' \in BOOLEAN /\ UNCHANGED <<up, beats, queue, batches, logged, ended, restarts>>
  BY Shape DEF Collect, PipelineInv, TypeInv
<1>2. PICK x \in Working :
        /\ worker' = [worker EXCEPT ![w] = x]
        /\ x.pc = "open" /\ x.msg = worker[w].msg /\ x.batch = worker[w].batch
  <2>1. TypeInv /\ "open" \in Early \cup Late
    BY DEF PipelineInv, Early, Late
  <2> QED BY <1>1, <2>1, Turns
<1>3. \A b \in DOMAIN logged : b \in DOMAIN batches /\ logged[b] \in {"sent", "failed"}
  BY DEF PipelineInv, TypeInv
<1>4. StatusOnly(w)
  BY <1>1 DEF StatusOnly
<1> QED BY <1>1, <1>2, <1>3, <1>4, GoesOn DEF Early

\* A scan ends.
LEMMA EndScanKeeps ==
    ASSUME PipelineAssumption, PipelineInv, NEW w \in Workers, NEW s \in Outcomes, EndScan(w, s)
    PROVE  PipelineInv'
<1>1. /\ Busy(w) /\ worker[w].pc = "scan" /\ worker' = [worker EXCEPT ![w].pc = "push"]
      /\ batches' = [batches EXCEPT ![worker[w].batch].status = s]
      /\ data' \in BOOLEAN /\ UNCHANGED <<up, beats, queue, logged, ended, restarts>>
  BY Shape DEF EndScan, PipelineInv, TypeInv
<1>2. PICK x \in Working :
        /\ worker' = [worker EXCEPT ![w] = x]
        /\ x.pc = "push" /\ x.msg = worker[w].msg /\ x.batch = worker[w].batch
  <2>1. TypeInv /\ "push" \in Early \cup Late
    BY DEF PipelineInv, Early, Late
  <2> QED BY <1>1, <2>1, Turns
<1>3. \A b \in DOMAIN logged : b \in DOMAIN batches /\ logged[b] \in {"sent", "failed"}
  BY DEF PipelineInv, TypeInv
<1>4. StatusOnly(w)
  BY <1>1 DEF StatusOnly
<1> QED BY <1>1, <1>2, <1>3, <1>4, GoesOn

\* A message is sent, refused, or not due.
LEMMA PushKeeps ==
    ASSUME PipelineAssumption, PipelineInv, NEW w \in Workers, NEW r \in {"sent", "failed"}, Push(w, r)
    PROVE  PipelineInv'
<1>1. /\ Busy(w) /\ worker[w].pc = "push" /\ worker' = [worker EXCEPT ![w].pc = "ack"]
      /\ data' \in BOOLEAN /\ UNCHANGED <<up, beats, queue, batches, ended, restarts>>
  BY Shape DEF Push, PipelineInv, TypeInv
<1>2. PICK x \in Working :
        /\ worker' = [worker EXCEPT ![w] = x]
        /\ x.pc = "ack" /\ x.msg = worker[w].msg /\ x.batch = worker[w].batch
  <2>1. TypeInv /\ "ack" \in Early \cup Late
    BY DEF PipelineInv, Early, Late
  <2> QED BY <1>1, <2>1, Turns
<1>3. PICK b : b = Len(batches)
  OBVIOUS
<1>4. b \in DOMAIN batches
  BY <1>1, <1>3 DEF PipelineInv, TypeInv, OwnBatch, Late
<1>5. /\ \A c \in DOMAIN logged' : c \in DOMAIN batches /\ logged'[c] \in {"sent", "failed"}
      /\ \A c \in DOMAIN logged : c \in DOMAIN logged'
      /\ batches[b].status = "success" => b \in DOMAIN logged'
  <2>1. \A c \in DOMAIN logged : c \in DOMAIN batches /\ logged[c] \in {"sent", "failed"}
    BY DEF PipelineInv, TypeInv
  <2>2. CASE batches[b].status # "success" \/ (b \in DOMAIN logged /\ logged[b] = "sent")
    <3>1. logged' = logged
      BY <1>3, <2>2 DEF Push
    <3> QED BY <2>1, <2>2, <3>1
  <2>3. CASE ~(batches[b].status # "success" \/ (b \in DOMAIN logged /\ logged[b] = "sent"))
    <3>1. logged' = [c \in DOMAIN logged \cup {b} |-> IF c = b THEN r ELSE logged[c]]
      BY <1>3, <2>3 DEF Push
    <3>2. /\ \A c \in DOMAIN logged' : c = b \/ c \in DOMAIN logged
          /\ \A c \in DOMAIN logged : c \in DOMAIN logged'
          /\ b \in DOMAIN logged' /\ logged'[b] = r
          /\ \A c \in DOMAIN logged : c # b => logged'[c] = logged[c]
      BY <3>1
    <3> QED BY <1>4, <2>1, <3>2
  <2> QED BY <2>2, <2>3
<1>6. StatusOnly(w)
  BY <1>1 DEF StatusOnly
<1> QED BY <1>1, <1>2, <1>3, <1>5, <1>6, GoesOn

\* A task is acknowledged.
LEMMA AcknowledgeKeeps ==
    ASSUME PipelineAssumption, PipelineInv, NEW w \in Workers, Acknowledge(w)
    PROVE  PipelineInv'
<1>1. /\ Busy(w) /\ worker[w].pc = "ack" /\ worker' = [worker EXCEPT ![w] = Idle]
      /\ ended' = Append(ended, [tick |-> worker[w].msg.tick, how |-> "done", batch |-> worker[w].batch])
      /\ UNCHANGED <<up, beats, queue, data, batches, logged, restarts>>
  BY Shape DEF Acknowledge, Finish, PipelineInv
<1>2. StatusOnly(w)
  BY <1>1 DEF StatusOnly
<1> QED BY <1>1, <1>2, EndsTask

\* A part of a task raises, and its message is sent again or given up.
LEMMA RaiseKeeps ==
    ASSUME PipelineAssumption, PipelineInv, NEW w \in Workers, Raise(w)
    PROVE  PipelineInv'
<1>1. /\ Busy(w) /\ worker[w].msg \in Message /\ worker' = [worker EXCEPT ![w] = Idle]
      /\ UNCHANGED <<up, beats, data, logged, restarts>>
  BY Shape DEF Raise, Finish, PipelineInv
<1>2. StatusOnly(w)
  BY DEF Raise, StatusOnly, Outcomes
<1>3. CASE worker[w].msg.retries < MAX_RETRIES
  <2>1. PICK msg \in Message : msg = worker[w].msg
    BY <1>1
  <2> DEFINE m == [msg EXCEPT !.retries = @ + 1]
  <2>2. msg.retries \in Nat /\ msg.copy \in Nat /\ msg.retries + 1 \in 0 .. MAX_RETRIES
    BY <1>3, <2>1 DEF Message, PipelineAssumption
  <2>3. m \in Message /\ m.tick = msg.tick /\ m.retries = msg.retries + 1 /\ m.copy = msg.copy
    BY <2>1, <2>2 DEF Message
  <2>4. queue' = queue \cup {m} /\ UNCHANGED ended
    BY <1>3, <2>1 DEF Raise
  <2> HIDE DEF m
  <2>5. m.retries + m.copy = msg.retries + msg.copy + 1
    BY <2>2, <2>3
  <2>6. restarts \in Nat /\ restarts' \in 0 .. MaxDeaths /\ restarts <= restarts' /\ m.copy <= restarts'
    BY <1>1, <2>1, <2>3 DEF PipelineInv, TypeInv, OnePlace, PipelineAssumption
  <2> QED BY <1>1, <1>2, <2>1, <2>3, <2>4, <2>5, <2>6, GivesBack
<1>4. CASE ~(worker[w].msg.retries < MAX_RETRIES)
  <2>1. /\ ended' = Append(ended, [tick |-> worker[w].msg.tick, how |-> "given_up", batch |-> worker[w].batch])
        /\ UNCHANGED queue
    BY <1>4 DEF Raise, Finish
  <2> QED BY <1>1, <1>2, <2>1, EndsTask
<1> QED BY <1>3, <1>4

\* A process dies, and its message is acknowledged.
LEMMA KillKeeps ==
    ASSUME PipelineAssumption, PipelineInv, NEW w \in Workers, Kill(w)
    PROVE  PipelineInv'
<1>1. /\ Busy(w) /\ worker' = [worker EXCEPT ![w] = Idle]
      /\ ended' = Append(ended, [tick |-> worker[w].msg.tick, how |-> "lost", batch |-> worker[w].batch])
      /\ UNCHANGED <<up, beats, queue, data, batches, logged, restarts>>
  BY Shape DEF Kill, Finish, PipelineInv
<1>2. StatusOnly(w)
  BY <1>1 DEF StatusOnly
<1> QED BY <1>1, <1>2, EndsTask

\* The worker starts again, and the messages that were under way come back.
LEMMA RestartKeeps ==
    ASSUME PipelineAssumption, PipelineInv, kills \in Nat, Restart
    PROVE  PipelineInv'
<1>1. /\ worker' = [w \in Workers |-> Idle] /\ queue' = queue \cup Redelivered
      /\ restarts' = restarts + 1 /\ kills + restarts < MaxDeaths
      /\ UNCHANGED <<up, beats, data, batches, logged, ended, kills>>
  BY DEF Restart
<1>2. \A w \in Workers : ~Busy(w)'
  BY <1>1 DEF Busy
<1>3. /\ restarts \in Nat /\ restarts' \in 0 .. MaxDeaths /\ restarts < restarts'
      /\ \A k \in queue : k \in Message /\ k.copy \in Nat
  BY <1>1 DEF PipelineInv, TypeInv, PipelineAssumption, Message
<1>4. ASSUME NEW m \in Redelivered
      PROVE  \E w \in Workers :
                /\ Busy(w) /\ m \in Message /\ m = [worker[w].msg EXCEPT !.copy = @ + 1]
                /\ m.tick = worker[w].msg.tick /\ m.retries = worker[w].msg.retries
                /\ m.copy = worker[w].msg.copy + 1 /\ m.copy <= restarts'
                /\ m.retries \in Nat /\ worker[w].msg.copy \in Nat
  <2>1. PICK w \in Workers : worker[w].pc # "idle" /\ m = [worker[w].msg EXCEPT !.copy = @ + 1]
    BY DEF Redelivered
  <2>2. Busy(w) /\ worker[w].msg \in Message
    BY <2>1, Shape DEF PipelineInv
  <2>3. PICK msg \in Message : msg = worker[w].msg
    BY <2>2
  <2>4. msg.copy <= restarts /\ msg.copy \in Nat /\ msg.retries \in Nat
    BY <2>2, <2>3 DEF PipelineInv, OnePlace, Message
  <2>5. msg.copy + 1 \in 0 .. MaxDeaths /\ msg.copy + 1 <= restarts'
    BY <1>1, <1>3, <2>4 DEF PipelineAssumption
  <2>6. m = [msg EXCEPT !.copy = @ + 1]
    BY <2>1, <2>3
  <2>7. m \in Message /\ m.tick = msg.tick /\ m.retries = msg.retries /\ m.copy = msg.copy + 1
    BY <2>3, <2>5, <2>6 DEF Message
  <2> QED BY <2>1, <2>2, <2>3, <2>4, <2>5, <2>7
<1>5. ASSUME NEW w \in Workers, Busy(w) PROVE \E m \in queue' : m.tick = worker[w].msg.tick
  <2>1. worker[w].pc # "idle" /\ worker[w].msg \in Message
    BY <1>5, Shape DEF PipelineInv
  <2>2. [worker[w].msg EXCEPT !.copy = @ + 1] \in queue'
    BY <1>1, <2>1 DEF Redelivered
  <2>3. [worker[w].msg EXCEPT !.copy = @ + 1].tick = worker[w].msg.tick
    BY <2>1 DEF Message
  <2> QED BY <2>2, <2>3
<1>6. TypeInv'
  <2>1. queue' \in SUBSET Message
    BY <1>1, <1>3, <1>4
  <2>2. worker' \in [Workers -> {Idle} \cup Working]
    BY <1>1
  <2> QED BY <1>1, <1>2, <1>3, <2>1, <2>2 DEF PipelineInv, TypeInv
<1>7. OnePlace'
  <2>1. ASSUME NEW m \in queue' PROVE m.tick <= beats' /\ m.copy <= restarts'
    <3>1. CASE m \in queue
      BY <1>1, <1>3, <3>1 DEF PipelineInv, OnePlace
    <3>2. CASE m \in Redelivered
      BY <1>1, <1>4, <3>2 DEF PipelineInv, OnePlace
    <3> QED BY <1>1, <3>1, <3>2
  <2>2. ASSUME NEW m \in queue', NEW n \in queue', m.tick = n.tick PROVE m = n
    <3>1. CASE m \in queue /\ n \in queue
      BY <2>2, <3>1 DEF PipelineInv, OnePlace
    <3>2. ASSUME NEW k \in queue, NEW l \in Redelivered PROVE k.tick # l.tick
      BY <1>4 DEF PipelineInv, OnePlace
    <3>3. CASE m \in Redelivered /\ n \in Redelivered
      <4>1. PICK w \in Workers : Busy(w) /\ m = [worker[w].msg EXCEPT !.copy = @ + 1]
                                  /\ m.tick = worker[w].msg.tick
        BY <1>4, <3>3
      <4>2. PICK v \in Workers : Busy(v) /\ n = [worker[v].msg EXCEPT !.copy = @ + 1]
                                  /\ n.tick = worker[v].msg.tick
        BY <1>4, <3>3
      <4>3. v = w
        BY <2>2, <4>1, <4>2 DEF PipelineInv, OnePlace
      <4> QED BY <4>1, <4>2, <4>3
    <3> QED BY <1>1, <2>2, <3>1, <3>2, <3>3
  <2>3. ASSUME NEW i \in DOMAIN ended, NEW m \in queue' PROVE m.tick # ended[i].tick
    <3>1. CASE m \in queue
      BY <3>1 DEF PipelineInv, OnePlace
    <3>2. CASE m \in Redelivered
      BY <1>4, <3>2 DEF PipelineInv, OnePlace
    <3> QED BY <1>1, <3>1, <3>2
  <2>4. \A i \in DOMAIN ended : ended[i].tick <= beats
    BY DEF PipelineInv, OnePlace
  <2> QED BY <1>1, <1>2, <2>1, <2>2, <2>3, <2>4 DEF OnePlace
<1>8. OwnBatch'
  BY <1>2 DEF OwnBatch
<1>9. Counted'
  <2>1. \A t : AttemptsOf(t)' = AttemptsOf(t)
    BY <1>1 DEF AttemptsOf
  <2>2. \A t : Cardinality(AttemptsOf(t)) \in Nat
    BY AttemptsAreFinite DEF PipelineInv, TypeInv
  <2>3. ASSUME NEW m \in queue' PROVE Cardinality(AttemptsOf(m.tick)) <= m.retries + m.copy
    <3>1. CASE m \in queue
      BY <3>1 DEF PipelineInv, Counted
    <3>2. CASE m \in Redelivered
      <4>1. PICK w \in Workers :
              /\ Busy(w) /\ m.tick = worker[w].msg.tick /\ m.retries = worker[w].msg.retries
              /\ m.copy = worker[w].msg.copy + 1 /\ m.retries \in Nat /\ worker[w].msg.copy \in Nat
        BY <1>4, <3>2
      <4>2. Cardinality(AttemptsOf(worker[w].msg.tick))
              <= worker[w].msg.retries + worker[w].msg.copy + (IF worker[w].pc \in Early THEN 0 ELSE 1)
        BY <4>1 DEF PipelineInv, Counted
      <4> QED BY <2>2, <4>1, <4>2
    <3> QED BY <1>1, <3>1, <3>2
  <2>4. ASSUME NEW t \in 1 .. MaxBeats PROVE Cardinality(AttemptsOf(t)) <= 1 + MAX_RETRIES + restarts'
    <3>1. Cardinality(AttemptsOf(t)) <= 1 + MAX_RETRIES + restarts
      BY DEF PipelineInv, Counted
    <3> QED BY <1>3, <2>2, <3>1 DEF PipelineAssumption
  <2>5. \A t \in 1 .. MaxBeats : t > beats' => AttemptsOf(t) = {}
    BY <1>1 DEF PipelineInv, Counted
  <2> QED BY <1>2, <2>1, <2>3, <2>4, <2>5 DEF Counted
<1>10. NewestIsPending'
  <2> SUFFICES ASSUME batches # <<>>, Last(batches).status = "success", Len(batches) \notin DOMAIN logged
               PROVE  \/ \E m \in queue' : m.tick = Last(batches).tick
                      \/ \E i \in DOMAIN ended : ended[i].tick = Last(batches).tick /\ ended[i].how # "done"
    BY <1>1 DEF NewestIsPending
  <2> QED BY <1>1, <1>5 DEF PipelineInv, NewestIsPending
<1>11. OneProcess'
  BY <1>1, <1>2 DEF PipelineInv, OneProcess
<1> QED BY <1>6, <1>7, <1>8, <1>9, <1>10, <1>11 DEF PipelineInv

-----------------------------------------------------------------------------
(***************************************************************************)
(* Where the ticks are.                                                    *)
(***************************************************************************)
Somewhere(t) ==
    \/ \E msg \in queue : msg.tick = t
    \/ \E w \in Workers : Busy(w) /\ worker[w].msg.tick = t
    \/ TickEnded(t)
LostTasks == {i \in DOMAIN ended : ended[i].how = "lost"}
TicksInv ==
    /\ kills \in 0 .. MaxDeaths
    /\ \A t \in 1 .. beats : Somewhere(t)
    /\ Cardinality(LostTasks) <= kills

\* A process keeps its message and nothing ends.
LEMMA TickStaysWithProcess ==
    ASSUME PipelineInv, TicksInv, NEW w \in Workers, Busy(w), NEW x \in Working,
           worker' = [worker EXCEPT ![w] = x], x.msg = worker[w].msg,
           UNCHANGED <<beats, queue, ended, kills>>
    PROVE  TicksInv'
<1>1. x # Idle
  BY DEF Working, Early, Late, Idle
<1>2. \A v \in Workers : (Busy(v)' <=> Busy(v)) /\ worker'[v].msg = worker[v].msg
  BY <1>1, Becomes DEF PipelineInv
<1>3. \A t : Somewhere(t)' <=> Somewhere(t)
  BY <1>2 DEF Somewhere, TickEnded
<1> QED BY <1>3 DEF TicksInv, LostTasks

\* A process gives its message back with the tick it has.
LEMMA TickGoesBack ==
    ASSUME PipelineInv, TicksInv, NEW w \in Workers, Busy(w),
           worker' = [worker EXCEPT ![w] = Idle], NEW m, m.tick = worker[w].msg.tick,
           queue' = queue \cup {m}, UNCHANGED <<beats, ended, kills>>
    PROVE  TicksInv'
<1>1. \A v \in Workers : v # w => (Busy(v)' <=> Busy(v)) /\ worker'[v] = worker[v]
  BY Becomes DEF PipelineInv
<1>2. \A t : Somewhere(t) => Somewhere(t)'
  BY <1>1 DEF Somewhere, TickEnded
<1> QED BY <1>2 DEF TicksInv, LostTasks

\* A process ends its task, and answers for it unless it died.
LEMMA TickEnds ==
    ASSUME PipelineAssumption, PipelineInv, TicksInv, NEW w \in Workers, Busy(w), NEW how,
           worker' = [worker EXCEPT ![w] = Idle],
           ended' = Append(ended, [tick |-> worker[w].msg.tick, how |-> how, batch |-> worker[w].batch]),
           UNCHANGED <<beats, queue>>, kills' \in 0 .. MaxDeaths,
           \/ how # "lost" /\ kills' = kills
           \/ kills' = kills + 1
    PROVE  TicksInv'
<1> DEFINE end == [tick |-> worker[w].msg.tick, how |-> how, batch |-> worker[w].batch]
           n == Len(ended) + 1
<1>1. \A v \in Workers : v # w => (Busy(v)' <=> Busy(v)) /\ worker'[v] = worker[v]
  BY Becomes DEF PipelineInv
<1>2. ended \in Seq(End) /\ Len(ended) \in Nat /\ DOMAIN ended = 1 .. Len(ended)
  BY DEF PipelineInv, TypeInv
<1>3. PICK S : ended \in Seq(S) /\ end \in S
  <2>1. ended \in Seq(End \cup {end})
    BY <1>2
  <2> QED BY <2>1
<1>4. end.tick = worker[w].msg.tick /\ end.how = how
  OBVIOUS
<1> HIDE DEF end
<1>5. /\ DOMAIN ended' = 1 .. n /\ ended'[n] = end /\ n \notin DOMAIN ended
      /\ \A i \in DOMAIN ended : i \in DOMAIN ended' /\ ended'[i] = ended[i]
      /\ \A i \in DOMAIN ended' : i \in DOMAIN ended \/ i = n
  BY <1>2, <1>3 DEF end
<1>6. \A t : Somewhere(t) => Somewhere(t)'
  BY <1>1, <1>4, <1>5 DEF Somewhere, TickEnded
<1>7. IsFiniteSet(LostTasks) /\ Cardinality(LostTasks) \in Nat /\ n \notin LostTasks
  <2>1. LostTasks \subseteq 1 .. Len(ended) /\ IsFiniteSet(1 .. Len(ended))
    BY <1>2, FS_Interval DEF LostTasks
  <2> QED BY <1>5, <2>1, FS_Subset, FS_CardinalityType DEF LostTasks
<1>8. kills \in Nat /\ kills' \in Nat
  BY DEF TicksInv, PipelineAssumption
<1>9. Cardinality(LostTasks') <= kills'
  <2>1. CASE how = "lost"
    <3>1. LostTasks' = LostTasks \cup {n}
      BY <1>4, <1>5, <2>1 DEF LostTasks
    <3>2. Cardinality(LostTasks') = Cardinality(LostTasks) + 1
      BY <1>7, <3>1, FS_AddElement
    <3> QED BY <1>7, <1>8, <2>1, <3>2 DEF TicksInv
  <2>2. CASE how # "lost"
    <3>1. LostTasks' = LostTasks
      BY <1>4, <1>5, <2>2 DEF LostTasks
    <3> QED BY <1>7, <1>8, <3>1 DEF TicksInv
  <2> QED BY <2>1, <2>2
<1> QED BY <1>6, <1>9 DEF TicksInv

-----------------------------------------------------------------------------
(***************************************************************************)
(* What the tasks keep to.                                                 *)
(***************************************************************************)
\* Nothing has been scheduled at first.
LEMMA InitInv == ASSUME PipelineAssumption, Init PROVE PipelineInv
<1>1. /\ up \subseteq Workers /\ beats = 0 /\ queue = {} /\ worker = [w \in Workers |-> Idle] /\ data = FALSE
      /\ batches = <<>> /\ logged = <<>> /\ ended = <<>> /\ restarts = 0
  BY DEF Init
<1>2. DOMAIN batches = {} /\ DOMAIN logged = {} /\ DOMAIN ended = {} /\ \A w \in Workers : ~Busy(w)
  BY <1>1 DEF Busy
<1>3. TypeInv
  <2>1. worker \in [Workers -> {Idle} \cup Working]
    BY <1>1
  <2>2. \A S : <<>> \in Seq(S)
    OBVIOUS
  <2>3. beats \in 0 .. MaxBeats /\ restarts \in 0 .. MaxDeaths
    BY <1>1 DEF PipelineAssumption
  <2>4. queue \in SUBSET Message
    BY <1>1
  <2>5. data \in BOOLEAN
    BY <1>1
  <2> QED BY <1>1, <1>2, <2>1, <2>2, <2>3, <2>4, <2>5 DEF TypeInv
<1>4. Counted
  <2>1. \A t : AttemptsOf(t) = {}
    BY <1>2 DEF AttemptsOf
  <2>2. \A t : Cardinality(AttemptsOf(t)) = 0
    BY <2>1, FS_EmptySet
  <2> QED BY <1>1, <1>2, <2>1, <2>2 DEF Counted, PipelineAssumption
<1> QED BY <1>1, <1>2, <1>3, <1>4 DEF PipelineInv, OnePlace, OwnBatch, NewestIsPending, OneProcess

LEMMA InitTicks == ASSUME PipelineAssumption, Init PROVE TicksInv
<1>1. beats = 0 /\ kills = 0 /\ LostTasks = {} /\ kills \in 0 .. MaxDeaths
  BY DEF Init, LostTasks, PipelineAssumption
<1> QED BY <1>1, FS_EmptySet DEF TicksInv

\* A step that changes nothing.
LEMMA StutterKeeps == ASSUME PipelineInv, UNCHANGED vars PROVE PipelineInv'
<1>1. /\ up' = up /\ beats' = beats /\ queue' = queue /\ worker' = worker /\ data' = data
      /\ batches' = batches /\ logged' = logged /\ ended' = ended /\ restarts' = restarts
  BY DEF vars
<1>2. TypeInv' /\ OnePlace' /\ OwnBatch'
  BY <1>1 DEF PipelineInv, TypeInv, OnePlace, OwnBatch, Busy
<1>3. Counted' /\ NewestIsPending' /\ OneProcess'
  BY <1>1 DEF PipelineInv, Counted, AttemptsOf, NewestIsPending, OneProcess, Busy
<1> QED BY <1>2, <1>3 DEF PipelineInv

\* Every step keeps the invariant.
LEMMA NextInv ==
    ASSUME PipelineAssumption, PipelineInv, TicksInv, [Next]_vars
    PROVE  PipelineInv'
<1>1. CASE Beat
  BY <1>1, BeatKeeps
<1>2. ASSUME NEW w \in Workers, Run(w) PROVE PipelineInv'
  <2>1. ASSUME NEW m \in queue, Take(w, m) PROVE PipelineInv'
    BY <2>1, TakeKeeps
  <2>2. ASSUME NEW found \in BOOLEAN, Collect(w, found) PROVE PipelineInv'
    BY <2>2, CollectKeeps
  <2>3. CASE OpenBatch(w)
    BY <2>3, OpenKeeps
  <2>4. ASSUME NEW s \in Outcomes, EndScan(w, s) PROVE PipelineInv'
    BY <2>4, EndScanKeeps
  <2>5. ASSUME NEW r \in {"sent", "failed"}, Push(w, r) PROVE PipelineInv'
    BY <2>5, PushKeeps
  <2>6. CASE Acknowledge(w)
    BY <2>6, AcknowledgeKeeps
  <2> QED BY <1>2, <2>1, <2>2, <2>3, <2>4, <2>5, <2>6 DEF Run, Step
<1>3. ASSUME NEW w \in Workers, Raise(w) PROVE PipelineInv'
  BY <1>3, RaiseKeeps
<1>4. ASSUME NEW w \in Workers, Kill(w) PROVE PipelineInv'
  BY <1>4, KillKeeps
<1>5. CASE Restart
  <2>1. kills \in Nat
    BY DEF TicksInv, PipelineAssumption
  <2> QED BY <1>5, <2>1, RestartKeeps
<1>6. CASE UNCHANGED vars
  BY <1>6, StutterKeeps
<1> QED BY <1>1, <1>2, <1>3, <1>4, <1>5, <1>6 DEF Next

\* Every step leaves each tick somewhere and counts the tasks that are lost.
LEMMA NextTicks ==
    ASSUME PipelineAssumption, PipelineInv, TicksInv, [Next]_vars
    PROVE  TicksInv'
<1>0. TypeInv
  BY DEF PipelineInv
<1>1. CASE Beat
  <2> DEFINE m == [tick |-> beats + 1, retries |-> 0, copy |-> 0]
  <2>0. m.tick = beats + 1
    OBVIOUS
  <2>1. beats' = beats + 1 /\ beats \in Nat /\ UNCHANGED <<worker, ended, kills>> /\ queue' = queue \cup {m}
    BY <1>0, <1>1 DEF Beat, TypeInv, PipelineAssumption
  <2> HIDE DEF m
  <2>2. \A t : Somewhere(t) \/ t = beats + 1 => Somewhere(t)'
    <3>1. \A t : Somewhere(t) => Somewhere(t)'
      BY <2>1 DEF Somewhere, TickEnded, Busy
    <3>2. ASSUME NEW t, t = beats + 1 PROVE Somewhere(t)'
      BY <2>0, <2>1, <3>2 DEF Somewhere
    <3> QED BY <3>1, <3>2
  <2>3. \A t \in 1 .. beats' : t \in 1 .. beats \/ t = beats + 1
    BY <2>1
  <2> QED BY <2>1, <2>2, <2>3 DEF TicksInv, LostTasks
<1>2. CASE Restart
  <2>1. /\ queue' = queue \cup Redelivered /\ UNCHANGED <<beats, ended, kills>>
    BY <1>2 DEF Restart
  <2>2. ASSUME NEW w \in Workers, Busy(w) PROVE \E m \in queue' : m.tick = worker[w].msg.tick
    <3>1. worker[w].pc # "idle" /\ worker[w].msg \in Message
      BY <1>0, <2>2, Shape
    <3>2. [worker[w].msg EXCEPT !.copy = @ + 1] \in queue'
      BY <2>1, <3>1 DEF Redelivered
    <3>3. [worker[w].msg EXCEPT !.copy = @ + 1].tick = worker[w].msg.tick
      BY <3>1 DEF Message
    <3> QED BY <3>2, <3>3
  <2>3. \A t : Somewhere(t) => Somewhere(t)'
    BY <2>1, <2>2 DEF Somewhere, TickEnded
  <2> QED BY <2>1, <2>3 DEF TicksInv, LostTasks
<1>3. ASSUME NEW w \in Workers, NEW m \in queue, Take(w, m) PROVE TicksInv'
  <2> DEFINE x == [pc |-> "collect", msg |-> m, batch |-> 0]
  <2>1. /\ ~Busy(w) /\ queue' = queue \ {m} /\ worker' = [worker EXCEPT ![w] = x]
        /\ UNCHANGED <<beats, ended, kills>>
    BY <1>0, <1>3, Shape DEF Take
  <2>2. x \in Working /\ x # Idle /\ x.msg = m
    BY <1>0 DEF Working, Early, Idle, TypeInv
  <2> HIDE DEF x
  <2>3. /\ Busy(w)' /\ worker'[w] = x
        /\ \A v \in Workers : v # w => worker'[v] = worker[v] /\ (Busy(v)' <=> Busy(v))
    BY <1>0, <2>1, <2>2, Becomes
  <2>4. ASSUME NEW t, Somewhere(t) PROVE Somewhere(t)'
    <3>1. CASE \E msg \in queue : msg.tick = t
      BY <2>1, <2>2, <2>3, <3>1 DEF Somewhere
    <3>2. CASE \E v \in Workers : Busy(v) /\ worker[v].msg.tick = t
      BY <2>1, <2>3, <3>2 DEF Somewhere
    <3>3. CASE TickEnded(t)
      BY <2>1, <3>3 DEF Somewhere, TickEnded
    <3> QED BY <2>4, <3>1, <3>2, <3>3 DEF Somewhere
  <2> QED BY <2>1, <2>4 DEF TicksInv, LostTasks
<1>4. ASSUME NEW w \in Workers, NEW p \in Early \cup Late, Busy(w), worker' = [worker EXCEPT ![w].pc = p],
             UNCHANGED <<beats, queue, ended, kills>>
      PROVE  TicksInv'
  <2>1. PICK x \in Working : worker' = [worker EXCEPT ![w] = x] /\ x.msg = worker[w].msg
    BY <1>0, <1>4, Turns
  <2> QED BY <1>4, <2>1, TickStaysWithProcess
<1>5. ASSUME NEW w \in Workers, NEW found \in BOOLEAN, Collect(w, found) PROVE TicksInv'
  <2>1. "open" \in Early \cup Late /\ Busy(w)
    BY <1>0, <1>5, Shape DEF Collect, Early
  <2> QED BY <1>4, <1>5, <2>1 DEF Collect
<1>6. ASSUME NEW w \in Workers, OpenBatch(w) PROVE TicksInv'
  <2> DEFINE n == Len(batches) + 1
             y == [worker[w] EXCEPT !.pc = "scan"]
             x == [y EXCEPT !.batch = n]
  <2>1. Busy(w) /\ worker[w] \in Working /\ n \in Nat /\ UNCHANGED <<beats, queue, ended, kills>>
    BY <1>0, <1>6, Shape DEF OpenBatch, TypeInv
  <2>2. worker' = [worker EXCEPT ![w] = x]
    BY <1>0, <1>6 DEF OpenBatch, TypeInv
  <2>3. y \in [pc : Early \cup Late, msg : Message, batch : Nat] /\ y.msg = worker[w].msg
    BY <2>1 DEF Working, Late
  <2> HIDE DEF y, n
  <2>4. x \in [pc : Early \cup Late, msg : Message, batch : Nat] /\ x.msg = worker[w].msg
    BY <2>1, <2>3
  <2> HIDE DEF x
  <2>5. x \in Working
    BY <2>4 DEF Working
  <2> QED BY <2>1, <2>2, <2>4, <2>5, TickStaysWithProcess
<1>7. ASSUME NEW w \in Workers, NEW s \in Outcomes, EndScan(w, s) PROVE TicksInv'
  <2>1. "push" \in Early \cup Late /\ Busy(w)
    BY <1>0, <1>7, Shape DEF EndScan, Late
  <2> QED BY <1>4, <1>7, <2>1 DEF EndScan
<1>8. ASSUME NEW w \in Workers, NEW r \in {"sent", "failed"}, Push(w, r) PROVE TicksInv'
  <2>1. "ack" \in Early \cup Late /\ Busy(w)
    BY <1>0, <1>8, Shape DEF Push, Late
  <2> QED BY <1>4, <1>8, <2>1 DEF Push
<1>9. ASSUME NEW w \in Workers, Acknowledge(w) PROVE TicksInv'
  <2>1. /\ Busy(w) /\ worker' = [worker EXCEPT ![w] = Idle]
        /\ ended' = Append(ended, [tick |-> worker[w].msg.tick, how |-> "done", batch |-> worker[w].batch])
        /\ UNCHANGED <<beats, queue, kills>>
    BY <1>0, <1>9, Shape DEF Acknowledge, Finish
  <2>2. kills' \in 0 .. MaxDeaths /\ kills' = kills
    BY <2>1 DEF TicksInv
  <2>3. PICK how : how = "done"
    OBVIOUS
  <2>4. ended' = Append(ended, [tick |-> worker[w].msg.tick, how |-> how, batch |-> worker[w].batch])
    BY <2>1, <2>3
  <2>5. how # "lost"
    BY <2>3
  <2> QED BY <2>1, <2>2, <2>4, <2>5, TickEnds
<1>10. ASSUME NEW w \in Workers, Raise(w) PROVE TicksInv'
  <2>1. /\ Busy(w) /\ worker[w].msg \in Message /\ worker' = [worker EXCEPT ![w] = Idle]
        /\ UNCHANGED <<beats, kills>>
    BY <1>0, <1>10, Shape DEF Raise, Finish
  <2>2. CASE worker[w].msg.retries < MAX_RETRIES
    <3> DEFINE m == [worker[w].msg EXCEPT !.retries = @ + 1]
    <3>1. m.tick = worker[w].msg.tick
      BY <2>1 DEF Message
    <3>2. queue' = queue \cup {m} /\ UNCHANGED ended
      BY <1>10, <2>2 DEF Raise
    <3> HIDE DEF m
    <3> QED BY <2>1, <3>1, <3>2, TickGoesBack
  <2>3. CASE ~(worker[w].msg.retries < MAX_RETRIES)
    <3>1. /\ ended' = Append(ended, [tick |-> worker[w].msg.tick, how |-> "given_up", batch |-> worker[w].batch])
          /\ UNCHANGED queue
      BY <1>10, <2>3 DEF Raise, Finish
    <3>2. kills' \in 0 .. MaxDeaths /\ kills' = kills
      BY <2>1 DEF TicksInv
    <3>3. PICK how : how = "given_up"
      OBVIOUS
    <3>4. ended' = Append(ended, [tick |-> worker[w].msg.tick, how |-> how, batch |-> worker[w].batch])
      BY <3>1, <3>3
    <3>5. how # "lost"
      BY <3>3
    <3> QED BY <2>1, <3>1, <3>2, <3>4, <3>5, TickEnds
  <2> QED BY <2>2, <2>3
<1>11. ASSUME NEW w \in Workers, Kill(w) PROVE TicksInv'
  <2>1. /\ Busy(w) /\ worker' = [worker EXCEPT ![w] = Idle] /\ kills' = kills + 1 /\ kills + restarts < MaxDeaths
        /\ ended' = Append(ended, [tick |-> worker[w].msg.tick, how |-> "lost", batch |-> worker[w].batch])
        /\ UNCHANGED <<beats, queue>>
    BY <1>0, <1>11, Shape DEF Kill, Finish
  <2>2. kills' \in 0 .. MaxDeaths
    BY <1>0, <2>1 DEF TypeInv, TicksInv, PipelineAssumption
  <2> QED BY <2>1, <2>2, TickEnds
<1>12. CASE UNCHANGED vars
  BY <1>12 DEF vars, TicksInv, Somewhere, TickEnded, LostTasks, Busy
<1> QED BY <1>1, <1>2, <1>3, <1>5, <1>6, <1>7, <1>8, <1>9, <1>10, <1>11, <1>12 DEF Next, Run, Step

\* The invariant says of each part what the property says of it.
LEMMA InvImpliesPushes == ASSUME PipelineAssumption, PipelineInv, TicksInv PROVE PushesFollowScans
<1>1. TypeOK
  <2>1. ASSUME NEW w \in Workers, worker[w] # Idle
        PROVE  /\ w \in up /\ worker[w].pc \in {"collect", "open", "scan", "push", "ack"} /\ worker[w].msg \in Message
               /\ worker[w].batch \in 0 .. Len(batches)
    <3>1. w \in up
      BY <2>1 DEF PipelineInv, TypeInv, Busy
    <3> QED BY <2>1, <3>1, Shape DEF PipelineInv, OwnBatch, Busy, Early, Late
  <2>2. \A b \in DOMAIN batches : batches[b] \in Batch
    BY DEF PipelineInv, TypeInv
  <2>3. \A b \in DOMAIN batches : batches[b].status \in Outcomes \cup {"running"}
    BY <2>2 DEF Batch
  <2> QED BY <2>1, <2>3 DEF PipelineInv, TypeInv, TypeOK, TicksInv
<1>2. RepeatsAreBounded
  BY DEF PipelineInv, TypeInv, Counted, RepeatsAreBounded, PipelineAssumption
<1>3. NewestIsOffered
  <2> SUFFICES ASSUME queue = {}, \A w \in Workers : worker[w].pc = "idle", batches # <<>>,
                      Last(batches).status = "success",
                      \A i \in DOMAIN ended : ended[i].tick = Last(batches).tick => ended[i].how = "done"
               PROVE  Len(batches) \in DOMAIN logged
    BY DEF NewestIsOffered
  <2>1. \A w \in Workers : ~Busy(w)
    BY Shape DEF PipelineInv
  <2> QED BY <2>1 DEF PipelineInv, NewestIsPending
<1>4. (\A v, w \in up : v = w) => DoneTickWasPushed
  BY DEF PipelineInv, OneProcess, DoneTickWasPushed
<1>5. NoTickIsForgotten
  BY DEF TicksInv, NoTickIsForgotten, Somewhere, LostTasks, Busy
<1> QED BY <1>1, <1>2, <1>3, <1>4, <1>5 DEF PushesFollowScans

\* With any number of processes, ticks, retries and deaths, what the scheduled work keeps
\* to (collect_and_run_radar_task of tasks/celery_app.py) holds in every state: a tick adds
\* at most one batch for each attempt, retry and restart, none is forgotten but those whose
\* process died, a newest scan that succeeded is offered to the chat once all is quiet
\* unless its tick was given up or lost, and a single process has offered each scan it ended.
THEOREM PipelineCorrect == ASSUME PipelineAssumption PROVE Spec => []PushesFollowScans
<1>1. Init => PipelineInv /\ TicksInv
  BY InitInv, InitTicks
<1>2. PipelineInv /\ TicksInv /\ [Next]_vars => (PipelineInv /\ TicksInv)'
  BY NextInv, NextTicks
<1>3. PipelineInv /\ TicksInv => PushesFollowScans
  BY InvImpliesPushes
<1> QED BY <1>1, <1>2, <1>3, PTL DEF Spec
=============================================================================
