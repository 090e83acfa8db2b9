------------------------- MODULE TelegramPushProofs -------------------------
(***************************************************************************)
(* Theorems about TelegramPush, for every number of runs, chats, signals   *)
(* and scans, every verdict, and any number of interruptions and retries;  *)
(* then, for pushes that do not overlap (MaxActive = 1): no message is     *)
(* repeated once its success is on record, and the push service implements *)
(* PushLedger.                                                             *)
(***************************************************************************)
EXTENDS TelegramPush, FiniteSetTheorems, SequenceTheorems, TLAPS

USE DEF None

\* TypeOK is not inductive: a row is built from local variables that are set
\* only in the phases where the run uses them.
WithChat == {"create_user", "dedupe", "send", "log", "reports", "publish", "add_report"}
WithSignal == {"publish", "add_report"}
GoodTask(t) ==
    /\ t \in Task
    /\ t.pc \notin Settled => t.scan \in Scans
    /\ t.pc \in WithChat => t.chat \in Chats
    /\ t.pc \in WithSignal => t.signal \in Signals
TypeInv == TypeOK /\ \A r \in Runs : GoodTask(task[r])

\* The local state of a run that has not started, or has ended.
LEMMA FreshGood ==
    ASSUME NEW t \in 1..MaxTries, NEW phase \in Settled
    PROVE  /\ GoodTask(Fresh(t))
           /\ GoodTask([Fresh(t) EXCEPT !.pc = phase])
BY DEF Fresh, GoodTask, Task, Phases, Successful, Settled, WithChat, WithSignal

\* Replacing one run's local state by a good one keeps all of them good.
LEMMA ContinueGood ==
    ASSUME TypeInv, NEW r \in Runs, NEW t, GoodTask(t), Continue(r, t)
    PROVE  task' \in [Runs -> Task] /\ \A q \in Runs : GoodTask(task'[q])
<1>1. task \in [Runs -> Task] /\ t \in Task
  BY DEF TypeInv, TypeOK, GoodTask
<1>2. task' = [task EXCEPT ![r] = t]
  BY DEF Continue
<1>3. \A q \in Runs : task'[q] = IF q = r THEN t ELSE task[q]
  BY <1>1, <1>2
<1> QED
  BY <1>1, <1>2, <1>3 DEF TypeInv

\* A run that returns or fails is left in the local state of an ended run.
LEMMA LeaveGood ==
    ASSUME TypeInv, NEW r \in Runs, NEW phase \in Settled, Leave(r, phase)
    PROVE  task' \in [Runs -> Task] /\ \A q \in Runs : GoodTask(task'[q])
<1>1. task[r].try \in 1..MaxTries
  BY DEF TypeInv, TypeOK, Task
<1> DEFINE t == [Fresh(task[r].try) EXCEPT !.pc = phase]
<1>2. GoodTask(t) /\ Continue(r, t)
  BY <1>1, FreshGood DEF Leave
<1> HIDE DEF t
<1> QED
  BY <1>2, ContinueGood

PendingType == [Runs -> [logs: SUBSET PushLog, reports: SUBSET Report]]

\* A commit, a rollback and a flush keep the types of the rows.
LEMMA CommitType ==
    ASSUME TypeOK, NEW r \in Runs, Commit(r)
    PROVE  pushLogs' \subseteq PushLog /\ reports' \subseteq Report /\ pending' \in PendingType
BY DEF Commit, TypeOK, NoRows, PendingType

\* A rollback keeps the types of the uncommitted rows.
LEMMA RollbackType ==
    ASSUME TypeOK, NEW r \in Runs, pending' = [pending EXCEPT ![r] = NoRows]
    PROVE  pending' \in PendingType
BY DEF TypeOK, NoRows, PendingType

\* A flush of well-typed rows keeps the types of the uncommitted rows.
LEMMA AddType ==
    ASSUME TypeOK, NEW r \in Runs, NEW logs \in SUBSET PushLog,
           NEW newReports \in SUBSET Report, Add(r, logs, newReports)
    PROVE  pending' \in PendingType
BY DEF TypeOK, Add, PendingType

-----------------------------------------------------------------------------
\* The initial state is well typed.
LEMMA TypeInit == Init => TypeInv
<1> SUFFICES ASSUME Init PROVE TypeInv
  OBVIOUS
<1>1. \A r \in Runs : task[r] = Fresh(1) /\ GoodTask(Fresh(1))
  <2>1. 1 \in 1..MaxTries /\ "idle" \in Settled
    BY BoundsAssumption DEF Settled
  <2>2. GoodTask(Fresh(1))
    BY <2>1, FreshGood
  <2> QED BY <2>2 DEF Init
<1>2. task \in [Runs -> Task]
  BY <1>1 DEF Init, GoodTask
<1> QED
  BY <1>1, <1>2, BoundsAssumption DEF Init, TypeInv, TypeOK, NoRows

\* Every step of every run, and of the environment, keeps the types.
LEMMA TypeNext == TypeInv /\ [Next]_vars => TypeInv'
<1> SUFFICES ASSUME TypeInv, [Next]_vars PROVE TypeInv'
  OBVIOUS
<1>0. TypeOK
  BY DEF TypeInv
<1> USE DEF store
<1> DEFINE NewTasks == task' \in [Runs -> Task] /\ \A q \in Runs : GoodTask(task'[q])
<1>a. ASSUME NEW r \in Runs, NEW t, GoodTask(t), Continue(r, t) PROVE NewTasks
  BY <1>a, ContinueGood
<1>b. ASSUME NEW r \in Runs PROVE task[r] \in Task /\ GoodTask(task[r])
  BY DEF TypeInv, TypeOK
<1>1. ASSUME NEW r \in Runs, ReturnEmpty(r) PROVE TypeInv'
  <2>1. NewTasks
    BY <1>1, LeaveGood DEF ReturnEmpty, Settled
  <2> QED BY <1>0, <1>1, <2>1 DEF ReturnEmpty, TypeInv, TypeOK
<1>2. ASSUME NEW r \in Runs, NEW recipients \in SUBSET Chats, NEW dry \in BOOLEAN,
             Begin(r, recipients, dry)
      PROVE TypeInv'
  <2>1. PICK k \in scans : Continue(r,
            [task[r] EXCEPT !.pc = "review", !.scan = k, !.dry = dry,
                            !.queue = recipients,
                            !.toReview = IF k \in readable THEN SignalsOf[k] ELSE {}])
    BY <1>2 DEF Begin
  <2> DEFINE toReview == IF k \in readable THEN SignalsOf[k] ELSE {}
             t == [task[r] EXCEPT !.pc = "review", !.scan = k, !.dry = dry,
                            !.queue = recipients, !.toReview = toReview]
  <2>2. k \in Scans /\ toReview \in SUBSET Signals
    BY <1>0, DataAssumption DEF TypeOK
  <2> HIDE DEF toReview
  <2>5. t \in Task /\ t.pc = "review" /\ t.scan = k
    BY <1>b, <2>2 DEF Task, Phases
  <2>3. GoodTask(t)
    BY <2>2, <2>5 DEF GoodTask, WithChat, WithSignal
  <2> HIDE DEF t
  <2>4. NewTasks
    BY <1>a, <2>1, <2>3 DEF t, toReview
  <2> QED BY <1>0, <1>2, <2>4 DEF Begin, TypeInv, TypeOK
<1>3. ASSUME NEW r \in Runs, ReviewSignal(r) PROVE TypeInv'
  <2>1. PICK s \in task[r].toReview :
          /\ reviewStatus' = [reviewStatus EXCEPT ![s] = Verdict[s]]
          /\ Continue(r, [task[r] EXCEPT !.toReview = @ \ {s},
                                         !.included = AfterReview(@, s)])
    BY <1>3 DEF ReviewSignal
  <2> DEFINE t == [task[r] EXCEPT !.toReview = @ \ {s},
                                         !.included = AfterReview(@, s)]
  <2>2. s \in Signals
    BY <1>b DEF Task
  <2>3. GoodTask(t)
    BY <1>b, <1>3, <2>2 DEF ReviewSignal, AfterReview, GoodTask, Task, WithChat, WithSignal
  <2> HIDE DEF t
  <2>4. NewTasks
    BY <1>a, <2>1, <2>3 DEF t
  <2>5. reviewStatus' \in [Signals -> {"candidate", "approved",
                                       "needs_human_review", "blocked"}]
    BY <1>0, <2>1, <2>2, DataAssumption DEF TypeOK
  <2>6. Commit(r)
    BY <1>3 DEF ReviewSignal
  <2> QED BY <1>0, <1>3, <2>4, <2>5, <2>6, CommitType
          DEF ReviewSignal, TypeInv, TypeOK, PendingType
<1>4. ASSUME NEW r \in Runs, ComposeMessage(r) PROVE TypeInv'
  <2>1. CASE Leave(r, "done")
    <3>1. NewTasks
      BY <2>1, LeaveGood DEF Settled
    <3> QED BY <1>0, <1>4, <3>1 DEF ComposeMessage, TypeInv, TypeOK
  <2>2. CASE ~Leave(r, "done")
    <3> DEFINE included == IncludedPushSignals(task[r].included, task[r].dry)
               t == [task[r] EXCEPT !.pc = "next", !.included = included]
    <3>1. included \in SUBSET Signals
      BY <1>b DEF Task, IncludedPushSignals
    <3>2. Continue(r, t)
      BY <1>4, <2>2 DEF ComposeMessage
    <3> HIDE DEF included
    <3>5. t \in Task /\ t.pc = "next" /\ t.scan = task[r].scan
      BY <1>b, <3>1 DEF Task, Phases
    <3>6. task[r].scan \in Scans
      BY <1>b, <1>4 DEF ComposeMessage, GoodTask, Settled
    <3>3. GoodTask(t)
      BY <3>5, <3>6 DEF GoodTask, WithChat, WithSignal
    <3> HIDE DEF t
    <3>4. NewTasks
      BY <1>a, <3>2, <3>3
    <3> QED BY <1>0, <1>4, <3>4 DEF ComposeMessage, TypeInv, TypeOK
  <2> QED BY <2>1, <2>2
<1>5. ASSUME NEW r \in Runs, NextRecipient(r) PROVE TypeInv'
  <2>1. PICK c \in task[r].queue :
          Continue(r, [task[r] EXCEPT !.queue = @ \ {c}, !.chat = c,
                         !.pc = IF c \in users THEN AfterUser(r) ELSE "create_user"])
    BY <1>5 DEF NextRecipient
  <2> DEFINE pc == IF c \in users THEN AfterUser(r) ELSE "create_user"
             t == [task[r] EXCEPT !.queue = @ \ {c}, !.chat = c, !.pc = pc]
  <2>4. pc \in {"next", "dedupe", "create_user"}
    BY DEF AfterUser
  <2> HIDE DEF pc
  <2>5. c \in Chats /\ task[r].scan \in Scans
    BY <1>b, <1>5 DEF NextRecipient, GoodTask, Settled, Task
  <2>6. t \in Task /\ t.pc = pc /\ t.chat = c /\ t.scan = task[r].scan
    BY <1>b, <2>4, <2>5 DEF Task, Phases
  <2>2. GoodTask(t)
    BY <2>4, <2>5, <2>6 DEF GoodTask, WithSignal
  <2> HIDE DEF t
  <2>3. NewTasks
    BY <1>a, <2>1, <2>2 DEF t, pc
  <2> QED BY <1>0, <1>5, <2>3 DEF NextRecipient, TypeInv, TypeOK
<1>6. ASSUME NEW r \in Runs, CreateUser(r) PROVE TypeInv'
  <2>1. CASE task[r].chat \in users
    <3>1. NewTasks
      BY <1>6, <2>1, LeaveGood DEF CreateUser, Settled
    <3>2. pending' \in PendingType
      BY <1>0, <1>6, <2>1, RollbackType DEF CreateUser
    <3> QED BY <1>0, <1>6, <2>1, <3>1, <3>2 DEF CreateUser, TypeInv, TypeOK, PendingType
  <2>2. CASE task[r].chat \notin users
    <3> DEFINE t == [task[r] EXCEPT !.pc = AfterUser(r)]
    <3>1. GoodTask(t) /\ task[r].chat \in Chats
      BY <1>b, <1>6 DEF CreateUser, AfterUser, GoodTask, Task, Phases, Settled, WithChat, WithSignal
    <3>2. Continue(r, t) /\ Commit(r) /\ users' = users \cup {task[r].chat}
      BY <1>6, <2>2 DEF CreateUser
    <3> HIDE DEF t
    <3>3. NewTasks
      BY <1>a, <3>1, <3>2
    <3> QED BY <1>0, <1>6, <3>1, <3>2, <3>3, CommitType
            DEF CreateUser, TypeInv, TypeOK, PendingType
  <2> QED BY <2>1, <2>2
<1>7. ASSUME NEW r \in Runs, CheckDuplicate(r) PROVE TypeInv'
  <2> DEFINE pc == IF ExistingSuccessfulPushLog(r) THEN "next" ELSE "send"
             t == [task[r] EXCEPT !.pc = pc]
  <2>1. Continue(r, t)
    BY <1>7 DEF CheckDuplicate
  <2>2. pc \in {"next", "send"}
    OBVIOUS
  <2> HIDE DEF pc
  <2>3. task[r].scan \in Scans /\ task[r].chat \in Chats
    BY <1>b, <1>7 DEF CheckDuplicate, GoodTask, Settled, WithChat
  <2>4. t \in Task /\ t.pc = pc /\ t.chat = task[r].chat /\ t.scan = task[r].scan
    BY <1>b, <2>2 DEF Task, Phases
  <2>5. GoodTask(t)
    BY <2>2, <2>3, <2>4 DEF GoodTask, WithSignal
  <2> HIDE DEF t
  <2>6. NewTasks
    BY <1>a, <2>1, <2>5
  <2> QED BY <1>0, <1>7, <2>6 DEF CheckDuplicate, TypeInv, TypeOK
<1>8. ASSUME NEW r \in Runs, SendMessage(r) PROVE TypeInv'
  <2>1. PICK result \in Successful \cup {"failed"} :
          Continue(r, [task[r] EXCEPT !.pc = "log", !.delivery = result])
    BY <1>8 DEF SendMessage
  <2> DEFINE t == [task[r] EXCEPT !.pc = "log", !.delivery = result]
             m == [run |-> r, try |-> task[r].try, scan |-> task[r].scan,
                   signals |-> task[r].included]
  <2>2. task[r].scan \in Scans /\ task[r].chat \in Chats
    BY <1>b, <1>8 DEF SendMessage, GoodTask, Settled, WithChat
  <2>3. t \in Task /\ t.pc = "log" /\ t.chat = task[r].chat /\ t.scan = task[r].scan
    BY <1>b DEF Task, Phases
  <2>4. GoodTask(t)
    BY <2>2, <2>3 DEF GoodTask, WithSignal
  <2>5. m \in Message
    BY <1>b, <2>2 DEF Message, Task
  <2>6. inbox' = inbox \/ inbox' = [inbox EXCEPT ![task[r].chat] = Append(@, m)]
    BY <1>8 DEF SendMessage
  <2> HIDE DEF m
  <2>7. inbox' \in [Chats -> Seq(Message)]
    <3>1. inbox \in [Chats -> Seq(Message)]
      BY <1>0 DEF TypeOK
    <3>2. inbox[task[r].chat] \in Seq(Message)
      BY <3>1, <2>2
    <3>3. Append(inbox[task[r].chat], m) \in Seq(Message)
      BY <3>2, <2>5
    <3> QED BY <2>6, <3>1, <3>3
  <2>8. NewTasks
    BY <1>a, <2>1, <2>4
  <2> QED BY <1>0, <1>8, <2>7, <2>8 DEF SendMessage, TypeInv, TypeOK
<1>9. ASSUME NEW r \in Runs, RecordPush(r) PROVE TypeInv'
  <2> DEFINE p0 == P0SignalsToReport(task[r].included, task[r].delivery)
             t == [task[r] EXCEPT !.pc = "reports", !.p0Left = p0]
  <2>1. Continue(r, t) /\ Add(r, {CurrentLog(r)}, {})
    BY <1>9 DEF RecordPush
  <2>2. p0 \in SUBSET Signals
    BY <1>b DEF P0SignalsToReport, Task
  <2> HIDE DEF p0
  <2>3. task[r].scan \in Scans /\ task[r].chat \in Chats
    BY <1>b, <1>9 DEF RecordPush, GoodTask, Settled, WithChat
  <2>4. t \in Task /\ t.pc = "reports" /\ t.chat = task[r].chat /\ t.scan = task[r].scan
    BY <1>b, <2>2 DEF Task, Phases
  <2>5. GoodTask(t)
    BY <2>3, <2>4 DEF GoodTask, WithSignal
  <2>6. CurrentLog(r) \in PushLog
    BY <1>b, <2>3 DEF CurrentLog, PushLog, Task
  <2> HIDE DEF t
  <2>7. NewTasks
    BY <1>a, <2>1, <2>5
  <2>8. pending' \in PendingType
    BY <1>0, <2>1, <2>6, AddType
  <2> QED BY <1>0, <1>9, <2>7, <2>8 DEF RecordPush, TypeInv, TypeOK, PendingType
<1>10. ASSUME NEW r \in Runs, EnsureReport(r) PROVE TypeInv'
  <2>1. PICK s \in task[r].p0Left :
          Continue(r, [task[r] EXCEPT !.p0Left = @ \ {s}, !.signal = s,
                         !.pc = IF FindExistingSignalReport(r, s)
                                THEN "reports" ELSE "publish"])
    BY <1>10 DEF EnsureReport
  <2> DEFINE pc == IF FindExistingSignalReport(r, s) THEN "reports" ELSE "publish"
             t == [task[r] EXCEPT !.p0Left = @ \ {s}, !.signal = s, !.pc = pc]
  <2>2. pc \in {"reports", "publish"}
    OBVIOUS
  <2> HIDE DEF pc
  <2>3. task[r].scan \in Scans /\ task[r].chat \in Chats /\ s \in Signals
    BY <1>b, <1>10 DEF EnsureReport, GoodTask, Settled, WithChat, Task
  <2>4. t \in Task /\ t.pc = pc /\ t.chat = task[r].chat /\ t.scan = task[r].scan /\ t.signal = s
    BY <1>b, <2>2, <2>3 DEF Task, Phases
  <2>5. GoodTask(t)
    BY <2>2, <2>3, <2>4 DEF GoodTask
  <2> HIDE DEF t
  <2>6. NewTasks
    BY <1>a, <2>1, <2>5 DEF t, pc
  <2> QED BY <1>0, <1>10, <2>6 DEF EnsureReport, TypeInv, TypeOK
<1>11. ASSUME NEW r \in Runs, ReviewForReport(r) PROVE TypeInv'
  <2> DEFINE s == task[r].signal
             pc == IF Verdict[s] = "blocked" THEN "reports" ELSE "add_report"
             t == [task[r] EXCEPT !.pc = pc]
  <2>1. /\ reviewStatus' = [reviewStatus EXCEPT ![s] = Verdict[s]]
        /\ Continue(r, t) /\ Commit(r)
    BY <1>11 DEF ReviewForReport
  <2>2. pc \in {"reports", "add_report"}
    OBVIOUS
  <2> HIDE DEF pc
  <2>3. task[r].scan \in Scans /\ task[r].chat \in Chats /\ s \in Signals
    BY <1>b, <1>11 DEF ReviewForReport, GoodTask, Settled, WithChat, WithSignal
  <2>4. t \in Task /\ t.pc = pc /\ t.chat = task[r].chat /\ t.scan = task[r].scan /\ t.signal = s
    BY <1>b, <2>2 DEF Task, Phases
  <2>5. GoodTask(t)
    BY <2>2, <2>3, <2>4 DEF GoodTask
  <2> HIDE DEF t
  <2>6. NewTasks
    BY <1>a, <2>1, <2>5
  <2>7. reviewStatus' \in [Signals -> {"candidate", "approved",
                                       "needs_human_review", "blocked"}]
    BY <1>0, <2>1, <2>3, DataAssumption DEF TypeOK
  <2> QED BY <1>0, <1>11, <2>1, <2>6, <2>7, CommitType
          DEF ReviewForReport, TypeInv, TypeOK, PendingType
<1>12. ASSUME NEW r \in Runs, AddReport(r) PROVE TypeInv'
  <2> DEFINE t == [task[r] EXCEPT !.pc = "reports"]
  <2>1. Continue(r, t) /\ Add(r, {}, {CurrentReport(r)})
    BY <1>12 DEF AddReport
  <2>2. task[r].scan \in Scans /\ task[r].chat \in Chats /\ task[r].signal \in Signals
    BY <1>b, <1>12 DEF AddReport, GoodTask, Settled, WithChat, WithSignal
  <2>3. t \in Task /\ t.pc = "reports" /\ t.chat = task[r].chat /\ t.scan = task[r].scan
    BY <1>b DEF Task, Phases
  <2>4. GoodTask(t)
    BY <2>2, <2>3 DEF GoodTask, WithSignal
  <2>5. CurrentReport(r) \in Report
    BY <1>b, <2>2 DEF CurrentReport, Report, Task
  <2> HIDE DEF t
  <2>6. NewTasks
    BY <1>a, <2>1, <2>4
  <2>7. pending' \in PendingType
    BY <1>0, <2>1, <2>5, AddType
  <2> QED BY <1>0, <1>12, <2>6, <2>7 DEF AddReport, TypeInv, TypeOK, PendingType
<1>13. ASSUME NEW r \in Runs, RecipientDone(r) PROVE TypeInv'
  <2> DEFINE t == [task[r] EXCEPT !.pc = "next"]
  <2>1. Continue(r, t)
    BY <1>13 DEF RecipientDone
  <2>2. task[r].scan \in Scans
    BY <1>b, <1>13 DEF RecipientDone, GoodTask, Settled
  <2>3. t \in Task /\ t.pc = "next" /\ t.scan = task[r].scan
    BY <1>b DEF Task, Phases
  <2>4. GoodTask(t)
    BY <2>2, <2>3 DEF GoodTask, WithChat, WithSignal
  <2> HIDE DEF t
  <2>5. NewTasks
    BY <1>a, <2>1, <2>4
  <2> QED BY <1>0, <1>13, <2>5 DEF RecipientDone, TypeInv, TypeOK
<1>14. ASSUME NEW r \in Runs, Finish(r) PROVE TypeInv'
  <2>1. NewTasks
    BY <1>14, LeaveGood DEF Finish, Settled
  <2>2. Commit(r)
    BY <1>14 DEF Finish
  <2> QED BY <1>0, <1>14, <2>1, <2>2, CommitType DEF Finish, TypeInv, TypeOK, PendingType
<1>15. ASSUME NEW r \in Runs, Interrupt(r) PROVE TypeInv'
  <2>1. NewTasks
    BY <1>15, LeaveGood DEF Interrupt, Settled
  <2>2. pending' \in PendingType
    BY <1>0, <1>15, RollbackType DEF Interrupt
  <2>3. faults' \in 0..MaxFaults
    BY <1>0, <1>15, BoundsAssumption DEF Interrupt, TypeOK
  <2> QED BY <1>0, <1>15, <2>1, <2>2, <2>3 DEF Interrupt, TypeInv, TypeOK, PendingType
<1>16. ASSUME NEW r \in Runs, Retry(r) PROVE TypeInv'
  <2>1. task[r].try + 1 \in 1..MaxTries
    BY <1>b, <1>16, BoundsAssumption DEF Retry, Task
  <2>2. GoodTask(Fresh(task[r].try + 1))
    BY <2>1, FreshGood DEF Settled
  <2>3. NewTasks
    BY <1>16, <1>a, <2>2 DEF Retry
  <2> QED BY <1>0, <1>16, <2>3 DEF Retry, TypeInv, TypeOK
<1>17. CASE Environment
  BY <1>17 DEF Environment, ScanStarts, ScanCommits, OtherRequestCreatesUser,
               TypeInv, TypeOK
<1>18. CASE UNCHANGED vars
  BY <1>18 DEF vars, TypeInv, TypeOK
<1> QED
  BY <1>1, <1>2, <1>3, <1>4, <1>5, <1>6, <1>7, <1>8, <1>9, <1>10, <1>11, <1>12,
     <1>13, <1>14, <1>15, <1>16, <1>17, <1>18
     DEF Next, Start, Work, Quiescent

\* The committed and uncommitted rows, the messages received and the local
\* state of every run have their types in every reachable state.
THEOREM TypeCorrect == Spec => []TypeOK
<1>1. TypeInv => TypeOK
  BY DEF TypeInv
<1> QED
  BY <1>1, TypeInit, TypeNext, PTL DEF Spec

\* The types and the consistency of each local state hold in every state.
LEMMA TypeAlways == Spec => []TypeInv
BY TypeInit, TypeNext, PTL DEF Spec

-----------------------------------------------------------------------------
(***************************************************************************)
(* The review gate.  A signal that once passed its review stays            *)
(* publishable because its verdict never changes; a run only carries       *)
(* publishable signals; and a message shows what its run carries.          *)
(***************************************************************************)
ReviewInv ==
    /\ \A s \in Signals : reviewStatus[s] \in {"candidate", Verdict[s]}
    /\ \A r \in Runs : \A s \in task[r].included : Publishable(s)
    /\ NothingUnreviewedLeaves

\* What a step does to the signals the runs carry, through one run's Continue.
LEMMA ContinueIncluded ==
    ASSUME TypeInv, NEW r \in Runs, NEW t, Continue(r, t)
    PROVE  \A q \in Runs : task'[q] = IF q = r THEN t ELSE task[q]
BY DEF Continue, TypeInv, TypeOK

\* Steps that review nothing, send nothing and add no signal to a run.
LEMMA KeepsReviewInv ==
    ASSUME ReviewInv, UNCHANGED <<reviewStatus, inbox>>,
           \A q \in Runs : task'[q].included \subseteq task[q].included
    PROVE  ReviewInv'
<1>1. \A s : Publishable(s)' = Publishable(s)
  BY DEF Publishable
<1>2. \A r \in Runs : \A s \in task'[r].included : Publishable(s)'
  BY <1>1 DEF ReviewInv
<1>3. NothingUnreviewedLeaves'
  BY <1>1 DEF ReviewInv, NothingUnreviewedLeaves
<1> QED
  BY <1>2, <1>3 DEF ReviewInv

\* Storing a verdict keeps every signal that was publishable publishable.
LEMMA ReviewKeepsPublishable ==
    ASSUME TypeInv, ReviewInv, NEW s \in Signals,
           reviewStatus' = [reviewStatus EXCEPT ![s] = Verdict[s]]
    PROVE  /\ \A x \in Signals : reviewStatus'[x] \in {"candidate", Verdict[x]}
           /\ \A x \in Signals : Publishable(x) => Publishable(x)'
           /\ Verdict[s] # "blocked" => Publishable(s)'
<1>1. reviewStatus \in [Signals -> {"candidate", "approved", "needs_human_review", "blocked"}]
  BY DEF TypeInv, TypeOK
<1>2. Verdict[s] \in {"approved", "needs_human_review", "blocked"}
  BY DataAssumption
<1> QED
  BY <1>1, <1>2 DEF ReviewInv, Publishable

\* Every step keeps the review gate: what runs carry, and what left, is reviewed.
LEMMA ReviewInvNext == TypeInv /\ ReviewInv /\ [Next]_vars => ReviewInv'
<1> SUFFICES ASSUME TypeInv, ReviewInv, [Next]_vars PROVE ReviewInv'
  OBVIOUS
<1> USE DEF store
<1> DEFINE NoNewSignal == \A q \in Runs : task'[q].included \subseteq task[q].included
<1>a. ASSUME NEW r \in Runs, NEW t, Continue(r, t), t.included \subseteq task[r].included
      PROVE NoNewSignal
  BY <1>a, ContinueIncluded
<1>b. ASSUME NEW r \in Runs, NEW phase, Leave(r, phase) PROVE NoNewSignal
  <2>1. [Fresh(task[r].try) EXCEPT !.pc = phase].included = {}
    BY DEF Fresh
  <2> QED BY <1>b, <1>a, <2>1 DEF Leave
<1>c. \A r \in Runs : task[r] \in Task
  BY DEF TypeInv, TypeOK
<1>d. \A r \in Runs : task[r].included \subseteq Signals
  BY <1>c DEF Task
<1>e. \A c \in Chats : \A i \in DOMAIN inbox[c] : inbox[c][i].signals \subseteq Signals
  <2> SUFFICES ASSUME NEW c \in Chats, NEW i \in DOMAIN inbox[c]
              PROVE  inbox[c][i].signals \subseteq Signals
    OBVIOUS
  <2>1. inbox[c] \in Seq(Message)
    BY DEF TypeInv, TypeOK
  <2>2. inbox[c][i] \in Message
    BY <2>1
  <2> QED BY <2>2 DEF Message
<1>1. ASSUME NEW r \in Runs, ReturnEmpty(r) PROVE ReviewInv'
  BY <1>1, <1>b, KeepsReviewInv DEF ReturnEmpty
<1>2. ASSUME NEW r \in Runs, NEW recipients \in SUBSET Chats, NEW dry \in BOOLEAN,
             Begin(r, recipients, dry)
      PROVE ReviewInv'
  <2>1. NoNewSignal
    <3>1. PICK k \in scans : Continue(r,
            [task[r] EXCEPT !.pc = "review", !.scan = k, !.dry = dry,
                            !.queue = recipients,
                            !.toReview = IF k \in readable THEN SignalsOf[k] ELSE {}])
      BY <1>2 DEF Begin
    <3> QED BY <3>1, <1>a, <1>c DEF Task
  <2> QED BY <1>2, <2>1, KeepsReviewInv DEF Begin
<1>3. ASSUME NEW r \in Runs, ReviewSignal(r) PROVE ReviewInv'
  <2>1. PICK s \in task[r].toReview :
          /\ reviewStatus' = [reviewStatus EXCEPT ![s] = Verdict[s]]
          /\ Continue(r, [task[r] EXCEPT !.toReview = @ \ {s},
                                         !.included = AfterReview(@, s)])
    BY <1>3 DEF ReviewSignal
  <2> DEFINE t == [task[r] EXCEPT !.toReview = @ \ {s},
                                         !.included = AfterReview(@, s)]
  <2>2. s \in Signals
    BY <1>c DEF Task
  <2>3. /\ \A x \in Signals : reviewStatus'[x] \in {"candidate", Verdict[x]}
        /\ \A x \in Signals : Publishable(x) => Publishable(x)'
        /\ Verdict[s] # "blocked" => Publishable(s)'
    BY <2>1, <2>2, ReviewKeepsPublishable
  <2>4. \A x \in t.included : x \in task[r].included \/ (x = s /\ Verdict[s] # "blocked")
    BY <1>c DEF Task, AfterReview
  <2> HIDE DEF t
  <2>5. \A q \in Runs : task'[q] = IF q = r THEN t ELSE task[q]
    BY <2>1, ContinueIncluded DEF t
  <2>6. \A q \in Runs : \A x \in task'[q].included : Publishable(x)'
    BY <1>d, <2>3, <2>4, <2>5 DEF ReviewInv
  <2>7. NothingUnreviewedLeaves'
    BY <1>3, <1>e, <2>3 DEF ReviewSignal, ReviewInv, NothingUnreviewedLeaves
  <2> QED BY <2>3, <2>6, <2>7 DEF ReviewInv
<1>4. ASSUME NEW r \in Runs, ComposeMessage(r) PROVE ReviewInv'
  <2>1. CASE Leave(r, "done")
    BY <1>4, <2>1, <1>b, KeepsReviewInv DEF ComposeMessage
  <2>2. CASE ~Leave(r, "done")
    <3> DEFINE included == IncludedPushSignals(task[r].included, task[r].dry)
               t == [task[r] EXCEPT !.pc = "next", !.included = included]
    <3>1. included \subseteq task[r].included
      BY DEF IncludedPushSignals
    <3>2. Continue(r, t)
      BY <1>4, <2>2 DEF ComposeMessage
    <3> HIDE DEF included
    <3>3. t.included = included
      BY <1>c DEF Task
    <3> HIDE DEF t
    <3>4. NoNewSignal
      BY <1>a, <3>1, <3>2, <3>3
    <3> QED BY <1>4, <3>4, KeepsReviewInv DEF ComposeMessage
  <2> QED BY <2>1, <2>2
<1>5. ASSUME NEW r \in Runs, NextRecipient(r) PROVE ReviewInv'
  <2>1. PICK c \in task[r].queue :
          Continue(r, [task[r] EXCEPT !.queue = @ \ {c}, !.chat = c,
                         !.pc = IF c \in users THEN AfterUser(r) ELSE "create_user"])
    BY <1>5 DEF NextRecipient
  <2>2. NoNewSignal
    BY <2>1, <1>a, <1>c DEF Task
  <2> QED BY <1>5, <2>2, KeepsReviewInv DEF NextRecipient
<1>6. ASSUME NEW r \in Runs, CreateUser(r) PROVE ReviewInv'
  <2>1. Leave(r, "failed") \/ Continue(r, [task[r] EXCEPT !.pc = AfterUser(r)])
    BY <1>6 DEF CreateUser
  <2>2. NoNewSignal
    BY <2>1, <1>a, <1>b, <1>c DEF Task
  <2> QED BY <1>6, <2>2, KeepsReviewInv DEF CreateUser
<1>7. ASSUME NEW r \in Runs, CheckDuplicate(r) PROVE ReviewInv'
  <2>1. NoNewSignal
    BY <1>7, <1>a, <1>c DEF CheckDuplicate, Task
  <2> QED BY <1>7, <2>1, KeepsReviewInv DEF CheckDuplicate
<1>8. ASSUME NEW r \in Runs, SendMessage(r) PROVE ReviewInv'
  <2>1. NoNewSignal
    BY <1>8, <1>a, <1>c DEF SendMessage, Task
  <2> DEFINE m == [run |-> r, try |-> task[r].try, scan |-> task[r].scan,
                   signals |-> task[r].included]
  <2>2. inbox' = inbox \/ inbox' = [inbox EXCEPT ![task[r].chat] = Append(@, m)]
    BY <1>8 DEF SendMessage
  <2>3. UNCHANGED reviewStatus
    BY <1>8 DEF SendMessage
  <2>4. CASE inbox' = inbox
    BY <2>1, <2>3, <2>4, KeepsReviewInv
  <2>5. CASE inbox' = [inbox EXCEPT ![task[r].chat] = Append(@, m)]
    <3>1. \A s \in m.signals : Publishable(s)
      BY DEF ReviewInv
    <3> HIDE DEF m
    <3>2. ASSUME NEW c \in Chats, NEW i \in DOMAIN inbox'[c]
          PROVE  \A s \in inbox'[c][i].signals : Publishable(s)
      <4>1. inbox \in [Chats -> Seq(Message)] /\ inbox[c] \in Seq(Message)
        BY DEF TypeInv, TypeOK
      <4>2. inbox'[c] = inbox[c] \/ inbox'[c] = Append(inbox[c], m)
        BY <2>5, <4>1
      <4>3. \/ i \in DOMAIN inbox[c] /\ inbox'[c][i] = inbox[c][i]
            \/ inbox'[c][i] = m
        BY <3>2, <4>1, <4>2
      <4> QED BY <3>1, <4>3 DEF ReviewInv, NothingUnreviewedLeaves
    <3>3. NothingUnreviewedLeaves'
      BY <2>3, <3>2 DEF NothingUnreviewedLeaves, Publishable
    <3> QED BY <2>1, <2>3, <3>3 DEF ReviewInv, Publishable
  <2> QED BY <2>2, <2>4, <2>5
<1>9. ASSUME NEW r \in Runs, RecordPush(r) PROVE ReviewInv'
  <2>1. NoNewSignal
    BY <1>9, <1>a, <1>c DEF RecordPush, Task
  <2> QED BY <1>9, <2>1, KeepsReviewInv DEF RecordPush
<1>10. ASSUME NEW r \in Runs, EnsureReport(r) PROVE ReviewInv'
  <2>1. NoNewSignal
    BY <1>10, <1>a, <1>c DEF EnsureReport, Task
  <2> QED BY <1>10, <2>1, KeepsReviewInv DEF EnsureReport
<1>11. ASSUME NEW r \in Runs, ReviewForReport(r) PROVE ReviewInv'
  <2>1. NoNewSignal
    BY <1>11, <1>a, <1>c DEF ReviewForReport, Task
  <2>2. task[r].signal \in Signals
    BY <1>11 DEF ReviewForReport, TypeInv, GoodTask, WithSignal
  <2>3. reviewStatus' = [reviewStatus EXCEPT ![task[r].signal] = Verdict[task[r].signal]]
    BY <1>11 DEF ReviewForReport
  <2>4. /\ \A x \in Signals : reviewStatus'[x] \in {"candidate", Verdict[x]}
        /\ \A x \in Signals : Publishable(x) => Publishable(x)'
    BY <2>2, <2>3, ReviewKeepsPublishable
  <2>5. NothingUnreviewedLeaves'
    BY <1>11, <1>e, <2>4 DEF ReviewForReport, ReviewInv, NothingUnreviewedLeaves
  <2> QED BY <1>d, <2>1, <2>4, <2>5 DEF ReviewInv
<1>12. ASSUME NEW r \in Runs, AddReport(r) PROVE ReviewInv'
  <2>1. NoNewSignal
    BY <1>12, <1>a, <1>c DEF AddReport, Task
  <2> QED BY <1>12, <2>1, KeepsReviewInv DEF AddReport
<1>13. ASSUME NEW r \in Runs, RecipientDone(r) PROVE ReviewInv'
  <2>1. NoNewSignal
    BY <1>13, <1>a, <1>c DEF RecipientDone, Task
  <2> QED BY <1>13, <2>1, KeepsReviewInv DEF RecipientDone
<1>14. ASSUME NEW r \in Runs, Finish(r) \/ Interrupt(r) PROVE ReviewInv'
  BY <1>14, <1>b, KeepsReviewInv DEF Finish, Interrupt
<1>15. ASSUME NEW r \in Runs, Retry(r) PROVE ReviewInv'
  <2>1. NoNewSignal
    BY <1>15, <1>a DEF Retry, Fresh
  <2> QED BY <1>15, <2>1, KeepsReviewInv DEF Retry
<1>16. CASE Environment
  BY <1>16, KeepsReviewInv DEF Environment, ScanStarts, ScanCommits, OtherRequestCreatesUser
<1>17. CASE UNCHANGED vars
  BY <1>17, KeepsReviewInv DEF vars
<1> QED
  BY <1>1, <1>2, <1>3, <1>4, <1>5, <1>6, <1>7, <1>8, <1>9, <1>10, <1>11, <1>12,
     <1>13, <1>14, <1>15, <1>16, <1>17 DEF Next, Start, Work, Quiescent

\* The review gate holds for every scan, verdict and interleaving of runs: no
\* message in any chat shows a signal that is unreviewed or blocked.
THEOREM ReviewGate == Spec => []NothingUnreviewedLeaves
<1>1. Init => ReviewInv
  BY DEF Init, ReviewInv, NothingUnreviewedLeaves, Fresh
<1>2. ReviewInv => NothingUnreviewedLeaves
  BY DEF ReviewInv
<1> QED
  BY <1>1, <1>2, TypeAlways, ReviewInvNext, PTL DEF Spec

-----------------------------------------------------------------------------
(***************************************************************************)
(* No report without its push.  While a run writes the reports of one      *)
(* recipient, the log of that delivery is among the rows its session sees; *)
(* so the log is committed with the first report, or before it.            *)
(***************************************************************************)
InReports == {"reports", "publish", "add_report"}
CurrentP0(r) == P0SignalsToReport(task[r].included, task[r].delivery)
RunRows(r) ==
    /\ task[r].pc \in InReports => /\ CurrentLog(r) \in VisibleLogs(r)
                                  /\ task[r].p0Left \subseteq CurrentP0(r)
    /\ task[r].pc \in WithSignal => task[r].signal \in CurrentP0(r)
    /\ \A p \in pending[r].reports : \E l \in VisibleLogs(r) : Explains(l, p)
RowInv == NoReportWithoutPush /\ \A r \in Runs : RunRows(r)

\* The runs that do not move see at least the logs they saw.
LEMMA OtherRunRows ==
    ASSUME NEW q \in Runs, RunRows(q), task'[q] = task[q], pending'[q] = pending[q],
           pushLogs \subseteq pushLogs'
    PROVE  RunRows(q)'
<1>1. VisibleLogs(q) \subseteq VisibleLogs(q)'
  BY DEF VisibleLogs
<1>2. CurrentLog(q)' = CurrentLog(q) /\ CurrentP0(q)' = CurrentP0(q)
  BY DEF CurrentLog, CurrentP0
<1>3. \A l, p : Explains(l, p)' = Explains(l, p)
  BY DEF Explains
<1> QED
  BY <1>1, <1>2, <1>3 DEF RunRows

\* One run moves, by a step that keeps the committed rows, to a state whose
\* own rows are in order.
LEMMA OneRunMoves ==
    ASSUME TypeInv, RowInv, NEW r \in Runs, NEW t, Continue(r, t),
           \A q \in Runs : q # r => pending'[q] = pending[q],
           pushLogs \subseteq pushLogs', NoReportWithoutPush', RunRows(r)'
    PROVE  RowInv'
<1>1. \A q \in Runs : q # r => task'[q] = task[q]
  BY ContinueIncluded
<1>2. ASSUME NEW q \in Runs PROVE RunRows(q)'
  <2>1. CASE q = r
    BY <2>1
  <2>2. CASE q # r
    BY <1>1, <2>2, OtherRunRows DEF RowInv
  <2> QED BY <2>1, <2>2
<1> QED
  BY <1>2 DEF RowInv

\* A run that leaves has no rows, and no phase that needs any.
LEMMA LeaveRows ==
    ASSUME TypeInv, RowInv, NEW r \in Runs, NEW phase \in Settled, Leave(r, phase),
           pending' = [pending EXCEPT ![r] = NoRows], UNCHANGED <<pushLogs, reports>>
    PROVE  RowInv'
<1> DEFINE t == [Fresh(task[r].try) EXCEPT !.pc = phase]
<1>1. Continue(r, t)
  BY DEF Leave
<1>2. t.pc = phase
  BY DEF Fresh
<1> HIDE DEF t
<1>3. task'[r] = t /\ pending'[r] = NoRows /\ \A q \in Runs : q # r => pending'[q] = pending[q]
  BY <1>1, ContinueIncluded DEF TypeInv, TypeOK
<1>4. RunRows(r)'
  BY <1>2, <1>3 DEF RunRows, NoRows, Settled, InReports, WithSignal
<1>5. NoReportWithoutPush'
  BY DEF RowInv, NoReportWithoutPush, Explains
<1> QED
  BY <1>1, <1>3, <1>4, <1>5, OneRunMoves

\* A commit publishes reports together with logs that explain them.
LEMMA CommitRows ==
    ASSUME TypeInv, RowInv, NEW r \in Runs, Commit(r)
    PROVE  /\ pushLogs \subseteq pushLogs'
           /\ VisibleLogs(r)' = VisibleLogs(r)
           /\ pending'[r] = NoRows
           /\ \A q \in Runs : q # r => pending'[q] = pending[q]
           /\ NoReportWithoutPush'
<1>1. pending'[r] = NoRows /\ \A q \in Runs : q # r => pending'[q] = pending[q]
  BY DEF Commit, TypeInv, TypeOK
<1>2. pushLogs' = VisibleLogs(r) /\ reports' = reports \cup pending[r].reports
  BY DEF Commit, VisibleLogs
<1>3. VisibleLogs(r)' = VisibleLogs(r)
  BY <1>1, <1>2 DEF VisibleLogs, NoRows
<1>4. ASSUME NEW p \in reports' PROVE \E l \in pushLogs' : Explains(l, p)
  <2>1. CASE p \in reports
    BY <1>2, <2>1 DEF RowInv, NoReportWithoutPush, VisibleLogs
  <2>2. CASE p \in pending[r].reports
    BY <1>2, <2>2 DEF RowInv, RunRows
  <2> QED BY <1>2, <1>4, <2>1, <2>2
<1>5. NoReportWithoutPush'
  BY <1>4 DEF NoReportWithoutPush, Explains
<1> QED
  BY <1>1, <1>2, <1>3, <1>5 DEF VisibleLogs

\* A commit step of a run that is not in its report loop afterwards.
LEMMA CommitAndContinue ==
    ASSUME TypeInv, RowInv, NEW r \in Runs, NEW t, Continue(r, t), Commit(r),
           t.pc \notin InReports
    PROVE  RowInv'
<1>1. task'[r] = t
  BY ContinueIncluded
<1>2. RunRows(r)'
  BY <1>1, CommitRows DEF RunRows, NoRows, InReports, WithSignal
<1> QED
  BY <1>2, CommitRows, OneRunMoves

\* A step that changes nothing but the local state of a run outside its report
\* loop afterwards.
LEMMA LocalStep ==
    ASSUME TypeInv, RowInv, NEW r \in Runs, NEW t, Continue(r, t),
           UNCHANGED <<pushLogs, reports, pending>>, t.pc \notin InReports
    PROVE  RowInv'
<1>1. task'[r] = t
  BY ContinueIncluded
<1>2. \A l, p : Explains(l, p)' = Explains(l, p)
  BY DEF Explains
<1>3. RunRows(r)'
  BY <1>1, <1>2 DEF RowInv, RunRows, InReports, WithSignal, VisibleLogs
<1>4. NoReportWithoutPush'
  BY <1>2 DEF RowInv, NoReportWithoutPush
<1> QED
  BY <1>3, <1>4, OneRunMoves

\* Every step keeps the rows in order: no report without the log it rests on.
LEMMA RowInvNext == TypeInv /\ RowInv /\ [Next]_vars => RowInv'
<1> SUFFICES ASSUME TypeInv, RowInv, [Next]_vars PROVE RowInv'
  OBVIOUS
<1> USE DEF store
<1>a. \A r \in Runs : task[r] \in Task /\ task[r].pc \in Phases
  BY DEF TypeInv, TypeOK, Task
<1>b. \A l, p : Explains(l, p)' = Explains(l, p)
  BY DEF Explains
<1>c. ASSUME UNCHANGED <<pushLogs, reports, pending, task>> PROVE RowInv'
  <2>1. ASSUME NEW r \in Runs PROVE RunRows(r)'
    BY <1>c, OtherRunRows DEF RowInv
  <2> QED BY <1>b, <1>c, <2>1 DEF RowInv, NoReportWithoutPush
<1>d. ASSUME NEW r \in Runs, Leave(r, "done"), UNCHANGED <<pushLogs, reports, pending>>
      PROVE RowInv'
  <2> DEFINE t == [Fresh(task[r].try) EXCEPT !.pc = "done"]
  <2>1. t.pc = "done" /\ Continue(r, t)
    BY <1>d DEF Leave, Fresh
  <2> HIDE DEF t
  <2> QED BY <1>d, <2>1, LocalStep DEF InReports
<1>1. ASSUME NEW r \in Runs, ReturnEmpty(r) PROVE RowInv'
  BY <1>1, <1>d DEF ReturnEmpty
<1>2. ASSUME NEW r \in Runs, NEW recipients \in SUBSET Chats, NEW dry \in BOOLEAN,
             Begin(r, recipients, dry)
      PROVE RowInv'
  <2>1. PICK k \in scans : Continue(r,
            [task[r] EXCEPT !.pc = "review", !.scan = k, !.dry = dry,
                            !.queue = recipients,
                            !.toReview = IF k \in readable THEN SignalsOf[k] ELSE {}])
    BY <1>2 DEF Begin
  <2> DEFINE t == [task[r] EXCEPT !.pc = "review", !.scan = k, !.dry = dry,
                            !.queue = recipients,
                            !.toReview = IF k \in readable THEN SignalsOf[k] ELSE {}]
  <2>2. t.pc = "review"
    BY <1>a DEF Task
  <2> HIDE DEF t
  <2> QED BY <1>2, <2>1, <2>2, LocalStep DEF Begin, InReports, t
<1>3. ASSUME NEW r \in Runs, ReviewSignal(r) PROVE RowInv'
  <2>1. PICK s \in task[r].toReview :
          Continue(r, [task[r] EXCEPT !.toReview = @ \ {s},
                                         !.included = AfterReview(@, s)])
    BY <1>3 DEF ReviewSignal
  <2> DEFINE t == [task[r] EXCEPT !.toReview = @ \ {s},
                                         !.included = AfterReview(@, s)]
  <2>2. t.pc = "review"
    BY <1>3, <1>a DEF ReviewSignal, Task
  <2> HIDE DEF t
  <2> QED BY <1>3, <2>1, <2>2, CommitAndContinue DEF ReviewSignal, InReports, t
<1>4. ASSUME NEW r \in Runs, ComposeMessage(r) PROVE RowInv'
  <2>1. CASE Leave(r, "done")
    BY <1>4, <1>d, <2>1 DEF ComposeMessage
  <2>2. CASE ~Leave(r, "done")
    <3> DEFINE t == [task[r] EXCEPT !.pc = "next",
                       !.included = IncludedPushSignals(task[r].included, task[r].dry)]
    <3>1. Continue(r, t) /\ t.pc = "next"
      BY <1>4, <1>a, <2>2 DEF ComposeMessage, Task
    <3> HIDE DEF t
    <3> QED BY <1>4, <3>1, LocalStep DEF ComposeMessage, InReports
  <2> QED BY <2>1, <2>2
<1>5. ASSUME NEW r \in Runs, NextRecipient(r) PROVE RowInv'
  <2>1. PICK c \in task[r].queue :
          Continue(r, [task[r] EXCEPT !.queue = @ \ {c}, !.chat = c,
                         !.pc = IF c \in users THEN AfterUser(r) ELSE "create_user"])
    BY <1>5 DEF NextRecipient
  <2> DEFINE t == [task[r] EXCEPT !.queue = @ \ {c}, !.chat = c,
                         !.pc = IF c \in users THEN AfterUser(r) ELSE "create_user"]
  <2>2. t.pc \in {"next", "dedupe", "create_user"}
    BY <1>a DEF AfterUser, Task
  <2> HIDE DEF t
  <2> QED BY <1>5, <2>1, <2>2, LocalStep DEF NextRecipient, InReports, t
<1>6. ASSUME NEW r \in Runs, CreateUser(r) PROVE RowInv'
  <2>1. CASE task[r].chat \in users
    <3>1. Leave(r, "failed") /\ pending' = [pending EXCEPT ![r] = NoRows]
      BY <1>6, <2>1 DEF CreateUser
    <3> QED BY <1>6, <2>1, <3>1, LeaveRows DEF CreateUser, Settled
  <2>2. CASE task[r].chat \notin users
    <3> DEFINE t == [task[r] EXCEPT !.pc = AfterUser(r)]
    <3>1. Continue(r, t) /\ Commit(r) /\ t.pc \in {"next", "dedupe"}
      BY <1>6, <1>a, <2>2 DEF CreateUser, AfterUser, Task
    <3> HIDE DEF t
    <3> QED BY <3>1, CommitAndContinue DEF InReports
  <2> QED BY <2>1, <2>2
<1>7. ASSUME NEW r \in Runs, CheckDuplicate(r) PROVE RowInv'
  <2> DEFINE t == [task[r] EXCEPT !.pc =
                        IF ExistingSuccessfulPushLog(r) THEN "next" ELSE "send"]
  <2>1. Continue(r, t) /\ t.pc \in {"next", "send"}
    BY <1>7, <1>a DEF CheckDuplicate, Task
  <2> HIDE DEF t
  <2> QED BY <1>7, <2>1, LocalStep DEF CheckDuplicate, InReports
<1>8. ASSUME NEW r \in Runs, SendMessage(r) PROVE RowInv'
  <2>1. PICK result : Continue(r, [task[r] EXCEPT !.pc = "log", !.delivery = result])
    BY <1>8 DEF SendMessage
  <2> DEFINE t == [task[r] EXCEPT !.pc = "log", !.delivery = result]
  <2>2. t.pc = "log"
    BY <1>a DEF Task
  <2> HIDE DEF t
  <2> QED BY <1>8, <2>1, <2>2, LocalStep DEF SendMessage, InReports, t
<1>9. ASSUME NEW r \in Runs, RecordPush(r) PROVE RowInv'
  <2> DEFINE t == [task[r] EXCEPT !.pc = "reports", !.p0Left = CurrentP0(r)]
  <2>1. Continue(r, t) /\ Add(r, {CurrentLog(r)}, {}) /\ UNCHANGED <<pushLogs, reports>>
    BY <1>9 DEF RecordPush, CurrentP0
  <2>2. /\ t.pc = "reports" /\ t.p0Left = CurrentP0(r)
        /\ t.try = task[r].try /\ t.chat = task[r].chat /\ t.scan = task[r].scan
        /\ t.delivery = task[r].delivery /\ t.included = task[r].included
    BY <1>a DEF Task
  <2> HIDE DEF t
  <2>3. task'[r] = t
    BY <2>1, ContinueIncluded
  <2>4. /\ pending'[r].logs = pending[r].logs \cup {CurrentLog(r)}
        /\ pending'[r].reports = pending[r].reports
        /\ \A q \in Runs : q # r => pending'[q] = pending[q]
    BY <2>1 DEF Add, TypeInv, TypeOK
  <2>5. CurrentLog(r)' = CurrentLog(r) /\ CurrentP0(r)' = CurrentP0(r)
    BY <2>2, <2>3 DEF CurrentLog, CurrentP0
  <2>6. VisibleLogs(r)' = VisibleLogs(r) \cup {CurrentLog(r)}
    BY <2>1, <2>4 DEF VisibleLogs
  <2>7. RunRows(r)'
    BY <1>b, <2>2, <2>3, <2>4, <2>5, <2>6 DEF RowInv, RunRows, WithSignal
  <2>8. NoReportWithoutPush'
    BY <1>b, <2>1 DEF RowInv, NoReportWithoutPush
  <2> QED BY <2>1, <2>4, <2>7, <2>8, OneRunMoves
<1>10. ASSUME NEW r \in Runs, EnsureReport(r) PROVE RowInv'
  <2>1. PICK s \in task[r].p0Left :
          Continue(r, [task[r] EXCEPT !.p0Left = @ \ {s}, !.signal = s,
                         !.pc = IF FindExistingSignalReport(r, s)
                                THEN "reports" ELSE "publish"])
    BY <1>10 DEF EnsureReport
  <2> DEFINE t == [task[r] EXCEPT !.p0Left = @ \ {s}, !.signal = s,
                         !.pc = IF FindExistingSignalReport(r, s)
                                THEN "reports" ELSE "publish"]
  <2>2. /\ t.pc \in {"reports", "publish"} /\ t.p0Left = task[r].p0Left \ {s} /\ t.signal = s
        /\ t.try = task[r].try /\ t.chat = task[r].chat /\ t.scan = task[r].scan
        /\ t.delivery = task[r].delivery /\ t.included = task[r].included
    BY <1>a DEF Task
  <2> HIDE DEF t
  <2>3. task'[r] = t /\ Continue(r, t)
    BY <2>1, ContinueIncluded DEF t
  <2>4. UNCHANGED <<pushLogs, reports, pending>>
    BY <1>10 DEF EnsureReport
  <2>5. /\ CurrentLog(r)' = CurrentLog(r) /\ CurrentP0(r)' = CurrentP0(r)
        /\ VisibleLogs(r)' = VisibleLogs(r)
    BY <2>2, <2>3, <2>4 DEF CurrentLog, CurrentP0, VisibleLogs
  <2>6. CurrentLog(r) \in VisibleLogs(r) /\ task[r].p0Left \subseteq CurrentP0(r)
    BY <1>10 DEF EnsureReport, RowInv, RunRows, InReports
  <2>7. RunRows(r)'
    BY <1>b, <2>2, <2>3, <2>4, <2>5, <2>6 DEF RowInv, RunRows
  <2>8. NoReportWithoutPush'
    BY <1>b, <2>4 DEF RowInv, NoReportWithoutPush
  <2> QED BY <2>3, <2>4, <2>7, <2>8, OneRunMoves
<1>11. ASSUME NEW r \in Runs, ReviewForReport(r) PROVE RowInv'
  <2> DEFINE t == [task[r] EXCEPT !.pc = IF Verdict[task[r].signal] = "blocked"
                                         THEN "reports" ELSE "add_report"]
  <2>1. Continue(r, t) /\ Commit(r)
    BY <1>11 DEF ReviewForReport
  <2>2. /\ t.pc \in InReports /\ t.p0Left = task[r].p0Left /\ t.signal = task[r].signal
        /\ t.try = task[r].try /\ t.chat = task[r].chat /\ t.scan = task[r].scan
        /\ t.delivery = task[r].delivery /\ t.included = task[r].included
    BY <1>a DEF Task, InReports
  <2> HIDE DEF t
  <2>3. task'[r] = t
    BY <2>1, ContinueIncluded
  <2>4. CurrentLog(r)' = CurrentLog(r) /\ CurrentP0(r)' = CurrentP0(r)
    BY <2>2, <2>3 DEF CurrentLog, CurrentP0
  <2>5. /\ CurrentLog(r) \in VisibleLogs(r) /\ task[r].p0Left \subseteq CurrentP0(r)
        /\ task[r].signal \in CurrentP0(r)
    BY <1>11 DEF ReviewForReport, RowInv, RunRows, InReports, WithSignal
  <2>6. RunRows(r)'
    BY <2>1, <2>2, <2>3, <2>4, <2>5, CommitRows DEF RunRows, NoRows
  <2> QED BY <2>1, <2>6, CommitRows, OneRunMoves
<1>12. ASSUME NEW r \in Runs, AddReport(r) PROVE RowInv'
  <2> DEFINE t == [task[r] EXCEPT !.pc = "reports"]
  <2>1. Continue(r, t) /\ Add(r, {}, {CurrentReport(r)}) /\ UNCHANGED <<pushLogs, reports>>
    BY <1>12 DEF AddReport
  <2>2. /\ t.pc = "reports" /\ t.p0Left = task[r].p0Left
        /\ t.try = task[r].try /\ t.chat = task[r].chat /\ t.scan = task[r].scan
        /\ t.delivery = task[r].delivery /\ t.included = task[r].included
    BY <1>a DEF Task
  <2> HIDE DEF t
  <2>3. task'[r] = t
    BY <2>1, ContinueIncluded
  <2>4. /\ pending'[r].logs = pending[r].logs
        /\ pending'[r].reports = pending[r].reports \cup {CurrentReport(r)}
        /\ \A q \in Runs : q # r => pending'[q] = pending[q]
    BY <2>1 DEF Add, TypeInv, TypeOK
  <2>5. /\ CurrentLog(r)' = CurrentLog(r) /\ CurrentP0(r)' = CurrentP0(r)
        /\ VisibleLogs(r)' = VisibleLogs(r)
    BY <2>1, <2>2, <2>3, <2>4 DEF CurrentLog, CurrentP0, VisibleLogs
  <2>6. /\ CurrentLog(r) \in VisibleLogs(r) /\ task[r].p0Left \subseteq CurrentP0(r)
        /\ task[r].signal \in CurrentP0(r)
    BY <1>12 DEF AddReport, RowInv, RunRows, InReports, WithSignal
  <2>7. Explains(CurrentLog(r), CurrentReport(r))
    BY <2>6 DEF CurrentP0, P0SignalsToReport, CurrentLog, CurrentReport, Explains
  <2>8. RunRows(r)'
    BY <1>b, <2>2, <2>3, <2>4, <2>5, <2>6, <2>7 DEF RowInv, RunRows, WithSignal
  <2>9. NoReportWithoutPush'
    BY <1>b, <2>1 DEF RowInv, NoReportWithoutPush
  <2> QED BY <2>1, <2>4, <2>8, <2>9, OneRunMoves
<1>13. ASSUME NEW r \in Runs, RecipientDone(r) PROVE RowInv'
  <2> DEFINE t == [task[r] EXCEPT !.pc = "next"]
  <2>1. Continue(r, t) /\ t.pc = "next"
    BY <1>13, <1>a DEF RecipientDone, Task
  <2> HIDE DEF t
  <2> QED BY <1>13, <2>1, LocalStep DEF RecipientDone, InReports
<1>14. ASSUME NEW r \in Runs, Finish(r) PROVE RowInv'
  <2> DEFINE t == [Fresh(task[r].try) EXCEPT !.pc = "done"]
  <2>1. Continue(r, t) /\ Commit(r) /\ t.pc = "done"
    BY <1>14 DEF Finish, Leave, Fresh
  <2> HIDE DEF t
  <2> QED BY <2>1, CommitAndContinue DEF InReports
<1>15. ASSUME NEW r \in Runs, Interrupt(r) PROVE RowInv'
  BY <1>15, LeaveRows DEF Interrupt, Settled
<1>16. ASSUME NEW r \in Runs, Retry(r) PROVE RowInv'
  <2>1. Fresh(task[r].try + 1).pc = "idle"
    BY DEF Fresh
  <2> QED BY <1>16, <2>1, LocalStep DEF Retry, InReports
<1>17. CASE Environment
  BY <1>17, <1>c DEF Environment, ScanStarts, ScanCommits, OtherRequestCreatesUser
<1>18. CASE UNCHANGED vars
  BY <1>18, <1>c DEF vars
<1> QED
  BY <1>1, <1>2, <1>3, <1>4, <1>5, <1>6, <1>7, <1>8, <1>9, <1>10, <1>11, <1>12,
     <1>13, <1>14, <1>15, <1>16, <1>17, <1>18 DEF Next, Start, Work, Quiescent

\* Wherever the session is committed in the middle of a run, and wherever the
\* run is interrupted, a report generated by a push is never in the database
\* without the log of the successful delivery that triggered it.
THEOREM ReportsHaveTheirPush == Spec => []NoReportWithoutPush
<1>1. Init => RowInv
  BY DEF Init, RowInv, NoReportWithoutPush, RunRows, NoRows, Fresh, InReports, WithSignal
<1>2. RowInv => NoReportWithoutPush
  BY DEF RowInv
<1> QED
  BY <1>1, <1>2, TypeAlways, RowInvNext, PTL DEF Spec

-----------------------------------------------------------------------------
(***************************************************************************)
(* Logs and deliveries.  A message of the current attempt has a log the    *)
(* run can see, or is logged next, unless the attempt failed; whatever a   *)
(* run can see it commits before it returns.                               *)
(***************************************************************************)
Unsent == {"idle", "review"}
LogOf(l, c, m) == l.run = m.run /\ l.try = m.try /\ l.chat = c /\ l.scan = m.scan
\* Message m of chat c, sent by a run in state t that sees the logs in visible.
Told(t, visible, committed, c, m) ==
    \/ t.pc \in {"failed", "lost"}
    \/ t.pc = "log" /\ t.chat = c /\ t.scan = m.scan
    \/ t.pc = "done" /\ \E l \in committed : LogOf(l, c, m)
    \/ t.pc \notin Unsent \cup {"done"} /\ \E l \in visible : LogOf(l, c, m)
MessageInOrder(t, visible, committed, c, m) ==
    m.try <= t.try /\ (m.try = t.try => Told(t, visible, committed, c, m))

AllSentTrue(logs) == \A l \in logs : l.status = "sent" => SentLogIsTrue(l)
RunMessages(r) ==
    \A c \in Chats : \A i \in DOMAIN inbox[c] :
        inbox[c][i].run = r =>
            MessageInOrder(task[r], VisibleLogs(r), pushLogs, c, inbox[c][i])
RunLogs(r) ==
    /\ AllSentTrue(VisibleLogs(r))
    /\ task[r].pc = "log" /\ task[r].delivery = "sent" => SentLogIsTrue(CurrentLog(r))
    /\ RunMessages(r)
LogInv == AllSentTrue(pushLogs) /\ \A r \in Runs : RunLogs(r)

\* Messages are only added, and only by run r.
InboxGrows(r) ==
    \A c \in Chats :
        /\ \A i \in DOMAIN inbox[c] : i \in DOMAIN inbox'[c] /\ inbox'[c][i] = inbox[c][i]
        /\ \A i \in DOMAIN inbox'[c] : i \in DOMAIN inbox[c] \/ inbox'[c][i].run = r

\* The rows of the database and of every session have a chat.
LEMMA LogsHaveChats ==
    ASSUME TypeInv, NEW r \in Runs
    PROVE  \A l \in VisibleLogs(r) : l.chat \in Chats
BY DEF TypeInv, TypeOK, VisibleLogs, PushLog

\* A log that was true stays true.
LEMMA SentLogStays ==
    ASSUME NEW r \in Runs, InboxGrows(r), NEW l, l.chat \in Chats, SentLogIsTrue(l)
    PROVE  SentLogIsTrue(l)'
BY DEF SentLogIsTrue, InboxGrows

\* Visible true logs stay true, whichever of them are kept.
LEMMA SentLogsStay ==
    ASSUME TypeInv, NEW r \in Runs, NEW q \in Runs, InboxGrows(r), AllSentTrue(VisibleLogs(q)),
           NEW logs, logs \subseteq VisibleLogs(q)
    PROVE  \A l \in logs : l.status = "sent" => SentLogIsTrue(l)'
BY LogsHaveChats, SentLogStays DEF AllSentTrue

\* A step of run r leaves the logs and messages of every other run in order.
LEMMA LogsApart ==
    ASSUME TypeInv, LogInv, NEW r \in Runs, InboxGrows(r), RunLogs(r)',
           \A q \in Runs : q # r => task'[q] = task[q] /\ pending'[q] = pending[q],
           pushLogs \subseteq pushLogs', pushLogs' \subseteq VisibleLogs(r)
    PROVE  LogInv'
<1>1. AllSentTrue(pushLogs)'
  BY SentLogsStay DEF LogInv, RunLogs, AllSentTrue
<1>2. ASSUME NEW q \in Runs, q # r PROVE RunLogs(q)'
  <2>1. task'[q] = task[q] /\ pending'[q] = pending[q] /\ RunLogs(q)
    BY <1>2 DEF LogInv
  <2>2. AllSentTrue(VisibleLogs(q))'
    <3>1. \A l \in VisibleLogs(q) : l.status = "sent" => SentLogIsTrue(l)'
      BY <2>1, SentLogsStay DEF RunLogs
    <3>2. VisibleLogs(q)' \subseteq pushLogs' \cup VisibleLogs(q)
      BY <2>1 DEF VisibleLogs
    <3> QED BY <1>1, <3>1, <3>2 DEF AllSentTrue
  <2>3. ASSUME task[q].pc = "log", task[q].delivery = "sent"
        PROVE  SentLogIsTrue(CurrentLog(q))'
    <3> DEFINE l == CurrentLog(q)
    <3>1. l.chat \in Chats
      BY <2>3 DEF CurrentLog, TypeInv, GoodTask, WithChat
    <3>2. SentLogIsTrue(l)
      BY <2>1, <2>3 DEF RunLogs
    <3>3. CurrentLog(q)' = l
      BY <2>1 DEF CurrentLog
    <3> HIDE DEF l
    <3>4. \E i \in DOMAIN inbox'[l.chat] : inbox'[l.chat][i] =
             [run |-> l.run, try |-> l.try, scan |-> l.scan, signals |-> l.signals]
      BY <3>1, <3>2 DEF InboxGrows, SentLogIsTrue
    <3> QED BY <3>3, <3>4 DEF SentLogIsTrue
  <2>4. ASSUME NEW c \in Chats, NEW i \in DOMAIN inbox'[c], inbox'[c][i].run = q
        PROVE  MessageInOrder(task'[q], VisibleLogs(q)', pushLogs', c, inbox'[c][i])
    <3>1. i \in DOMAIN inbox[c] /\ inbox'[c][i] = inbox[c][i]
      BY <1>2, <2>4 DEF InboxGrows
    <3>2. VisibleLogs(q) \subseteq VisibleLogs(q)'
      BY <2>1 DEF VisibleLogs
    <3>3. MessageInOrder(task[q], VisibleLogs(q), pushLogs, c, inbox[c][i])
      BY <2>1, <2>4, <3>1 DEF RunLogs, RunMessages
    <3> QED BY <2>1, <3>1, <3>2, <3>3 DEF MessageInOrder, Told
  <2> QED BY <2>1, <2>2, <2>3, <2>4 DEF RunLogs, RunMessages
<1> QED BY <1>1, <1>2 DEF LogInv

\* A step of run r that sends nothing and logs nothing new: the attempt begins, goes on,
\* fails, or returns with all that it could see committed.
Proceeds(r, t) ==
    \/ t.pc \in {"failed", "lost"}
    \/ t.pc \in Unsent \cup {"done"} /\ task[r].pc \in Unsent
    \/ t.pc = "done" /\ task[r].pc = "next" /\ VisibleLogs(r) \subseteq pushLogs'
    \/ /\ t.pc \notin Unsent \cup {"done"} /\ task[r].pc \notin {"done", "failed", "lost", "log"}
       /\ VisibleLogs(r) \subseteq VisibleLogs(r)'

\* A step of a run that leaves the chats alone and proceeds so keeps the invariant.
LEMMA LogStep ==
    ASSUME TypeInv, LogInv, NEW r \in Runs, NEW t, Continue(r, t), UNCHANGED inbox,
           t.try = task[r].try, t.pc # "log",
           \A q \in Runs : q # r => pending'[q] = pending[q],
           pushLogs \subseteq pushLogs', VisibleLogs(r)' \subseteq VisibleLogs(r),
           Proceeds(r, t)
    PROVE  LogInv'
<1>1. task'[r] = t /\ \A q \in Runs : q # r => task'[q] = task[q]
  BY ContinueIncluded
<1>2. RunLogs(r)
  BY DEF LogInv
<1>6. InboxGrows(r)
  BY DEF InboxGrows
<1>3. AllSentTrue(VisibleLogs(r))'
  BY <1>2, <1>6, SentLogsStay DEF RunLogs, AllSentTrue
<1>4. ASSUME NEW c \in Chats, NEW i \in DOMAIN inbox[c], inbox[c][i].run = r
      PROVE  MessageInOrder(t, VisibleLogs(r)', pushLogs', c, inbox[c][i])
  <2> DEFINE m == inbox[c][i]
  <2>1. MessageInOrder(task[r], VisibleLogs(r), pushLogs, c, m)
    BY <1>2, <1>4 DEF RunLogs, RunMessages
  <2> HIDE DEF m
  <2>2. m.try <= t.try
    BY <2>1 DEF MessageInOrder
  <2>3. ASSUME m.try = t.try PROVE Told(t, VisibleLogs(r)', pushLogs', c, m)
    <3>1. Told(task[r], VisibleLogs(r), pushLogs, c, m)
      BY <2>1, <2>3 DEF MessageInOrder
    <3> QED BY <3>1 DEF Told, Proceeds, Unsent
  <2> QED BY <2>2, <2>3 DEF MessageInOrder, m
<1>5. RunLogs(r)'
  BY <1>1, <1>3, <1>4 DEF RunLogs, RunMessages
<1>7. pushLogs' \subseteq VisibleLogs(r)
  BY DEF VisibleLogs
<1> QED
  BY <1>1, <1>5, <1>6, <1>7, LogsApart

\* A step after which a run is settled without having sent anything in this attempt,
\* or has failed: nothing it has not committed matters.
LEMMA LogLeave ==
    ASSUME TypeInv, LogInv, NEW r \in Runs, NEW phase \in {"done", "failed", "lost"},
           Leave(r, phase), UNCHANGED inbox,
           \A q \in Runs : q # r => pending'[q] = pending[q],
           pushLogs \subseteq pushLogs', VisibleLogs(r)' \subseteq VisibleLogs(r),
           \/ phase # "done"
           \/ task[r].pc \in Unsent
           \/ task[r].pc = "next" /\ VisibleLogs(r) \subseteq pushLogs'
    PROVE  LogInv'
<1> DEFINE t == [Fresh(task[r].try) EXCEPT !.pc = phase]
<1>1. Continue(r, t) /\ t.try = task[r].try /\ t.pc = phase
  BY DEF Leave, Fresh
<1> HIDE DEF t
<1>2. t.pc # "log" /\ Proceeds(r, t)
  BY <1>1 DEF Proceeds
<1> QED BY <1>1, <1>2, LogStep

\* A rollback and a commit change what the run sees as LogStep and LogLeave expect.
LEMMA RolledBackLogs ==
    ASSUME TypeInv, NEW r \in Runs, pending' = [pending EXCEPT ![r] = NoRows], UNCHANGED pushLogs
    PROVE  /\ \A q \in Runs : q # r => pending'[q] = pending[q]
           /\ pushLogs \subseteq pushLogs' /\ VisibleLogs(r)' \subseteq VisibleLogs(r)
BY DEF TypeInv, TypeOK, VisibleLogs, NoRows

\* A commit publishes what the run sees, and nothing else.
LEMMA CommittedLogs ==
    ASSUME TypeInv, NEW r \in Runs, Commit(r)
    PROVE  /\ \A q \in Runs : q # r => pending'[q] = pending[q]
           /\ pushLogs \subseteq pushLogs' /\ pushLogs' = VisibleLogs(r)
           /\ VisibleLogs(r)' = VisibleLogs(r)
BY DEF Commit, TypeInv, TypeOK, VisibleLogs, NoRows

\* Sending appends at most one message, of this attempt, to the run's chat.
LEMMA SendLogs == ASSUME TypeInv, LogInv, NEW r \in Runs, SendMessage(r) PROVE LogInv'
<1>1. PICK result \in Successful \cup {"failed"}, delivered \in BOOLEAN :
        /\ PossibleAnswer(r, result, delivered)
        /\ Continue(r, [task[r] EXCEPT !.pc = "log", !.delivery = result])
        /\ inbox' = IF delivered
                    THEN [inbox EXCEPT ![task[r].chat] = Append(@,
                            [run |-> r, try |-> task[r].try, scan |-> task[r].scan,
                             signals |-> task[r].included])]
                    ELSE inbox
  BY Zenon DEF SendMessage
<1> DEFINE t == [task[r] EXCEPT !.pc = "log", !.delivery = result]
           m == [run |-> r, try |-> task[r].try, scan |-> task[r].scan,
                 signals |-> task[r].included]
           chat == task[r].chat
<1>2. /\ task[r] \in Task /\ task[r].pc = "send" /\ chat \in Chats
      /\ inbox \in [Chats -> Seq(Message)]
      /\ UNCHANGED <<pushLogs, pending>>
  BY DEF SendMessage, TypeInv, TypeOK, GoodTask, WithChat, store
<1>3. /\ t.pc = "log" /\ t.try = task[r].try /\ t.scan = task[r].scan /\ t.chat = chat
      /\ t.delivery = result /\ t.included = task[r].included
  BY <1>2 DEF Task
<1>4. m.run = r /\ m.try = t.try /\ m.scan = t.scan
  BY <1>3
<1>5. task'[r] = t /\ \A q \in Runs : q # r => task'[q] = task[q]
  BY <1>1, ContinueIncluded
<1>6. task[r].try \in Nat
  BY <1>2, BoundsAssumption DEF Task
<1>7. inbox' = IF delivered THEN [inbox EXCEPT ![chat] = Append(@, m)] ELSE inbox
  BY <1>1
<1> HIDE DEF m, t
<1>8. \A c \in Chats :
        /\ \A i \in DOMAIN inbox[c] : i \in DOMAIN inbox'[c] /\ inbox'[c][i] = inbox[c][i]
        /\ \A i \in DOMAIN inbox'[c] :
              i \in DOMAIN inbox[c] \/ (delivered /\ c = chat /\ inbox'[c][i] = m)
  <2>1. CASE ~delivered
    BY <1>7, <2>1
  <2>2. CASE delivered
    <3>1. inbox'[chat] = Append(inbox[chat], m) /\ \A c \in Chats : c # chat => inbox'[c] = inbox[c]
      BY <1>2, <1>7, <2>2
    <3>2. inbox[chat] \in Seq(Message)
      BY <1>2
    <3> DEFINE old == inbox[chat]
    <3> HIDE DEF old
    <3>3. ASSUME old \in Seq(Message)
          PROVE  /\ \A i \in DOMAIN old : i \in DOMAIN Append(old, m) /\ Append(old, m)[i] = old[i]
                 /\ \A i \in DOMAIN Append(old, m) : i \in DOMAIN old \/ Append(old, m)[i] = m
      BY <3>3
    <3> QED BY <2>2, <3>1, <3>2, <3>3 DEF old
  <2> QED BY <2>1, <2>2
<1>9. InboxGrows(r)
  BY <1>4, <1>8 DEF InboxGrows
<1>10. VisibleLogs(r)' = VisibleLogs(r) /\ RunLogs(r)
  BY <1>2 DEF VisibleLogs, LogInv
<1>11. AllSentTrue(VisibleLogs(r))'
  BY <1>9, <1>10, SentLogsStay DEF RunLogs, AllSentTrue
<1>12. result = "sent" => SentLogIsTrue(CurrentLog(r))'
  <2> SUFFICES ASSUME result = "sent" PROVE SentLogIsTrue(CurrentLog(r))'
    OBVIOUS
  <2>1. delivered
    BY <1>1 DEF PossibleAnswer
  <2>2. inbox'[chat] = Append(inbox[chat], m) /\ inbox[chat] \in Seq(Message)
    BY <1>2, <1>7, <2>1
  <2>3. \E i \in DOMAIN inbox'[chat] : inbox'[chat][i] = m
    <3>1. Len(inbox[chat]) + 1 \in DOMAIN Append(inbox[chat], m)
          /\ Append(inbox[chat], m)[Len(inbox[chat]) + 1] = m
      BY <2>2
    <3> QED BY <2>2, <3>1
  <2>4. [run |-> r, try |-> task'[r].try, scan |-> task'[r].scan,
         signals |-> task'[r].included] = m
    BY <1>3, <1>5 DEF m
  <2>5. task'[r].chat = chat
    BY <1>3, <1>5
  <2> QED BY <2>3, <2>4, <2>5 DEF SentLogIsTrue, CurrentLog
<1>13. ASSUME NEW c \in Chats, NEW i \in DOMAIN inbox'[c], inbox'[c][i].run = r
       PROVE  MessageInOrder(t, VisibleLogs(r)', pushLogs', c, inbox'[c][i])
  <2>1. CASE i \in DOMAIN inbox[c]
    <3>1. MessageInOrder(task[r], VisibleLogs(r), pushLogs, c, inbox[c][i])
      BY <1>8, <1>10, <1>13, <2>1 DEF RunLogs, RunMessages
    <3> QED BY <1>2, <1>3, <1>8, <1>10, <2>1, <3>1 DEF MessageInOrder, Told, Unsent
  <2>2. CASE inbox'[c][i] = m /\ c = chat
    BY <1>3, <1>4, <1>6, <2>2 DEF MessageInOrder, Told
  <2> QED BY <1>8, <2>1, <2>2
<1>14. RunLogs(r)'
  BY <1>3, <1>5, <1>11, <1>12, <1>13 DEF RunLogs, RunMessages
<1> QED
  BY <1>2, <1>5, <1>9, <1>14, LogsApart DEF VisibleLogs

\* The log written next is the one the last message was waiting for.
LEMMA RecordLogs == ASSUME TypeInv, LogInv, NEW r \in Runs, RecordPush(r) PROVE LogInv'
<1> DEFINE t == [task[r] EXCEPT !.pc = "reports",
                   !.p0Left = P0SignalsToReport(task[r].included, task[r].delivery)]
           log == CurrentLog(r)
<1>1. /\ Continue(r, t) /\ Add(r, {log}, {})
      /\ task[r].pc = "log" /\ UNCHANGED <<pushLogs, inbox>>
  BY DEF RecordPush, store
<1>2. t.pc = "reports" /\ t.try = task[r].try
  BY DEF TypeInv, TypeOK, Task
<1> HIDE DEF t
<1>3. /\ task'[r] = t /\ \A q \in Runs : q # r => task'[q] = task[q]
      /\ \A q \in Runs : q # r => pending'[q] = pending[q]
  BY <1>1, ContinueIncluded DEF Add, TypeInv, TypeOK
<1>4. VisibleLogs(r)' = VisibleLogs(r) \cup {log}
  BY <1>1 DEF VisibleLogs, Add, TypeInv, TypeOK
<1>5. /\ log.run = r /\ log.try = task[r].try /\ log.chat = task[r].chat
      /\ log.scan = task[r].scan /\ log.status = task[r].delivery
  BY DEF CurrentLog
<1> HIDE DEF log
<1>6. InboxGrows(r) /\ RunLogs(r)
  BY <1>1 DEF InboxGrows, LogInv
<1>7. AllSentTrue(VisibleLogs(r))'
  <2>1. log.status = "sent" => SentLogIsTrue(log)
    BY <1>1, <1>5, <1>6 DEF RunLogs, log
  <2>2. \A l : SentLogIsTrue(l) => SentLogIsTrue(l)'
    BY <1>1 DEF SentLogIsTrue
  <2> QED BY <1>4, <1>6, <2>1, <2>2 DEF AllSentTrue, RunLogs
<1>8. ASSUME NEW c \in Chats, NEW i \in DOMAIN inbox[c], inbox[c][i].run = r
      PROVE  MessageInOrder(t, VisibleLogs(r)', pushLogs', c, inbox[c][i])
  <2> DEFINE m == inbox[c][i]
  <2>1. MessageInOrder(task[r], VisibleLogs(r), pushLogs, c, m) /\ m.run = r
    BY <1>6, <1>8 DEF RunLogs, RunMessages
  <2> HIDE DEF m
  <2> QED BY <1>1, <1>2, <1>4, <1>5, <2>1 DEF MessageInOrder, Told, LogOf, Unsent, m
<1>9. RunLogs(r)'
  BY <1>1, <1>2, <1>3, <1>7, <1>8 DEF RunLogs, RunMessages
<1> QED
  BY <1>1, <1>3, <1>6, <1>9, LogsApart DEF VisibleLogs

\* A new attempt starts with no message of its own.
LEMMA RetryLogs == ASSUME TypeInv, LogInv, NEW r \in Runs, Retry(r) PROVE LogInv'
<1> DEFINE t == Fresh(task[r].try + 1)
<1>1. Continue(r, t) /\ UNCHANGED <<pushLogs, pending, inbox>>
  BY DEF Retry, store
<1>2. t.pc = "idle" /\ t.try = task[r].try + 1 /\ task[r].try \in Nat
  BY BoundsAssumption DEF Fresh, TypeInv, TypeOK, Task
<1> HIDE DEF t
<1>3. task'[r] = t /\ \A q \in Runs : q # r => task'[q] = task[q]
  BY <1>1, ContinueIncluded
<1>4. VisibleLogs(r)' = VisibleLogs(r) /\ InboxGrows(r) /\ RunLogs(r)
  BY <1>1 DEF VisibleLogs, InboxGrows, LogInv
<1>5. AllSentTrue(VisibleLogs(r))'
  BY <1>4, SentLogsStay DEF RunLogs, AllSentTrue
<1>6. ASSUME NEW c \in Chats, NEW i \in DOMAIN inbox[c], inbox[c][i].run = r
      PROVE  MessageInOrder(t, VisibleLogs(r)', pushLogs', c, inbox[c][i])
  <2>1. inbox[c][i].try <= task[r].try
    BY <1>4, <1>6 DEF RunLogs, RunMessages, MessageInOrder
  <2>2. inbox[c] \in Seq(Message)
    BY DEF TypeInv, TypeOK
  <2>3. inbox[c][i] \in Message
    BY <1>6, <2>2
  <2>4. inbox[c][i].try \in Nat
    BY <2>3, BoundsAssumption DEF Message
  <2> QED BY <1>2, <2>1, <2>4 DEF MessageInOrder
<1>7. RunLogs(r)'
  BY <1>1, <1>2, <1>3, <1>5, <1>6 DEF RunLogs, RunMessages
<1> QED
  BY <1>1, <1>3, <1>4, <1>7, LogsApart DEF VisibleLogs

\* Every step keeps the logs and the messages in order.
LEMMA LogInvNext == TypeInv /\ LogInv /\ [Next]_vars => LogInv'
<1> SUFFICES ASSUME TypeInv, LogInv, [Next]_vars PROVE LogInv'
  OBVIOUS
<1> USE DEF store
<1>a. \A r \in Runs : task[r] \in Task /\ task[r].pc \in Phases
  BY DEF TypeInv, TypeOK, Task
<1>b. ASSUME UNCHANGED <<pushLogs, pending, task, inbox>> PROVE LogInv'
  BY <1>b DEF LogInv, RunLogs, RunMessages, AllSentTrue, VisibleLogs, SentLogIsTrue, CurrentLog
<1>c. ASSUME NEW r \in Runs, NEW t, Continue(r, t), t.try = task[r].try, t.pc # "log",
             UNCHANGED <<pushLogs, pending, inbox>>,
             \/ t.pc = "review" /\ task[r].pc \in Unsent
             \/ t.pc \notin Unsent \cup {"done"} /\ task[r].pc \notin {"done", "failed", "lost", "log"}
      PROVE LogInv'
  <2>1. Proceeds(r, t) /\ VisibleLogs(r)' = VisibleLogs(r)
    BY <1>c DEF Proceeds, VisibleLogs, Unsent
  <2> QED BY <1>c, <2>1, LogStep
<1>d. ASSUME NEW r \in Runs, NEW t, Continue(r, t), t.try = task[r].try, t.pc # "log",
             Commit(r), UNCHANGED inbox,
             \/ t.pc = "review" /\ task[r].pc \in Unsent
             \/ t.pc \notin Unsent \cup {"done"} /\ task[r].pc \notin {"done", "failed", "lost", "log"}
      PROVE LogInv'
  <2>1. Proceeds(r, t)
    BY <1>d, CommittedLogs DEF Proceeds, Unsent
  <2> QED BY <1>d, <2>1, CommittedLogs, LogStep
<1>e. ASSUME NEW r \in Runs, Leave(r, "done"), task[r].pc \in Unsent,
             UNCHANGED <<pushLogs, pending, inbox>>
      PROVE LogInv'
  BY <1>e, LogLeave DEF VisibleLogs
<1>1. ASSUME NEW r \in Runs, ReturnEmpty(r) PROVE LogInv'
  BY <1>1, <1>e DEF ReturnEmpty, CanStart, Unsent
<1>2. ASSUME NEW r \in Runs, NEW recipients \in SUBSET Chats, NEW dry \in BOOLEAN,
             Begin(r, recipients, dry)
      PROVE LogInv'
  <2>1. PICK k \in scans : Continue(r,
            [task[r] EXCEPT !.pc = "review", !.scan = k, !.dry = dry,
                            !.queue = recipients,
                            !.toReview = IF k \in readable THEN SignalsOf[k] ELSE {}])
    BY <1>2 DEF Begin
  <2> DEFINE t == [task[r] EXCEPT !.pc = "review", !.scan = k, !.dry = dry,
                            !.queue = recipients,
                            !.toReview = IF k \in readable THEN SignalsOf[k] ELSE {}]
  <2>2. t.pc = "review" /\ t.try = task[r].try
    BY <1>a DEF Task
  <2>3. Continue(r, t)
    BY <2>1
  <2> HIDE DEF t
  <2> QED BY <1>2, <1>c, <2>2, <2>3 DEF Begin, CanStart, Unsent
<1>3. ASSUME NEW r \in Runs, ReviewSignal(r) PROVE LogInv'
  <2>1. PICK s \in task[r].toReview :
          Continue(r, [task[r] EXCEPT !.toReview = @ \ {s},
                                         !.included = AfterReview(@, s)])
    BY <1>3 DEF ReviewSignal
  <2> DEFINE t == [task[r] EXCEPT !.toReview = @ \ {s},
                                         !.included = AfterReview(@, s)]
  <2>2. t.pc = "review" /\ t.try = task[r].try
    BY <1>3, <1>a DEF ReviewSignal, Task
  <2>3. Continue(r, t)
    BY <2>1
  <2> HIDE DEF t
  <2> QED BY <1>3, <1>d, <2>2, <2>3 DEF ReviewSignal, Unsent
<1>4. ASSUME NEW r \in Runs, ComposeMessage(r) PROVE LogInv'
  <2>1. CASE Leave(r, "done")
    BY <1>4, <1>e, <2>1 DEF ComposeMessage, Unsent
  <2>2. CASE ~Leave(r, "done")
    <3> DEFINE t == [task[r] EXCEPT !.pc = "next",
                       !.included = IncludedPushSignals(task[r].included, task[r].dry)]
    <3>1. Continue(r, t) /\ t.pc = "next" /\ t.try = task[r].try
      BY <1>4, <1>a, <2>2 DEF ComposeMessage, Task
    <3> HIDE DEF t
    <3> QED BY <1>4, <1>c, <3>1 DEF ComposeMessage, Unsent
  <2> QED BY <2>1, <2>2
<1>5. ASSUME NEW r \in Runs, NextRecipient(r) PROVE LogInv'
  <2>1. PICK c \in task[r].queue :
          Continue(r, [task[r] EXCEPT !.queue = @ \ {c}, !.chat = c,
                         !.pc = IF c \in users THEN AfterUser(r) ELSE "create_user"])
    BY <1>5 DEF NextRecipient
  <2> DEFINE t == [task[r] EXCEPT !.queue = @ \ {c}, !.chat = c,
                         !.pc = IF c \in users THEN AfterUser(r) ELSE "create_user"]
  <2>2. t.pc \in {"next", "dedupe", "create_user"} /\ t.try = task[r].try
    BY <1>a DEF AfterUser, Task
  <2>3. Continue(r, t)
    BY <2>1
  <2> HIDE DEF t
  <2> QED BY <1>5, <1>c, <2>2, <2>3 DEF NextRecipient, Unsent
<1>6. ASSUME NEW r \in Runs, CreateUser(r) PROVE LogInv'
  <2>1. CASE task[r].chat \in users
    <3>1. /\ Leave(r, "failed") /\ pending' = [pending EXCEPT ![r] = NoRows]
          /\ UNCHANGED <<pushLogs, inbox>>
      BY <1>6, <2>1 DEF CreateUser
    <3> QED BY <3>1, RolledBackLogs, LogLeave
  <2>2. CASE task[r].chat \notin users
    <3> DEFINE t == [task[r] EXCEPT !.pc = AfterUser(r)]
    <3>1. Continue(r, t) /\ Commit(r) /\ t.pc \in {"next", "dedupe"} /\ t.try = task[r].try
      BY <1>6, <1>a, <2>2 DEF CreateUser, AfterUser, Task
    <3> HIDE DEF t
    <3> QED BY <1>6, <1>d, <3>1 DEF CreateUser, Unsent
  <2> QED BY <2>1, <2>2
<1>7. ASSUME NEW r \in Runs, CheckDuplicate(r) PROVE LogInv'
  <2> DEFINE t == [task[r] EXCEPT !.pc =
                        IF ExistingSuccessfulPushLog(r) THEN "next" ELSE "send"]
  <2>1. Continue(r, t) /\ t.pc \in {"next", "send"} /\ t.try = task[r].try
    BY <1>7, <1>a DEF CheckDuplicate, Task
  <2> HIDE DEF t
  <2> QED BY <1>7, <1>c, <2>1 DEF CheckDuplicate, Unsent
<1>8. ASSUME NEW r \in Runs, SendMessage(r) PROVE LogInv'
  BY <1>8, SendLogs
<1>9. ASSUME NEW r \in Runs, RecordPush(r) PROVE LogInv'
  BY <1>9, RecordLogs
<1>10. ASSUME NEW r \in Runs, EnsureReport(r) PROVE LogInv'
  <2>1. PICK s \in task[r].p0Left :
          Continue(r, [task[r] EXCEPT !.p0Left = @ \ {s}, !.signal = s,
                         !.pc = IF FindExistingSignalReport(r, s)
                                THEN "reports" ELSE "publish"])
    BY <1>10 DEF EnsureReport
  <2> DEFINE t == [task[r] EXCEPT !.p0Left = @ \ {s}, !.signal = s,
                         !.pc = IF FindExistingSignalReport(r, s)
                                THEN "reports" ELSE "publish"]
  <2>2. t.pc \in {"reports", "publish"} /\ t.try = task[r].try
    BY <1>a DEF Task
  <2>3. Continue(r, t)
    BY <2>1
  <2> HIDE DEF t
  <2> QED BY <1>10, <1>c, <2>2, <2>3 DEF EnsureReport, Unsent
<1>11. ASSUME NEW r \in Runs, ReviewForReport(r) PROVE LogInv'
  <2> DEFINE t == [task[r] EXCEPT !.pc = IF Verdict[task[r].signal] = "blocked"
                                                  THEN "reports" ELSE "add_report"]
  <2>1. Continue(r, t) /\ t.pc \in {"reports", "add_report"} /\ t.try = task[r].try
    BY <1>11, <1>a DEF ReviewForReport, Task
  <2> HIDE DEF t
  <2> QED BY <1>11, <1>d, <2>1 DEF ReviewForReport, Unsent
<1>12. ASSUME NEW r \in Runs, AddReport(r) PROVE LogInv'
  <2> DEFINE t == [task[r] EXCEPT !.pc = "reports"]
  <2>1. /\ Continue(r, t) /\ Add(r, {}, {CurrentReport(r)})
        /\ t.pc = "reports" /\ t.try = task[r].try /\ task[r].pc = "add_report"
        /\ UNCHANGED <<pushLogs, inbox>>
    BY <1>12, <1>a DEF AddReport, Task
  <2> HIDE DEF t
  <2>2. /\ \A q \in Runs : q # r => pending'[q] = pending[q]
        /\ VisibleLogs(r)' = VisibleLogs(r)
    BY <2>1 DEF Add, TypeInv, TypeOK, VisibleLogs
  <2>3. Proceeds(r, t)
    BY <2>1, <2>2 DEF Proceeds, Unsent
  <2> QED BY <2>1, <2>2, <2>3, LogStep
<1>13. ASSUME NEW r \in Runs, RecipientDone(r) PROVE LogInv'
  <2> DEFINE t == [task[r] EXCEPT !.pc = "next"]
  <2>1. Continue(r, t) /\ t.pc = "next" /\ t.try = task[r].try
    BY <1>13, <1>a DEF RecipientDone, Task
  <2> HIDE DEF t
  <2> QED BY <1>13, <1>c, <2>1 DEF RecipientDone, Unsent
<1>14. ASSUME NEW r \in Runs, Finish(r) PROVE LogInv'
  <2>1. Leave(r, "done") /\ Commit(r) /\ task[r].pc = "next" /\ UNCHANGED inbox
    BY <1>14 DEF Finish
  <2> QED BY <2>1, CommittedLogs, LogLeave
<1>15. ASSUME NEW r \in Runs, Interrupt(r) PROVE LogInv'
  <2>1. PICK phase \in {"failed", "lost"} :
            /\ Leave(r, phase) /\ pending' = [pending EXCEPT ![r] = NoRows]
            /\ UNCHANGED <<pushLogs, inbox>>
    BY <1>15 DEF Interrupt
  <2> QED BY <2>1, RolledBackLogs, LogLeave
<1>16. ASSUME NEW r \in Runs, Retry(r) PROVE LogInv'
  BY <1>16, RetryLogs
<1>17. CASE Environment
  BY <1>17, <1>b DEF Environment, ScanStarts, ScanCommits, OtherRequestCreatesUser
<1>18. CASE UNCHANGED vars
  BY <1>18, <1>b DEF vars
<1> QED
  BY <1>1, <1>2, <1>3, <1>4, <1>5, <1>6, <1>7, <1>8, <1>9, <1>10, <1>11, <1>12,
     <1>13, <1>14, <1>15, <1>16, <1>17, <1>18 DEF Next, Start, Work, Quiescent

\* However the runs overlap, fail and start again: a committed log that says "sent" is
\* true, and a run that returned normally has committed a log of every message of its
\* attempt.
THEOREM LogsCorrect == Spec => []LogsMatchDeliveries
<1>1. Init => LogInv
  BY DEF Init, LogInv, RunLogs, RunMessages, AllSentTrue, VisibleLogs, NoRows, Fresh
<1>2. LogInv => LogsMatchDeliveries
  <2> SUFFICES ASSUME LogInv PROVE LogsMatchDeliveries
    OBVIOUS
  <2>1. ASSUME NEW r \in Runs, task[r].pc = "done", NEW c \in Chats, NEW i \in DOMAIN inbox[c]
        PROVE  DeliveryIsLogged(r, c, inbox[c][i])
    <3> SUFFICES ASSUME inbox[c][i].run = r, inbox[c][i].try = task[r].try
                 PROVE  DeliveryIsLogged(r, c, inbox[c][i])
      BY DEF DeliveryIsLogged
    <3> DEFINE m == inbox[c][i]
    <3>1. Told(task[r], VisibleLogs(r), pushLogs, c, m)
      BY DEF LogInv, RunLogs, RunMessages, MessageInOrder
    <3> HIDE DEF m
    <3>2. \E l \in pushLogs : LogOf(l, c, m)
      BY <2>1, <3>1 DEF Told
    <3> QED BY <3>2 DEF LogOf, DeliveryIsLogged, m
  <2> QED BY <2>1 DEF LogInv, AllSentTrue, LogsMatchDeliveries
<1> QED
  BY <1>1, <1>2, TypeAlways, LogInvNext, PTL DEF Spec

-----------------------------------------------------------------------------
\* Every log there is, committed or not.
AllLogs == {l \in PushLog : l \in pushLogs \/ \E r \in Runs : l \in pending[r].logs}

\* Row or message y is of an earlier attempt of the run in state t, or of this
\* one and then of the scan it pushes.
OfAttempt(t, y) ==
    /\ y.try <= t.try
    /\ y.try = t.try => t.pc # "idle" /\ (t.pc \notin Settled => y.scan = t.scan)
SameAttempt(x, y) == x.run = y.run /\ x.try = y.try
\* A run that has chosen its recipient and has sent nothing to it yet.
BeforeSending == {"create_user", "dedupe", "send"}

Alone == \A q, r \in Runs : task[q].pc \notin Settled /\ task[r].pc \notin Settled => q = r
\* A session holds logs only between its run's first message and its end.
Unlogged == Settled \cup {"review"}
NoLogsYet == \A r \in Runs : task[r].pc \in Unlogged => pending[r].logs = {}
AttemptsInOrder ==
    /\ \A l \in AllLogs : OfAttempt(task[l.run], l)
    /\ \A c \in Chats : \A i \in DOMAIN inbox[c] : OfAttempt(task[inbox[c][i].run], inbox[c][i])
\* An attempt pushes one scan.
OneScan ==
    \A c \in Chats : \A i \in DOMAIN inbox[c] : \A l \in AllLogs :
        SameAttempt(l, inbox[c][i]) => l.scan = inbox[c][i].scan
\* RepeatsOnlyUnrecorded, the logs that are not committed included.
NoRecordedRepeat ==
    \A c \in Chats : \A i, j \in DOMAIN inbox[c] :
        i < j /\ inbox[c][i].scan = inbox[c][j].scan =>
            \A l \in AllLogs : l.chat = c /\ l.status \in Successful =>
                ~SameAttempt(l, inbox[c][i])
\* Before it sends, a run has seen no success for its chat and scan; after it,
\* only the last message of the chat can be of its attempt; and it has sent
\* nothing to the recipients it still has to serve.
SendsOnce(r) ==
    /\ task[r].pc = "send" => \A l \in AllLogs :
          ~(l.chat = task[r].chat /\ l.scan = task[r].scan /\ l.status \in Successful)
    /\ task[r].pc = "log" => \A i, j \in DOMAIN inbox[task[r].chat] :
          i < j => ~(/\ inbox[task[r].chat][i].run = r
                     /\ inbox[task[r].chat][i].try = task[r].try)
    /\ task[r].pc \notin Settled => \A c \in Chats : \A i \in DOMAIN inbox[c] :
          inbox[c][i].run = r /\ inbox[c][i].try = task[r].try =>
              c \notin task[r].queue /\ (c = task[r].chat => task[r].pc \notin BeforeSending)
    /\ task[r].pc \in BeforeSending => task[r].chat \notin task[r].queue

SerialInv ==
    /\ Alone /\ NoLogsYet
    /\ AttemptsInOrder /\ OneScan /\ NoRecordedRepeat
    /\ \A r \in Runs : SendsOnce(r)

\* Messages and logs are typed: their runs exist, their attempts are numbers.
LEMMA TypedRows ==
    ASSUME TypeInv
    PROVE  /\ \A l \in AllLogs : l.run \in Runs /\ l.try \in Nat /\ l.chat \in Chats
           /\ \A c \in Chats : inbox[c] \in Seq(Message)
           /\ \A c \in Chats : \A i \in DOMAIN inbox[c] :
                 i \in Nat /\ inbox[c][i].run \in Runs /\ inbox[c][i].try \in Nat
           /\ \A r \in Runs : task[r].try \in Nat /\ task[r] \in Task
<1>1. \A l \in PushLog : l.run \in Runs /\ l.try \in Nat /\ l.chat \in Chats
  BY BoundsAssumption DEF PushLog
<1>2. \A m \in Message : m.run \in Runs /\ m.try \in Nat
  BY BoundsAssumption DEF Message
<1>3. \A c \in Chats : inbox[c] \in Seq(Message)
  BY DEF TypeInv, TypeOK
<1>4. \A c \in Chats : \A i \in DOMAIN inbox[c] : i \in Nat /\ inbox[c][i] \in Message
  BY <1>3
<1>5. \A r \in Runs : task[r].try \in Nat /\ task[r] \in Task
  BY BoundsAssumption DEF TypeInv, TypeOK, Task
<1> QED BY <1>1, <1>2, <1>3, <1>4, <1>5 DEF AllLogs

\* How a step that neither sends nor logs changes the state of its run.
AttemptGoes(r, t) ==
    \/ t.try > task[r].try /\ t.pc = "idle"
    \/ t.try = task[r].try /\ t.pc \in {"done", "failed", "lost"}
    \/ t.try = task[r].try /\ t.pc = "review" /\ task[r].pc = "idle"
    \/ /\ t.try = task[r].try /\ t.pc \notin Settled \cup {"log"} /\ task[r].pc \notin Settled
       /\ t.scan = task[r].scan /\ t.queue \subseteq task[r].queue
       /\ t.pc \in BeforeSending =>
             /\ t.chat \notin t.queue
             /\ \/ t.chat \in task[r].queue
                \/ t.chat = task[r].chat /\ task[r].pc \in BeforeSending

\* A step of run r that neither sends nor logs.
LEMMA QuietStep ==
    ASSUME TypeInv, SerialInv, NEW r \in Runs, NEW t, Continue(r, t), UNCHANGED inbox,
           t.try \in Nat, AllLogs' \subseteq AllLogs,
           \A q \in Runs : q # r => pending'[q] = pending[q],
           t.pc \in Unlogged => pending'[r].logs = {},
           t.pc \notin Settled /\ task[r].pc \in Settled => \A q \in Runs : task[q].pc \in Settled,
           AttemptGoes(r, t),
           t.pc = "send" => \A l \in AllLogs :
               ~(l.chat = t.chat /\ l.scan = t.scan /\ l.status \in Successful)
    PROVE  SerialInv'
<1>1. \A q \in Runs : task'[q] = IF q = r THEN t ELSE task[q]
  BY ContinueIncluded
<1>2. Alone' /\ NoLogsYet'
  <2>1. t.pc \notin Settled /\ task[r].pc \notin Settled =>
            \A q \in Runs : q # r => task[q].pc \in Settled
    BY DEF SerialInv, Alone
  <2>2. Alone'
    BY <1>1, <2>1 DEF SerialInv, Alone
  <2>3. NoLogsYet'
    BY <1>1 DEF SerialInv, NoLogsYet
  <2> QED BY <2>2, <2>3
<1>3. ASSUME NEW y, y.run \in Runs, y.try \in Nat, OfAttempt(task[y.run], y)
      PROVE  OfAttempt(task'[y.run], y)
  <2>1. CASE y.run # r
    BY <1>1, <1>3, <2>1
  <2>2. CASE y.run = r
    <3>1. task'[r] = t /\ OfAttempt(task[r], y) /\ task[r].try \in Nat
      BY <1>1, <1>3, <2>2, TypedRows
    <3> QED BY <1>3, <2>2, <3>1 DEF OfAttempt, AttemptGoes, Settled
  <2> QED BY <2>1, <2>2
<1>4. AttemptsInOrder'
  BY <1>3, TypedRows DEF SerialInv, AttemptsInOrder
<1>5. OneScan' /\ NoRecordedRepeat'
  BY DEF SerialInv, OneScan, NoRecordedRepeat
<1>6. ASSUME NEW q \in Runs, q # r PROVE SendsOnce(q)'
  <2>1. task'[q] = task[q] /\ SendsOnce(q)
    BY <1>1, <1>6 DEF SerialInv
  <2> QED BY <2>1 DEF SendsOnce
<1>7. ASSUME t.pc \notin Settled, NEW c \in Chats, NEW i \in DOMAIN inbox[c],
             inbox[c][i].run = r, inbox[c][i].try = t.try
      PROVE  c \notin t.queue /\ (c = t.chat => t.pc \notin BeforeSending)
  <2>1. OfAttempt(task[r], inbox[c][i]) /\ task[r].try \in Nat
    BY <1>7, TypedRows DEF SerialInv, AttemptsInOrder
  <2>2. t.try = task[r].try /\ task[r].pc \notin Settled
    BY <1>7, <2>1 DEF AttemptGoes, OfAttempt, Settled
  <2>3. c \notin task[r].queue /\ (c = task[r].chat => task[r].pc \notin BeforeSending)
    BY <1>7, <2>2 DEF SerialInv, SendsOnce
  <2> QED BY <1>7, <2>2, <2>3 DEF AttemptGoes, BeforeSending, Settled
<1>8. SendsOnce(r)'
  <2>1. task'[r] = t /\ t.pc # "log"
    BY <1>1 DEF AttemptGoes, Settled
  <2>2. t.pc = "send" => \A l \in AllLogs' :
            ~(l.chat = t.chat /\ l.scan = t.scan /\ l.status \in Successful)
    OBVIOUS
  <2>3. t.pc \in BeforeSending => t.chat \notin t.queue
    BY DEF AttemptGoes, Settled, BeforeSending
  <2> QED BY <1>7, <2>1, <2>2, <2>3 DEF SendsOnce
<1> QED
  BY <1>2, <1>4, <1>5, <1>6, <1>8 DEF SerialInv

\* A commit and a rollback lose no other run's logs, and add none.
LEMMA CommitLogs ==
    ASSUME TypeInv, NEW r \in Runs, Commit(r)
    PROVE  /\ AllLogs' \subseteq AllLogs /\ pending'[r].logs = {}
           /\ \A q \in Runs : q # r => pending'[q] = pending[q]
<1>1. /\ pending'[r].logs = {} /\ \A q \in Runs : q # r => pending'[q] = pending[q]
      /\ pushLogs' = pushLogs \cup pending[r].logs
  BY DEF Commit, TypeInv, TypeOK, NoRows
<1> QED BY <1>1 DEF AllLogs

\* The same for a rollback.
LEMMA RollbackLogs ==
    ASSUME TypeInv, NEW r \in Runs, pending' = [pending EXCEPT ![r] = NoRows], UNCHANGED pushLogs
    PROVE  /\ AllLogs' \subseteq AllLogs /\ pending'[r].logs = {}
           /\ \A q \in Runs : q # r => pending'[q] = pending[q]
<1>1. pending'[r].logs = {} /\ \A q \in Runs : q # r => pending'[q] = pending[q]
  BY DEF TypeInv, TypeOK, NoRows
<1> QED BY <1>1 DEF AllLogs

\* The run that moves is the only one, and sees every log.
LEMMA SeesAll ==
    ASSUME TypeInv, SerialInv, NEW r \in Runs, task[r].pc \notin Settled
    PROVE  AllLogs = VisibleLogs(r)
<1>1. \A q \in Runs : q # r => pending[q].logs = {}
  BY DEF SerialInv, Alone, NoLogsYet, Unlogged
<1>2. VisibleLogs(r) \subseteq PushLog
  BY DEF VisibleLogs, TypeInv, TypeOK
<1> QED BY <1>1, <1>2 DEF AllLogs, VisibleLogs

\* With at most one run at a time, a run starts only when all are settled.
LEMMA StartsAlone ==
    ASSUME MaxActive = 1, SerialInv, NEW r \in Runs, CanStart(r)
    PROVE  \A q \in Runs : task[q].pc \in Settled
<1>1. IsFiniteSet(Active)
  <2>1. CASE Active = {}
    BY <2>1, FS_EmptySet
  <2>2. CASE Active # {}
    <3>1. PICK q : q \in Active
      BY <2>2
    <3>2. Active = {q}
      BY <3>1 DEF SerialInv, Alone, Active
    <3> QED BY <3>2, FS_Singleton
  <2> QED BY <2>1, <2>2
<1>2. Cardinality(Active) \in Nat /\ Cardinality(Active) < 1
  BY <1>1, FS_CardinalityType DEF CanStart
<1>3. Active = {}
  BY <1>1, <1>2, FS_EmptySet
<1> QED BY <1>3 DEF Active

\* The message that is sent is the first of its attempt in its chat, and no success
\* is on record for its chat and scan.
LEMMA SendSerial == ASSUME TypeInv, SerialInv, NEW r \in Runs, SendMessage(r) PROVE SerialInv'
<1>1. PICK result \in Successful \cup {"failed"}, delivered \in BOOLEAN :
        /\ Continue(r, [task[r] EXCEPT !.pc = "log", !.delivery = result])
        /\ inbox' = IF delivered
                    THEN [inbox EXCEPT ![task[r].chat] = Append(@,
                            [run |-> r, try |-> task[r].try, scan |-> task[r].scan,
                             signals |-> task[r].included])]
                    ELSE inbox
  BY Zenon DEF SendMessage
<1> DEFINE t == [task[r] EXCEPT !.pc = "log", !.delivery = result]
           m == [run |-> r, try |-> task[r].try, scan |-> task[r].scan,
                 signals |-> task[r].included]
           chat == task[r].chat
<1>2. /\ task[r] \in Task /\ task[r].pc = "send" /\ chat \in Chats
      /\ UNCHANGED <<pushLogs, pending>>
  BY DEF SendMessage, TypeInv, TypeOK, GoodTask, WithChat, store
<1>3. /\ t.pc = "log" /\ t.try = task[r].try /\ t.scan = task[r].scan /\ t.chat = chat
      /\ t.queue = task[r].queue
  BY <1>2 DEF Task
<1>4. m.run = r /\ m.try = t.try /\ m.scan = t.scan
  BY <1>3
<1>5. \A q \in Runs : task'[q] = IF q = r THEN t ELSE task[q]
  BY <1>1, ContinueIncluded
<1>6. inbox' = IF delivered THEN [inbox EXCEPT ![chat] = Append(@, m)] ELSE inbox
  BY <1>1
<1>7. inbox \in [Chats -> Seq(Message)] /\ task[r].try \in Nat /\ AllLogs' = AllLogs
  BY <1>2, TypedRows DEF TypeInv, TypeOK, AllLogs
<1> HIDE DEF m, t
\* Old messages stay where they are; a new one comes after all of them.
<1>8. \A c \in Chats :
        /\ \A i \in DOMAIN inbox[c] : i \in DOMAIN inbox'[c] /\ inbox'[c][i] = inbox[c][i]
        /\ \A i \in DOMAIN inbox'[c] : i \in Nat /\
              \/ i \in DOMAIN inbox[c]
              \/ /\ c = chat /\ inbox'[c][i] = m
                 /\ \A j \in DOMAIN inbox'[c] : j # i => j < i /\ j \in DOMAIN inbox[c]
  <2>1. CASE ~delivered
    BY <1>6, <2>1, TypedRows
  <2>2. CASE delivered
    <3>1. inbox'[chat] = Append(inbox[chat], m) /\ \A c \in Chats : c # chat => inbox'[c] = inbox[c]
      BY <1>2, <1>6, <1>7, <2>2
    <3>2. inbox[chat] \in Seq(Message)
      BY <1>2, <1>7
    <3> DEFINE old == inbox[chat]
    <3> HIDE DEF old
    <3>3. ASSUME old \in Seq(Message)
          PROVE  /\ \A i \in DOMAIN old : i \in DOMAIN Append(old, m) /\ Append(old, m)[i] = old[i]
                 /\ \A i \in DOMAIN Append(old, m) : i \in Nat /\
                       \/ i \in DOMAIN old
                       \/ /\ Append(old, m)[i] = m
                          /\ \A j \in DOMAIN Append(old, m) : j # i => j < i /\ j \in DOMAIN old
      BY <3>3
    <3> QED BY <2>2, <3>1, <3>2, <3>3, TypedRows DEF old
  <2> QED BY <2>1, <2>2
<1>9. \A c \in Chats : \A i \in DOMAIN inbox[c] :
        inbox[c][i].run = r /\ inbox[c][i].try = t.try => c \notin t.queue /\ c # chat
  BY <1>2, <1>3 DEF SerialInv, SendsOnce, BeforeSending, Settled
<1>10. \A l \in AllLogs : OfAttempt(task[l.run], l) /\ l.run \in Runs
  BY TypedRows DEF SerialInv, AttemptsInOrder
<1>11. \A l \in AllLogs : SameAttempt(l, m) => l.scan = m.scan
  BY <1>2, <1>3, <1>4, <1>10 DEF OfAttempt, SameAttempt, Settled
<1>12. Alone' /\ NoLogsYet'
  BY <1>2, <1>3, <1>5 DEF SerialInv, Alone, NoLogsYet, Unlogged, Settled
<1>13. \A y : y.run \in Runs /\ OfAttempt(task[y.run], y) => OfAttempt(task'[y.run], y)
  BY <1>2, <1>3, <1>5 DEF OfAttempt, Settled
<1>14. OfAttempt(t, m)
  BY <1>3, <1>4, <1>7 DEF OfAttempt
<1>15. AttemptsInOrder'
  <2>1. \A l \in AllLogs' : OfAttempt(task'[l.run], l)
    BY <1>7, <1>10, <1>13
  <2>2. ASSUME NEW c \in Chats, NEW i \in DOMAIN inbox'[c]
        PROVE  OfAttempt(task'[inbox'[c][i].run], inbox'[c][i])
    <3>1. CASE i \in DOMAIN inbox[c]
      <4>1. inbox[c][i].run \in Runs /\ OfAttempt(task[inbox[c][i].run], inbox[c][i])
        BY <3>1, TypedRows DEF SerialInv, AttemptsInOrder
      <4> QED BY <1>8, <1>13, <3>1, <4>1
    <3>2. CASE inbox'[c][i] = m
      BY <1>4, <1>5, <1>14, <3>2
    <3> QED BY <1>8, <3>1, <3>2
  <2> QED BY <2>1, <2>2 DEF AttemptsInOrder
<1>16. OneScan'
  <2>1. ASSUME NEW c \in Chats, NEW i \in DOMAIN inbox'[c], NEW l \in AllLogs,
               SameAttempt(l, inbox'[c][i])
        PROVE  l.scan = inbox'[c][i].scan
    <3>1. CASE i \in DOMAIN inbox[c]
      BY <1>8, <2>1, <3>1 DEF SerialInv, OneScan
    <3>2. CASE inbox'[c][i] = m
      BY <1>11, <2>1, <3>2
    <3> QED BY <1>8, <3>1, <3>2
  <2> QED BY <1>7, <2>1 DEF OneScan
<1>17. NoRecordedRepeat'
  <2> SUFFICES ASSUME NEW c \in Chats, NEW i \in DOMAIN inbox'[c], NEW j \in DOMAIN inbox'[c],
                      i < j, inbox'[c][i].scan = inbox'[c][j].scan,
                      NEW l \in AllLogs, l.chat = c, l.status \in Successful
               PROVE  ~SameAttempt(l, inbox'[c][i])
    BY <1>7 DEF NoRecordedRepeat
  <2>1. i \in DOMAIN inbox[c] /\ inbox'[c][i] = inbox[c][i]
    BY <1>8
  <2>2. CASE j \in DOMAIN inbox[c]
    BY <1>8, <2>1, <2>2 DEF SerialInv, NoRecordedRepeat
  <2>3. CASE c = chat /\ inbox'[c][j] = m
    <3>1. ~(l.scan = task[r].scan)
      BY <1>2, <2>3 DEF SerialInv, SendsOnce
    <3>2. SameAttempt(l, inbox[c][i]) => l.scan = inbox[c][i].scan
      BY <2>1 DEF SerialInv, OneScan
    <3> QED BY <1>3, <1>4, <2>1, <2>3, <3>1, <3>2
  <2> QED BY <1>8, <2>2, <2>3
<1>18. ASSUME NEW q \in Runs PROVE SendsOnce(q)'
  <2>1. CASE q = r
    <3>1. ASSUME NEW i \in DOMAIN inbox'[chat], NEW j \in DOMAIN inbox'[chat], i < j
          PROVE  ~(inbox'[chat][i].run = r /\ inbox'[chat][i].try = t.try)
      BY <1>2, <1>8, <1>9, <3>1
    <3>2. ASSUME NEW c \in Chats, NEW i \in DOMAIN inbox'[c],
                 inbox'[c][i].run = r, inbox'[c][i].try = t.try
          PROVE  c \notin t.queue
      <4>1. chat \notin t.queue
        BY <1>2, <1>3 DEF SerialInv, SendsOnce, BeforeSending
      <4> QED BY <1>8, <1>9, <3>2, <4>1
    <3> QED BY <1>3, <1>5, <2>1, <3>1, <3>2 DEF SendsOnce, BeforeSending
  <2>2. CASE q # r
    BY <1>2, <1>5, <2>2 DEF SerialInv, Alone, SendsOnce, Settled
  <2> QED BY <2>1, <2>2
<1> QED
  BY <1>12, <1>15, <1>16, <1>17, <1>18 DEF SerialInv

\* The log that is written tells of the last message of its chat, or of none.
LEMMA RecordSerial ==
    ASSUME TypeInv, TypeInv', SerialInv, NEW r \in Runs, RecordPush(r) PROVE SerialInv'
<1> DEFINE t == [task[r] EXCEPT !.pc = "reports",
                   !.p0Left = P0SignalsToReport(task[r].included, task[r].delivery)]
           log == CurrentLog(r)
<1>1. /\ Continue(r, t) /\ Add(r, {log}, {})
      /\ task[r].pc = "log" /\ UNCHANGED <<pushLogs, inbox>>
  BY DEF RecordPush, store
<1>2. /\ t.pc = "reports" /\ t.try = task[r].try /\ t.scan = task[r].scan
      /\ t.queue = task[r].queue
  BY DEF TypeInv, TypeOK, Task
<1> HIDE DEF t
<1>3. /\ \A q \in Runs : task'[q] = IF q = r THEN t ELSE task[q]
      /\ \A q \in Runs : q # r => pending'[q] = pending[q]
      /\ pending'[r].logs = pending[r].logs \cup {log}
  BY <1>1, ContinueIncluded DEF Add, TypeInv, TypeOK
<1>4. /\ log.run = r /\ log.try = task[r].try /\ log.chat = task[r].chat
      /\ log.scan = task[r].scan
  BY DEF CurrentLog
<1> HIDE DEF log
<1>5. AllLogs' \subseteq AllLogs \cup {log}
  BY <1>1, <1>3 DEF AllLogs
<1>6. task[r].try \in Nat
  BY TypedRows
<1>7. Alone' /\ NoLogsYet'
  BY <1>1, <1>2, <1>3 DEF SerialInv, Alone, NoLogsYet, Unlogged, Settled
<1>8. \A y : y.run \in Runs /\ OfAttempt(task[y.run], y) => OfAttempt(task'[y.run], y)
  BY <1>1, <1>2, <1>3 DEF OfAttempt, Settled
<1>9. OfAttempt(task'[log.run], log)
  BY <1>2, <1>3, <1>4, <1>6 DEF OfAttempt
<1>10. AttemptsInOrder'
  <2>1. \A l \in AllLogs : OfAttempt(task'[l.run], l)
    BY <1>8, TypedRows DEF SerialInv, AttemptsInOrder
  <2>2. \A c \in Chats : \A i \in DOMAIN inbox[c] : OfAttempt(task'[inbox[c][i].run], inbox[c][i])
    BY <1>8, TypedRows DEF SerialInv, AttemptsInOrder
  <2> QED BY <1>1, <1>5, <1>9, <2>1, <2>2 DEF AttemptsInOrder
<1>11. ASSUME NEW c \in Chats, NEW i \in DOMAIN inbox[c], SameAttempt(log, inbox[c][i])
       PROVE  log.scan = inbox[c][i].scan
  <2>1. OfAttempt(task[r], inbox[c][i])
    BY <1>4, <1>11 DEF SerialInv, AttemptsInOrder, SameAttempt
  <2> QED BY <1>1, <1>4, <1>11, <2>1 DEF OfAttempt, SameAttempt, Settled
<1>12. OneScan'
  BY <1>1, <1>5, <1>11 DEF SerialInv, OneScan
<1>13. NoRecordedRepeat'
  <2> SUFFICES ASSUME NEW c \in Chats, NEW i \in DOMAIN inbox[c], NEW j \in DOMAIN inbox[c],
                      i < j, inbox[c][i].scan = inbox[c][j].scan,
                      NEW l \in AllLogs \cup {log}, l.chat = c, l.status \in Successful
               PROVE  ~SameAttempt(l, inbox[c][i])
    BY <1>1, <1>5 DEF NoRecordedRepeat
  <2>1. CASE l \in AllLogs
    BY <2>1 DEF SerialInv, NoRecordedRepeat
  <2>2. CASE l = log
    BY <1>1, <1>4, <2>2 DEF SerialInv, SendsOnce, SameAttempt
  <2> QED BY <2>1, <2>2
<1>14. ASSUME NEW q \in Runs PROVE SendsOnce(q)'
  <2>1. CASE q = r
    BY <1>1, <1>2, <1>3, <2>1 DEF SerialInv, SendsOnce, BeforeSending, Settled
  <2>2. CASE q # r
    BY <1>1, <1>3, <2>2 DEF SerialInv, Alone, SendsOnce, Settled
  <2> QED BY <2>1, <2>2
<1> QED
  BY <1>7, <1>10, <1>12, <1>13, <1>14 DEF SerialInv

\* With at most one run at a time, every step keeps the pushes in order.
LEMMA SerialNext ==
    ASSUME MaxActive = 1
    PROVE  TypeInv /\ TypeInv' /\ SerialInv /\ [Next]_vars => SerialInv'
<1> SUFFICES ASSUME TypeInv, TypeInv', SerialInv, [Next]_vars PROVE SerialInv'
  OBVIOUS
<1> USE DEF store
<1>a. \A r \in Runs : /\ task[r] \in Task /\ task[r].pc \in Phases /\ task[r].try \in Nat
                      /\ task[r].pc \in Unlogged => pending[r].logs = {}
  BY TypedRows DEF Task, SerialInv, NoLogsYet
<1>b. UNCHANGED <<pushLogs, pending>> => AllLogs' = AllLogs
  BY DEF AllLogs
<1>c. ASSUME UNCHANGED <<pushLogs, pending, task, inbox>> PROVE SerialInv'
  BY <1>b, <1>c DEF SerialInv, Alone, NoLogsYet, AttemptsInOrder, OneScan,
                    NoRecordedRepeat, SendsOnce
\* The run goes on with the same scan and no new recipient.
<1>d. ASSUME NEW r \in Runs, NEW t, Continue(r, t), task[r].pc \notin Settled,
             t.try = task[r].try, t.scan = task[r].scan, t.queue = task[r].queue,
             t.pc \notin Settled \cup {"log", "send"}, UNCHANGED inbox,
             t.pc = "review" => task[r].pc = "review",
             t.pc \in BeforeSending => t.chat = task[r].chat /\ task[r].pc \in BeforeSending,
             UNCHANGED <<pushLogs, pending>> \/ Commit(r)
      PROVE SerialInv'
  <2>1. AttemptGoes(r, t)
    BY <1>d DEF AttemptGoes, SerialInv, SendsOnce
  <2>2. AllLogs' \subseteq AllLogs /\ \A q \in Runs : q # r => pending'[q] = pending[q]
    BY <1>b, <1>d, CommitLogs
  <2>3. t.pc \in Unlogged => pending'[r].logs = {}
    BY <1>a, <1>d, CommitLogs DEF Unlogged
  <2> QED BY <1>a, <1>d, <2>1, <2>2, <2>3, QuietStep
\* The run is over.
<1>e. ASSUME NEW r \in Runs, NEW phase \in {"done", "failed", "lost"}, Leave(r, phase),
             AllLogs' \subseteq AllLogs, \A q \in Runs : q # r => pending'[q] = pending[q],
             pending'[r].logs = {}, UNCHANGED inbox
      PROVE SerialInv'
  <2> DEFINE t == [Fresh(task[r].try) EXCEPT !.pc = phase]
  <2>1. Continue(r, t) /\ t.try = task[r].try /\ t.pc = phase
    BY <1>e DEF Leave, Fresh
  <2> HIDE DEF t
  <2>2. AttemptGoes(r, t) /\ t.pc \in Settled /\ t.pc # "send"
    BY <2>1 DEF AttemptGoes, Settled
  <2> QED BY <1>a, <1>e, <2>1, <2>2, QuietStep
<1>1. ASSUME NEW r \in Runs, ReturnEmpty(r) PROVE SerialInv'
  <2>1. task[r].pc \in Settled
    BY <1>1 DEF ReturnEmpty, CanStart, Settled
  <2> QED BY <1>1, <1>a, <1>b, <1>e, <2>1 DEF ReturnEmpty, Unlogged
<1>2. ASSUME NEW r \in Runs, NEW recipients \in SUBSET Chats, NEW dry \in BOOLEAN,
             Begin(r, recipients, dry)
      PROVE SerialInv'
  <2>1. PICK k \in scans : Continue(r,
            [task[r] EXCEPT !.pc = "review", !.scan = k, !.dry = dry,
                            !.queue = recipients,
                            !.toReview = IF k \in readable THEN SignalsOf[k] ELSE {}])
    BY <1>2 DEF Begin
  <2> DEFINE t == [task[r] EXCEPT !.pc = "review", !.scan = k, !.dry = dry,
                            !.queue = recipients,
                            !.toReview = IF k \in readable THEN SignalsOf[k] ELSE {}]
  <2>2. Continue(r, t) /\ t.pc = "review" /\ t.try = task[r].try
    BY <1>a, <2>1 DEF Task
  <2> HIDE DEF t
  <2>3. /\ task[r].pc = "idle" /\ UNCHANGED <<pushLogs, pending, inbox>>
        /\ \A q \in Runs : task[q].pc \in Settled
    BY <1>2, StartsAlone DEF Begin, CanStart
  <2>4. AttemptGoes(r, t) /\ t.pc \notin Settled /\ t.pc # "send"
    BY <2>2, <2>3 DEF AttemptGoes, Settled, BeforeSending
  <2> QED BY <1>a, <1>b, <2>2, <2>3, <2>4, QuietStep DEF Unlogged, Settled
<1>3. ASSUME NEW r \in Runs, ReviewSignal(r) PROVE SerialInv'
  <2>1. PICK s \in task[r].toReview :
          Continue(r, [task[r] EXCEPT !.toReview = @ \ {s},
                                         !.included = AfterReview(@, s)])
    BY <1>3 DEF ReviewSignal
  <2> DEFINE t == [task[r] EXCEPT !.toReview = @ \ {s},
                                         !.included = AfterReview(@, s)]
  <2>2. /\ Continue(r, t) /\ t.pc = "review" /\ t.try = task[r].try
        /\ t.scan = task[r].scan /\ t.queue = task[r].queue
    BY <1>3, <1>a, <2>1 DEF ReviewSignal, Task
  <2> HIDE DEF t
  <2> QED BY <1>3, <1>d, <2>2 DEF ReviewSignal, Settled, BeforeSending
<1>4. ASSUME NEW r \in Runs, ComposeMessage(r) PROVE SerialInv'
  <2>1. CASE Leave(r, "done")
    <3>1. pending[r].logs = {}
      BY <1>4, <1>a DEF ComposeMessage, Unlogged
    <3> QED BY <1>4, <1>b, <1>e, <2>1, <3>1 DEF ComposeMessage
  <2>2. CASE ~Leave(r, "done")
    <3> DEFINE t == [task[r] EXCEPT !.pc = "next",
                       !.included = IncludedPushSignals(task[r].included, task[r].dry)]
    <3>1. /\ Continue(r, t) /\ t.pc = "next" /\ t.try = task[r].try
          /\ t.scan = task[r].scan /\ t.queue = task[r].queue
      BY <1>4, <1>a, <2>2 DEF ComposeMessage, Task
    <3> HIDE DEF t
    <3> QED BY <1>4, <1>d, <3>1 DEF ComposeMessage, Settled, BeforeSending
  <2> QED BY <2>1, <2>2
<1>5. ASSUME NEW r \in Runs, NextRecipient(r) PROVE SerialInv'
  <2>1. PICK c \in task[r].queue :
          Continue(r, [task[r] EXCEPT !.queue = @ \ {c}, !.chat = c,
                         !.pc = IF c \in users THEN AfterUser(r) ELSE "create_user"])
    BY <1>5 DEF NextRecipient
  <2> DEFINE t == [task[r] EXCEPT !.queue = @ \ {c}, !.chat = c,
                         !.pc = IF c \in users THEN AfterUser(r) ELSE "create_user"]
  <2>2. /\ Continue(r, t) /\ t.pc \in {"next", "dedupe", "create_user"} /\ t.try = task[r].try
        /\ t.scan = task[r].scan /\ t.queue = task[r].queue \ {c} /\ t.chat = c
        /\ c \in task[r].queue
    BY <1>a, <2>1 DEF AfterUser, Task
  <2> HIDE DEF t
  <2>3. task[r].pc = "next" /\ UNCHANGED <<pushLogs, pending, inbox>>
    BY <1>5 DEF NextRecipient
  <2>4. AttemptGoes(r, t) /\ t.pc \notin Settled /\ task[r].pc \notin Settled /\ t.pc # "send"
    BY <2>2, <2>3 DEF AttemptGoes, Settled
  <2> QED BY <1>a, <1>b, <2>2, <2>3, <2>4, QuietStep DEF Unlogged, Settled
<1>6. ASSUME NEW r \in Runs, CreateUser(r) PROVE SerialInv'
  <2>1. CASE task[r].chat \in users
    <3>1. /\ Leave(r, "failed") /\ pending' = [pending EXCEPT ![r] = NoRows]
          /\ UNCHANGED <<pushLogs, inbox>>
      BY <1>6, <2>1 DEF CreateUser
    <3> QED BY <1>e, <3>1, RollbackLogs
  <2>2. CASE task[r].chat \notin users
    <3> DEFINE t == [task[r] EXCEPT !.pc = AfterUser(r)]
    <3>1. /\ Continue(r, t) /\ Commit(r) /\ t.pc \in {"next", "dedupe"} /\ t.try = task[r].try
          /\ t.scan = task[r].scan /\ t.queue = task[r].queue /\ t.chat = task[r].chat
      BY <1>6, <1>a, <2>2 DEF CreateUser, AfterUser, Task
    <3> HIDE DEF t
    <3> QED BY <1>6, <1>d, <3>1 DEF CreateUser, Settled, BeforeSending
  <2> QED BY <2>1, <2>2
<1>7. ASSUME NEW r \in Runs, CheckDuplicate(r) PROVE SerialInv'
  <2> DEFINE t == [task[r] EXCEPT !.pc =
                        IF ExistingSuccessfulPushLog(r) THEN "next" ELSE "send"]
  <2>1. /\ Continue(r, t) /\ t.pc = IF ExistingSuccessfulPushLog(r) THEN "next" ELSE "send"
        /\ t.try = task[r].try /\ t.scan = task[r].scan
        /\ t.queue = task[r].queue /\ t.chat = task[r].chat
    BY <1>7, <1>a DEF CheckDuplicate, Task
  <2> HIDE DEF t
  <2>2. task[r].pc = "dedupe" /\ UNCHANGED <<pushLogs, pending, inbox>>
    BY <1>7 DEF CheckDuplicate
  <2>3. t.pc = "send" => \A l \in AllLogs :
            ~(l.chat = t.chat /\ l.scan = t.scan /\ l.status \in Successful)
    BY <2>1, <2>2, SeesAll DEF ExistingSuccessfulPushLog, Settled
  <2>4. task[r].chat \notin task[r].queue
    BY <2>2 DEF SerialInv, SendsOnce, BeforeSending
  <2>5. AttemptGoes(r, t) /\ t.pc \notin Settled /\ task[r].pc \notin Settled
    BY <2>1, <2>2, <2>4 DEF AttemptGoes, Settled, BeforeSending
  <2> QED BY <1>a, <1>b, <2>1, <2>2, <2>3, <2>5, QuietStep DEF Unlogged, Settled
<1>8. ASSUME NEW r \in Runs, SendMessage(r) PROVE SerialInv'
  BY <1>8, SendSerial
<1>9. ASSUME NEW r \in Runs, RecordPush(r) PROVE SerialInv'
  BY <1>9, RecordSerial
<1>10. ASSUME NEW r \in Runs, EnsureReport(r) PROVE SerialInv'
  <2>1. PICK s \in task[r].p0Left :
          Continue(r, [task[r] EXCEPT !.p0Left = @ \ {s}, !.signal = s,
                         !.pc = IF FindExistingSignalReport(r, s)
                                THEN "reports" ELSE "publish"])
    BY <1>10 DEF EnsureReport
  <2> DEFINE t == [task[r] EXCEPT !.p0Left = @ \ {s}, !.signal = s,
                         !.pc = IF FindExistingSignalReport(r, s)
                                THEN "reports" ELSE "publish"]
  <2>2. /\ Continue(r, t) /\ t.pc \in {"reports", "publish"} /\ t.try = task[r].try
        /\ t.scan = task[r].scan /\ t.queue = task[r].queue
    BY <1>a, <2>1 DEF Task
  <2> HIDE DEF t
  <2> QED BY <1>10, <1>d, <2>2 DEF EnsureReport, Settled, BeforeSending
<1>11. ASSUME NEW r \in Runs, ReviewForReport(r) PROVE SerialInv'
  <2> DEFINE t == [task[r] EXCEPT !.pc = IF Verdict[task[r].signal] = "blocked"
                                                  THEN "reports" ELSE "add_report"]
  <2>1. /\ Continue(r, t) /\ t.pc \in {"reports", "add_report"} /\ t.try = task[r].try
        /\ t.scan = task[r].scan /\ t.queue = task[r].queue
    BY <1>11, <1>a DEF ReviewForReport, Task
  <2> HIDE DEF t
  <2> QED BY <1>11, <1>d, <2>1 DEF ReviewForReport, Settled, BeforeSending
<1>12. ASSUME NEW r \in Runs, AddReport(r) PROVE SerialInv'
  <2> DEFINE t == [task[r] EXCEPT !.pc = "reports"]
  <2>1. /\ Continue(r, t) /\ Add(r, {}, {CurrentReport(r)}) /\ UNCHANGED <<pushLogs, inbox>>
        /\ t.pc = "reports" /\ t.try = task[r].try /\ task[r].pc = "add_report"
        /\ t.scan = task[r].scan /\ t.queue = task[r].queue
    BY <1>12, <1>a DEF AddReport, Task
  <2> HIDE DEF t
  <2>2. /\ \A q \in Runs : q # r => pending'[q] = pending[q]
        /\ pending'[r].logs = pending[r].logs
    BY <2>1 DEF Add, TypeInv, TypeOK
  <2>3. AllLogs' \subseteq AllLogs
    BY <2>1, <2>2 DEF AllLogs
  <2>4. AttemptGoes(r, t) /\ t.pc \notin Settled /\ task[r].pc \notin Settled /\ t.pc # "send"
    BY <2>1 DEF AttemptGoes, Settled, BeforeSending
  <2> QED BY <1>a, <2>1, <2>2, <2>3, <2>4, QuietStep DEF Unlogged, Settled
<1>13. ASSUME NEW r \in Runs, RecipientDone(r) PROVE SerialInv'
  <2> DEFINE t == [task[r] EXCEPT !.pc = "next"]
  <2>1. /\ Continue(r, t) /\ t.pc = "next" /\ t.try = task[r].try
        /\ t.scan = task[r].scan /\ t.queue = task[r].queue
    BY <1>13, <1>a DEF RecipientDone, Task
  <2> HIDE DEF t
  <2> QED BY <1>13, <1>d, <2>1 DEF RecipientDone, Settled, BeforeSending
<1>14. ASSUME NEW r \in Runs, Finish(r) PROVE SerialInv'
  BY <1>14, <1>e, CommitLogs DEF Finish
<1>15. ASSUME NEW r \in Runs, Interrupt(r) PROVE SerialInv'
  BY <1>15, <1>e, RollbackLogs DEF Interrupt
<1>16. ASSUME NEW r \in Runs, Retry(r) PROVE SerialInv'
  <2> DEFINE t == Fresh(task[r].try + 1)
  <2>1. /\ Continue(r, t) /\ t.pc = "idle" /\ t.try = task[r].try + 1 /\ task[r].pc = "failed"
        /\ UNCHANGED <<pushLogs, pending, inbox>>
    BY <1>16 DEF Retry, Fresh
  <2> HIDE DEF t
  <2>2. AttemptGoes(r, t) /\ t.pc \in Settled /\ t.pc # "send" /\ t.try \in Nat
        /\ task[r].pc \in Settled
    BY <1>a, <2>1 DEF AttemptGoes, Settled
  <2> QED BY <1>a, <1>b, <2>1, <2>2, QuietStep DEF Unlogged, Settled
<1>17. CASE Environment
  BY <1>17, <1>c DEF Environment, ScanStarts, ScanCommits, OtherRequestCreatesUser
<1>18. CASE UNCHANGED vars
  BY <1>18, <1>c DEF vars
<1> QED
  BY <1>1, <1>2, <1>3, <1>4, <1>5, <1>6, <1>7, <1>8, <1>9, <1>10, <1>11, <1>12,
     <1>13, <1>14, <1>15, <1>16, <1>17, <1>18 DEF Next, Start, Work, Quiescent

\* Nothing has been sent or logged initially.
LEMMA SerialInit == Init => SerialInv
BY DEF Init, Fresh, NoRows, SerialInv, Alone, NoLogsYet, Unlogged, Settled, AllLogs,
       AttemptsInOrder, OneScan, NoRecordedRepeat, SendsOnce

\* When runs do not overlap, a chat gets the message of a scan again only when no
\* success was recorded for the earlier one, whatever is interrupted and retried.
THEOREM SerialRepeats ==
    ASSUME MaxActive = 1
    PROVE  Spec => []RepeatsOnlyUnrecorded
<1>1. TypeInv /\ SerialInv => RepeatsOnlyUnrecorded
  <2>1. ASSUME TypeInv PROVE pushLogs \subseteq AllLogs
    BY <2>1 DEF AllLogs, TypeInv, TypeOK
  <2> QED BY <2>1 DEF SerialInv, NoRecordedRepeat, RepeatsOnlyUnrecorded, RecordedSuccess,
                      SameAttempt
<1> QED
  BY <1>1, TypeAlways, SerialInit, SerialNext, PTL DEF Spec

-----------------------------------------------------------------------------
(***************************************************************************)
(* The refinement.  A run pushes a scan that exists, none of its messages  *)
(* follows one of a newer scan, and what it sends and logs are signals of  *)
(* its scan.                                                               *)
(***************************************************************************)
\* Local state t is of a run that pushes signals of a scan in known, or of none.
Carries(t, known) ==
    IF t.pc \in Settled
    THEN t.included = {}
    ELSE t.scan \in known /\ (t.included \cup t.toReview) \subseteq SignalsOf[t.scan]
\* A row that shows signals of its scan.
OfItsScan(l) == l.signals \subseteq SignalsOf[l.scan]
MessagesUpTo(k) == \A c \in Chats : \A i \in DOMAIN inbox[c] : inbox[c][i].scan <= k
ScanInv ==
    /\ \A r \in Runs : Carries(task[r], scans)
    /\ \A r \in Runs : task[r].pc \notin Settled => MessagesUpTo(task[r].scan)
    /\ \A c \in Chats : \A i \in DOMAIN inbox[c] : inbox[c][i].scan \in scans
    /\ \A l \in AllLogs : OfItsScan(l)

\* A step of run r that sends nothing.
LEMMA ScanStep ==
    ASSUME TypeInv, ScanInv, NEW r \in Runs, NEW t, Continue(r, t), UNCHANGED <<inbox, scans>>,
           Carries(t, scans), \A l \in AllLogs' \ AllLogs : OfItsScan(l),
           t.pc \notin Settled => MessagesUpTo(t.scan)
    PROVE  ScanInv'
<1>1. \A q \in Runs : task'[q] = IF q = r THEN t ELSE task[q]
  BY ContinueIncluded
<1>2. \A q \in Runs : Carries(task'[q], scans')
  BY <1>1 DEF ScanInv
<1>3. ASSUME NEW q \in Runs, task'[q].pc \notin Settled PROVE MessagesUpTo(task[q].scan)'
  BY <1>1, <1>3 DEF ScanInv, MessagesUpTo
<1> QED
  BY <1>2, <1>3 DEF ScanInv

\* The message that is sent is of the run's scan, which no other run pushes.
LEMMA ScanSend ==
    ASSUME TypeInv, SerialInv, ScanInv, NEW r \in Runs, SendMessage(r) PROVE ScanInv'
<1> DEFINE m == [run |-> r, try |-> task[r].try, scan |-> task[r].scan,
                 signals |-> task[r].included]
           k == task[r].scan
<1>1. PICK result \in Successful \cup {"failed"}, delivered \in BOOLEAN :
        /\ Continue(r, [task[r] EXCEPT !.pc = "log", !.delivery = result])
        /\ inbox' = IF delivered
                    THEN [inbox EXCEPT ![task[r].chat] = Append(@, m)]
                    ELSE inbox
  BY Zenon DEF SendMessage
<1> DEFINE t == [task[r] EXCEPT !.pc = "log", !.delivery = result]
<1>2. /\ task[r] \in Task /\ task[r].pc = "send"
      /\ UNCHANGED <<scans, pushLogs, pending>>
  BY DEF SendMessage, TypeInv, TypeOK, store
<1>3. /\ t.pc = "log" /\ t.scan = k /\ t.included = task[r].included
      /\ t.toReview = task[r].toReview /\ m.scan = k
  BY <1>2 DEF Task
<1>4. \A q \in Runs : task'[q] = IF q = r THEN t ELSE task[q]
  BY <1>1, ContinueIncluded
<1> HIDE DEF m, t
<1>5. Carries(task[r], scans) /\ k \in scans /\ k \in Nat
  BY <1>2, IdsAssumption DEF ScanInv, Carries, Settled, TypeInv, TypeOK
<1>6. \A q \in Runs : task'[q].pc \notin Settled => q = r
  BY <1>2, <1>4 DEF SerialInv, Alone, Settled
<1>7. \A c \in Chats : \A i \in DOMAIN inbox'[c] :
        \/ i \in DOMAIN inbox[c] /\ inbox'[c][i] = inbox[c][i]
        \/ inbox'[c][i] = m
  <2>1. CASE ~delivered
    BY <1>1, <2>1
  <2>2. CASE delivered
    <3>1. inbox' = [inbox EXCEPT ![task[r].chat] = Append(@, m)]
      BY <1>1, <2>2
    <3>2. inbox \in [Chats -> Seq(Message)] /\ \A c \in Chats : inbox[c] \in Seq(Message)
      BY DEF TypeInv, TypeOK
    <3>3. \A old \in Seq(Message) : \A i \in DOMAIN Append(old, m) :
            \/ i \in DOMAIN old /\ Append(old, m)[i] = old[i]
            \/ Append(old, m)[i] = m
      OBVIOUS
    <3> QED BY <3>1, <3>2, <3>3
  <2> QED BY <2>1, <2>2
<1>8. \A c \in Chats : \A i \in DOMAIN inbox[c] :
        inbox[c][i].scan \in scans /\ inbox[c][i].scan <= k
  BY <1>2 DEF ScanInv, MessagesUpTo, Settled
<1>9. \A c \in Chats : \A i \in DOMAIN inbox'[c] :
        inbox'[c][i].scan \in scans /\ inbox'[c][i].scan <= k
  BY <1>3, <1>5, <1>7, <1>8
<1>10. \A q \in Runs : Carries(task'[q], scans')
  BY <1>2, <1>3, <1>4, <1>5 DEF ScanInv, Carries, Settled
<1>11. AllLogs' = AllLogs
  BY <1>2 DEF AllLogs
<1>12. ASSUME NEW q \in Runs, task'[q].pc \notin Settled PROVE MessagesUpTo(task[q].scan)'
  BY <1>3, <1>4, <1>6, <1>9, <1>12 DEF MessagesUpTo
<1> QED
  BY <1>2, <1>9, <1>10, <1>11, <1>12 DEF ScanInv

\* Every step keeps the messages in the order of the scans.
LEMMA ScanNext ==
    TypeInv /\ SerialInv /\ ScanInv /\ [Next]_vars => ScanInv'
<1> SUFFICES ASSUME TypeInv, SerialInv, ScanInv, [Next]_vars PROVE ScanInv'
  OBVIOUS
<1> USE DEF store
<1>a. \A r \in Runs : task[r] \in Task /\ Carries(task[r], scans)
  BY DEF TypeInv, TypeOK, ScanInv
<1>b. UNCHANGED <<pushLogs, pending>> => AllLogs' = AllLogs
  BY DEF AllLogs
\* The run goes on with the same scan.
<1>d. ASSUME NEW r \in Runs, NEW t, Continue(r, t), UNCHANGED <<inbox, scans>>,
             task[r].pc \notin Settled, t.pc \notin Settled, t.scan = task[r].scan,
             (t.included \cup t.toReview) \subseteq (task[r].included \cup task[r].toReview),
             \A l \in AllLogs' \ AllLogs : OfItsScan(l)
      PROVE ScanInv'
  <2>1. Carries(t, scans) /\ MessagesUpTo(t.scan)
    BY <1>a, <1>d DEF Carries, ScanInv
  <2> QED BY <1>d, <2>1, ScanStep
\* The run is over.
<1>e. ASSUME NEW r \in Runs, NEW phase \in Settled, Leave(r, phase),
             UNCHANGED <<inbox, scans>>, AllLogs' \subseteq AllLogs
      PROVE ScanInv'
  <2> DEFINE t == [Fresh(task[r].try) EXCEPT !.pc = phase]
  <2>1. Continue(r, t) /\ t.pc = phase /\ t.included = {}
    BY <1>e DEF Leave, Fresh
  <2> HIDE DEF t
  <2>2. Carries(t, scans) /\ \A l \in AllLogs' \ AllLogs : OfItsScan(l)
    BY <1>e, <2>1 DEF Carries
  <2> QED BY <1>e, <2>1, <2>2, ScanStep
<1>1. ASSUME NEW r \in Runs, ReturnEmpty(r) PROVE ScanInv'
  BY <1>1, <1>b, <1>e DEF ReturnEmpty, Settled
<1>2. ASSUME NEW r \in Runs, NEW recipients \in SUBSET Chats, NEW dry \in BOOLEAN,
             Begin(r, recipients, dry)
      PROVE ScanInv'
  <2>1. PICK k \in scans : IsLatest(k, scans) /\ Continue(r,
            [task[r] EXCEPT !.pc = "review", !.scan = k, !.dry = dry,
                            !.queue = recipients,
                            !.toReview = IF k \in readable THEN SignalsOf[k] ELSE {}])
    BY <1>2 DEF Begin
  <2> DEFINE t == [task[r] EXCEPT !.pc = "review", !.scan = k, !.dry = dry,
                            !.queue = recipients,
                            !.toReview = IF k \in readable THEN SignalsOf[k] ELSE {}]
  <2>2. /\ Continue(r, t) /\ t.pc = "review" /\ t.scan = k
        /\ t.toReview \subseteq SignalsOf[k] /\ t.included = task[r].included
    BY <1>a, <2>1 DEF Task
  <2> HIDE DEF t
  <2>3. task[r].pc = "idle" /\ UNCHANGED <<scans, pushLogs, pending, inbox>>
    BY <1>2 DEF Begin, CanStart
  <2>4. Carries(t, scans)
    BY <1>a, <2>1, <2>2, <2>3 DEF Carries, Settled
  <2>5. MessagesUpTo(t.scan)
    BY <2>1, <2>2 DEF IsLatest, ScanInv, MessagesUpTo
  <2> QED BY <1>b, <2>2, <2>3, <2>4, <2>5, ScanStep
<1>3. ASSUME NEW r \in Runs, ReviewSignal(r) PROVE ScanInv'
  <2>1. PICK s \in task[r].toReview :
          Continue(r, [task[r] EXCEPT !.toReview = @ \ {s},
                                         !.included = AfterReview(@, s)])
    BY <1>3 DEF ReviewSignal
  <2> DEFINE t == [task[r] EXCEPT !.toReview = @ \ {s},
                                         !.included = AfterReview(@, s)]
  <2>2. /\ Continue(r, t) /\ t.pc = "review" /\ t.scan = task[r].scan
        /\ t.toReview \subseteq task[r].toReview
        /\ t.included \subseteq task[r].included \cup {s}
    BY <1>3, <1>a, <2>1 DEF ReviewSignal, Task, AfterReview
  <2> HIDE DEF t
  <2>3. task[r].pc = "review" /\ Commit(r) /\ UNCHANGED <<inbox, scans>>
    BY <1>3 DEF ReviewSignal
  <2> QED BY <1>d, <2>1, <2>2, <2>3, CommitLogs DEF Settled
<1>4. ASSUME NEW r \in Runs, ComposeMessage(r) PROVE ScanInv'
  <2>1. CASE Leave(r, "done")
    BY <1>4, <1>b, <1>e, <2>1 DEF ComposeMessage, Settled
  <2>2. CASE ~Leave(r, "done")
    <3> DEFINE kept == IncludedPushSignals(task[r].included, task[r].dry)
               t == [task[r] EXCEPT !.pc = "next", !.included = kept]
    <3>1. kept \subseteq task[r].included
      BY DEF IncludedPushSignals
    <3>2. Continue(r, t)
      BY <1>4, <2>2 DEF ComposeMessage
    <3> HIDE DEF kept
    <3>3. /\ t.pc = "next" /\ t.scan = task[r].scan
          /\ t.toReview = task[r].toReview /\ t.included = kept
      BY <1>a DEF Task
    <3> HIDE DEF t
    <3> QED BY <1>4, <1>b, <1>d, <3>1, <3>2, <3>3 DEF ComposeMessage, Settled
  <2> QED BY <2>1, <2>2
<1>5. ASSUME NEW r \in Runs, NextRecipient(r) PROVE ScanInv'
  <2>1. PICK c \in task[r].queue :
          Continue(r, [task[r] EXCEPT !.queue = @ \ {c}, !.chat = c,
                         !.pc = IF c \in users THEN AfterUser(r) ELSE "create_user"])
    BY <1>5 DEF NextRecipient
  <2> DEFINE t == [task[r] EXCEPT !.queue = @ \ {c}, !.chat = c,
                         !.pc = IF c \in users THEN AfterUser(r) ELSE "create_user"]
  <2>2. /\ Continue(r, t) /\ t.pc \in {"next", "dedupe", "create_user"} /\ t.scan = task[r].scan
        /\ t.toReview = task[r].toReview /\ t.included = task[r].included
    BY <1>a, <2>1 DEF Task, AfterUser
  <2> HIDE DEF t
  <2> QED BY <1>5, <1>b, <1>d, <2>2 DEF NextRecipient, Settled
<1>6. ASSUME NEW r \in Runs, CreateUser(r) PROVE ScanInv'
  <2>1. CASE task[r].chat \in users
    BY <1>6, <1>e, <2>1, RollbackLogs DEF CreateUser, Settled
  <2>2. CASE task[r].chat \notin users
    <3> DEFINE t == [task[r] EXCEPT !.pc = AfterUser(r)]
    <3>1. /\ Continue(r, t) /\ Commit(r) /\ t.pc \in {"next", "dedupe"}
          /\ t.scan = task[r].scan /\ t.toReview = task[r].toReview
          /\ t.included = task[r].included
      BY <1>6, <1>a, <2>2 DEF CreateUser, AfterUser, Task
    <3> HIDE DEF t
    <3> QED BY <1>6, <1>d, <3>1, CommitLogs DEF CreateUser, Settled
  <2> QED BY <2>1, <2>2
<1>7. ASSUME NEW r \in Runs, CheckDuplicate(r) PROVE ScanInv'
  <2> DEFINE t == [task[r] EXCEPT !.pc =
                        IF ExistingSuccessfulPushLog(r) THEN "next" ELSE "send"]
  <2>2. /\ Continue(r, t) /\ t.pc \in {"next", "send"} /\ t.scan = task[r].scan
        /\ t.toReview = task[r].toReview /\ t.included = task[r].included
    BY <1>a, <1>7 DEF CheckDuplicate, Task
  <2> HIDE DEF t
  <2> QED BY <1>7, <1>b, <1>d, <2>2 DEF CheckDuplicate, Settled
<1>8. ASSUME NEW r \in Runs, SendMessage(r) PROVE ScanInv'
  BY <1>8, ScanSend
<1>9. ASSUME NEW r \in Runs, RecordPush(r) PROVE ScanInv'
  <2> DEFINE t == [task[r] EXCEPT !.pc = "reports",
                     !.p0Left = P0SignalsToReport(task[r].included, task[r].delivery)]
             log == CurrentLog(r)
  <2>1. /\ Continue(r, t) /\ Add(r, {log}, {}) /\ UNCHANGED <<pushLogs, inbox, scans>>
        /\ t.pc = "reports" /\ t.scan = task[r].scan /\ task[r].pc = "log"
        /\ t.toReview = task[r].toReview /\ t.included = task[r].included
    BY <1>9, <1>a DEF RecordPush, Task
  <2> HIDE DEF t
  <2>2. OfItsScan(log)
    BY <1>a, <2>1 DEF OfItsScan, CurrentLog, Carries, Settled
  <2> HIDE DEF log
  <2>3. /\ \A q \in Runs : q # r => pending'[q] = pending[q]
        /\ pending'[r].logs = pending[r].logs \cup {log}
    BY <2>1 DEF Add, TypeInv, TypeOK
  <2>4. \A l \in AllLogs' \ AllLogs : OfItsScan(l)
    BY <2>1, <2>2, <2>3 DEF AllLogs
  <2> QED BY <1>d, <2>1, <2>4 DEF Settled
<1>10. ASSUME NEW r \in Runs, EnsureReport(r) PROVE ScanInv'
  <2>1. PICK s \in task[r].p0Left :
          Continue(r, [task[r] EXCEPT !.p0Left = @ \ {s}, !.signal = s,
                         !.pc = IF FindExistingSignalReport(r, s)
                                THEN "reports" ELSE "publish"])
    BY <1>10 DEF EnsureReport
  <2> DEFINE t == [task[r] EXCEPT !.p0Left = @ \ {s}, !.signal = s,
                         !.pc = IF FindExistingSignalReport(r, s)
                                THEN "reports" ELSE "publish"]
  <2>2. /\ Continue(r, t) /\ t.pc \in {"reports", "publish"} /\ t.scan = task[r].scan
        /\ t.toReview = task[r].toReview /\ t.included = task[r].included
    BY <1>a, <2>1 DEF Task
  <2> HIDE DEF t
  <2> QED BY <1>10, <1>b, <1>d, <2>2 DEF EnsureReport, Settled
<1>11. ASSUME NEW r \in Runs, ReviewForReport(r) PROVE ScanInv'
  <2> DEFINE t == [task[r] EXCEPT !.pc = IF Verdict[task[r].signal] = "blocked"
                                                  THEN "reports" ELSE "add_report"]
  <2>2. /\ Continue(r, t) /\ t.pc \in {"reports", "add_report"} /\ t.scan = task[r].scan
        /\ t.toReview = task[r].toReview /\ t.included = task[r].included
    BY <1>a, <1>11 DEF ReviewForReport, Task
  <2> HIDE DEF t
  <2> QED BY <1>11, <1>b, <1>d, <2>2, CommitLogs DEF ReviewForReport, Settled
<1>12. ASSUME NEW r \in Runs, AddReport(r) PROVE ScanInv'
  <2> DEFINE t == [task[r] EXCEPT !.pc = "reports"]
  <2>1. /\ Continue(r, t) /\ Add(r, {}, {CurrentReport(r)}) /\ UNCHANGED <<pushLogs, inbox, scans>>
        /\ t.pc = "reports" /\ t.scan = task[r].scan /\ task[r].pc = "add_report"
        /\ t.toReview = task[r].toReview /\ t.included = task[r].included
    BY <1>12, <1>a DEF AddReport, Task
  <2> HIDE DEF t
  <2>2. /\ \A q \in Runs : q # r => pending'[q] = pending[q]
        /\ pending'[r].logs = pending[r].logs
    BY <2>1 DEF Add, TypeInv, TypeOK
  <2>3. AllLogs' \subseteq AllLogs
    BY <2>1, <2>2 DEF AllLogs
  <2> QED BY <1>d, <2>1, <2>3 DEF Settled
<1>13. ASSUME NEW r \in Runs, RecipientDone(r) PROVE ScanInv'
  <2> DEFINE t == [task[r] EXCEPT !.pc = "next"]
  <2>2. /\ Continue(r, t) /\ t.pc \in {"next"} /\ t.scan = task[r].scan
        /\ t.toReview = task[r].toReview /\ t.included = task[r].included
    BY <1>a, <1>13 DEF RecipientDone, Task
  <2> HIDE DEF t
  <2> QED BY <1>13, <1>b, <1>d, <2>2 DEF RecipientDone, Settled
<1>14. ASSUME NEW r \in Runs, Finish(r) PROVE ScanInv'
  BY <1>14, <1>e, CommitLogs DEF Finish, Settled
<1>15. ASSUME NEW r \in Runs, Interrupt(r) PROVE ScanInv'
  BY <1>15, <1>e, RollbackLogs DEF Interrupt, Settled
<1>16. ASSUME NEW r \in Runs, Retry(r) PROVE ScanInv'
  <2> DEFINE t == Fresh(task[r].try + 1)
  <2>1. Continue(r, t) /\ UNCHANGED <<scans, pushLogs, pending, inbox>>
    BY <1>16 DEF Retry
  <2>2. t.pc \in Settled /\ Carries(t, scans)
    BY DEF Fresh, Settled, Carries
  <2> HIDE DEF t
  <2> QED BY <1>b, <2>1, <2>2, ScanStep
<1>17. ASSUME UNCHANGED <<pushLogs, pending, task, inbox>>, scans \subseteq scans'
       PROVE  ScanInv'
  <2>1. \A r \in Runs : Carries(task'[r], scans')
    BY <1>17, <1>a DEF Carries
  <2>2. AllLogs' = AllLogs
    BY <1>b, <1>17
  <2> QED BY <1>17, <2>1, <2>2 DEF ScanInv, MessagesUpTo
<1>18. CASE Environment
  BY <1>17, <1>18 DEF Environment, ScanStarts, ScanCommits, OtherRequestCreatesUser
<1>19. CASE UNCHANGED vars
  BY <1>17, <1>19 DEF vars
<1> QED
  BY <1>1, <1>2, <1>3, <1>4, <1>5, <1>6, <1>7, <1>8, <1>9, <1>10, <1>11, <1>12,
     <1>13, <1>14, <1>15, <1>16, <1>18, <1>19 DEF Next, Start, Work, Quiescent

\* Nothing has been sent or logged initially.
LEMMA ScanInit == Init => ScanInv
BY DEF Init, Fresh, NoRows, ScanInv, Carries, Settled, AllLogs

LedgerStep == [Ledger!LedgerNext]_(Ledger!ledgerVars)

\* A step that sends nothing and loses no committed row records what is new.
LEMMA RecordSeen ==
    ASSUME TypeInv', ScanInv', NoReportWithoutPush', UNCHANGED inbox,
           pushLogs \subseteq pushLogs', reports \subseteq reports'
    PROVE  LedgerStep
<1> DEFINE pushed == {<<l.chat, l.scan>> : l \in {x \in pushLogs : x.status \in Successful}}
           shown == {<<p.chat, p.signal>> : p \in reports}
<1>1. pushLogs' \subseteq PushLog /\ reports' \subseteq Report /\ pushLogs' \subseteq AllLogs'
  BY DEF TypeInv, TypeOK, AllLogs
<1>2. pushed' \subseteq Chats \X Scans /\ pushed \subseteq pushed'
  BY <1>1 DEF PushLog
<1>3. shown' \subseteq Chats \X Signals /\ shown \subseteq shown'
  BY <1>1 DEF Report
<1>4. ASSUME NEW c \in Chats, NEW s \in Signals, <<c, s>> \in shown'
      PROVE  \E k \in Scans : s \in Ledger!P0Of(k) /\ <<c, k>> \in pushed'
  <2>1. PICK p \in reports' : p.chat = c /\ p.signal = s
    BY <1>4
  <2>2. PICK l \in pushLogs' : Explains(l, p)
    BY <2>1 DEF NoReportWithoutPush
  <2>3. l.scan \in Scans /\ l.chat = c /\ <<c, l.scan>> \in pushed'
    BY <1>1, <2>1, <2>2 DEF Explains, PushLog
  <2>4. s \in SignalsOf[l.scan] /\ Priority[s] = "P0"
    BY <1>1, <2>1, <2>2 DEF Explains, ScanInv, OfItsScan
  <2> QED BY <2>3, <2>4 DEF Ledger!P0Of
<1>5. Ledger!Record
  <2>1. pushed' = pushed \cup pushed' /\ shown' = shown \cup shown'
    BY <1>2, <1>3
  <2>2. [c \in Chats |-> [i \in DOMAIN inbox'[c] |-> inbox'[c][i].scan]]
          = [c \in Chats |-> [i \in DOMAIN inbox[c] |-> inbox[c][i].scan]]
    OBVIOUS
  <2> QED BY <1>2, <1>3, <1>4, <2>1, <2>2 DEF Ledger!Record
<1> QED
  BY <1>5 DEF LedgerStep, Ledger!LedgerNext

\* The scans of a chat's messages, after one more.
LEMMA ScansOfAppend ==
    ASSUME NEW box \in Seq(Message), NEW m \in Message
    PROVE  [i \in DOMAIN Append(box, m) |-> Append(box, m)[i].scan]
             = Append([i \in DOMAIN box |-> box[i].scan], m.scan)
<1> DEFINE old == [i \in DOMAIN box |-> box[i].scan]
           new == [i \in DOMAIN Append(box, m) |-> Append(box, m)[i].scan]
           n == Len(box)
<1>1. /\ n \in Nat /\ DOMAIN box = 1..n
      /\ DOMAIN Append(box, m) = 1..(n+1)
      /\ \A i \in 1..n : Append(box, m)[i] = box[i]
      /\ Append(box, m)[n+1] = m
  <2>1. Append(box, m) \in Seq(Message) /\ Len(Append(box, m)) = n + 1
    BY AppendProperties
  <2> QED BY <2>1, AppendProperties, LenProperties
<1>2. m.scan \in Scans /\ \A i \in 1..n : box[i].scan \in Scans
  <2>1. \A x \in Message : x.scan \in Scans
    BY DEF Message
  <2>2. \A i \in 1..n : box[i] \in Message
    BY <1>1
  <2> QED BY <2>1, <2>2
<1>3. /\ new = [i \in 1..(n+1) |-> new[i]]
      /\ \A i \in 1..n : new[i] = box[i].scan
      /\ new[n+1] = m.scan
  BY <1>1
<1>4. old = [i \in 1..n |-> old[i]] /\ \A i \in 1..n : old[i] = box[i].scan
  BY <1>1
<1> HIDE DEF old, new, n
<1>5. old \in Seq(Scans) /\ Len(old) = n
  BY <1>1, <1>2, <1>4
<1>6. /\ Append(old, m.scan) \in Seq(Scans)
      /\ Len(Append(old, m.scan)) = n+1
      /\ \A i \in 1..n : Append(old, m.scan)[i] = old[i]
      /\ Append(old, m.scan)[n+1] = m.scan
  BY <1>1, <1>2, <1>5
<1>i. \A i \in 1..(n+1) : i \in 1..n \/ i = n+1
  BY <1>1
<1>7. new \in Seq(Scans) /\ Len(new) = n+1
  <2>1. \A i \in 1..(n+1) : new[i] \in Scans
    BY <1>2, <1>3, <1>i
  <2> QED BY <1>1, <1>3, <2>1
<1>8. \A i \in 1..(n+1) : new[i] = Append(old, m.scan)[i]
  BY <1>3, <1>4, <1>6, <1>i
<1>9. new = Append(old, m.scan)
  BY <1>1, <1>6, <1>7, <1>8
<1> QED BY <1>9 DEF old, new

\* A message that is delivered is one the ledger allows.
LEMMA DeliverSeen ==
    ASSUME TypeInv, SerialInv, ScanInv, NEW r \in Runs, SendMessage(r), inbox' # inbox
    PROVE  LedgerStep
<1> DEFINE m == [run |-> r, try |-> task[r].try, scan |-> task[r].scan,
                 signals |-> task[r].included]
           chat == task[r].chat
           k == task[r].scan
           sent(box) == [i \in DOMAIN box |-> box[i].scan]
<1>1. inbox' = [inbox EXCEPT ![chat] = Append(@, m)] /\ UNCHANGED <<pushLogs, reports>>
  BY Zenon DEF SendMessage, store
<1>2. task[r].pc = "send" /\ chat \in Chats /\ k \in scans /\ k \in Scans
  BY DEF SendMessage, TypeInv, TypeOK, GoodTask, WithChat, ScanInv, Carries, Settled
<1>3. inbox[chat] \in Seq(Message) /\ m.scan = k
      /\ \A c \in Chats : inbox'[c] = IF c = chat THEN Append(inbox[chat], m) ELSE inbox[c]
  BY <1>1, <1>2 DEF TypeInv, TypeOK
<1>m. m \in Message
  BY <1>2 DEF Message, TypeInv, TypeOK, Task
<1> HIDE DEF m
<1>4. sent(Append(inbox[chat], m)) = Append(sent(inbox[chat]), k)
  BY <1>3, <1>m, ScansOfAppend
<1>5. \A i \in DOMAIN inbox[chat] : inbox[chat][i].scan <= k
  BY <1>2 DEF ScanInv, MessagesUpTo, Settled
<1>6. \A l \in pushLogs : ~(l.chat = chat /\ l.scan = k /\ l.status \in Successful)
  BY <1>2 DEF SerialInv, SendsOnce, AllLogs, TypeInv, TypeOK
<1>7. [c \in Chats |-> sent(inbox'[c])]
        = [[c \in Chats |-> sent(inbox[c])] EXCEPT ![chat] = Append(@, k)]
  BY <1>2, <1>3, <1>4
<1>8. PICK c \in Chats, j \in Scans : c = chat /\ j = k
  BY <1>2
<1>9. Ledger!Deliver(c, j)
  <2>1. <<c, j>> \notin {<<l.chat, l.scan>> : l \in {x \in pushLogs : x.status \in Successful}}
    BY <1>6, <1>8
  <2> QED BY <1>1, <1>2, <1>5, <1>7, <1>8, <2>1 DEF Ledger!Deliver
<1> QED
  BY <1>9 DEF LedgerStep, Ledger!LedgerNext

\* Every step is one of the ledger.
LEMMA LedgerSeen ==
    TypeInv /\ TypeInv' /\ SerialInv /\ ScanInv /\ ScanInv' /\ NoReportWithoutPush'
        /\ [Next]_vars => LedgerStep
<1> SUFFICES ASSUME TypeInv, TypeInv', SerialInv, ScanInv, ScanInv', NoReportWithoutPush',
                    [Next]_vars
             PROVE  LedgerStep
  OBVIOUS
<1> USE DEF store
<1>1. ASSUME UNCHANGED inbox, UNCHANGED <<pushLogs, reports>> \/ \E r \in Runs : Commit(r)
      PROVE  LedgerStep
  BY <1>1, RecordSeen DEF Commit
<1>2. ASSUME NEW r \in Runs, SendMessage(r) PROVE LedgerStep
  BY <1>1, <1>2, DeliverSeen DEF SendMessage
<1>3. ASSUME NEW r \in Runs, Work(r), ~SendMessage(r) PROVE LedgerStep
  <2>1. CASE CreateUser(r)
    BY <1>1, <2>1 DEF CreateUser
  <2>2. CASE ReviewSignal(r) \/ ReviewForReport(r) \/ Finish(r)
    BY <1>1, <2>2 DEF ReviewSignal, ReviewForReport, Finish
  <2>3. CASE ComposeMessage(r) \/ NextRecipient(r) \/ CheckDuplicate(r) \/ RecordPush(r)
    BY <1>1, <2>3 DEF ComposeMessage, NextRecipient, CheckDuplicate, RecordPush
  <2>4. CASE EnsureReport(r) \/ AddReport(r) \/ RecipientDone(r)
    BY <1>1, <2>4 DEF EnsureReport, AddReport, RecipientDone
  <2> QED BY <1>3, <2>1, <2>2, <2>3, <2>4 DEF Work
<1>4. ASSUME NEW r \in Runs, Start(r) \/ Interrupt(r) \/ Retry(r) PROVE LedgerStep
  BY <1>1, <1>4 DEF Start, ReturnEmpty, Begin, Interrupt, Retry
<1>5. CASE Environment \/ UNCHANGED vars
  BY <1>1, <1>5 DEF Environment, ScanStarts, ScanCommits, OtherRequestCreatesUser, vars
<1> QED
  BY <1>2, <1>3, <1>4, <1>5 DEF Next, Quiescent

\* When runs do not overlap, the push service implements PushLedger: every message is
\* of a scan without a recorded success and none older than one sent before, and no
\* report is on record without a push of its scan.
THEOREM LedgerCorrect ==
    ASSUME MaxActive = 1
    PROVE  Spec => ImplementsLedger
<1>1. Init => Ledger!LedgerInit
  BY DEF Init, Ledger!LedgerInit
<1>2. ImplementsLedger <=>
        Ledger!LedgerInit /\ [][Ledger!LedgerNext]_(Ledger!ledgerVars)
  BY DEF ImplementsLedger, Ledger!LedgerSpec
<1>3. TypeInv /\ TypeInv' /\ SerialInv /\ ScanInv /\ ScanInv' /\ NoReportWithoutPush'
        /\ [Next]_vars => [Ledger!LedgerNext]_(Ledger!ledgerVars)
  BY LedgerSeen DEF LedgerStep
<1> QED
  BY <1>1, <1>2, <1>3, TypeAlways, SerialInit, SerialNext, ScanInit, ScanNext,
     ReportsHaveTheirPush, PTL DEF Spec
=============================================================================
