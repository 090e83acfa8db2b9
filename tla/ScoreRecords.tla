----------------------------- MODULE ScoreRecords -----------------------------
(***************************************************************************)
(* Concurrent score runs of one signal (generate_signal_scores and         *)
(* _upsert_score_record in scores/service.py; POST /scores and /score).    *)
(*                                                                         *)
(* A run takes the time once and then, for each window in turn, reads the  *)
(* committed record and flushes an INSERT or an UPDATE; it commits after   *)
(* the last window.  A flushed row belongs to its run until the end of the *)
(* transaction: the flush of another run waits for it, and an INSERT of a  *)
(* window that exists by then fails.  An UPDATE sends only the columns     *)
(* whose value differs from the one the run has read.  evaluated_at has    *)
(* microseconds, so no two runs have the same; age is in whole hours.      *)
(* Between two runs the signal may be reviewed (governance/review.py),     *)
(* which is all that ever changes of it.                                   *)
(*                                                                         *)
(* A definition marked "mutant" is a plausible mistake in the definition   *)
(* that follows it; nothing uses it but the tests of the properties.       *)
(***************************************************************************)
EXTENDS ScoreRules, Sequences, SequencesExt, FiniteSets

CONSTANTS
    Runs,        \* score runs, numbered
    MaxActive,   \* how many run at the same time
    Windows,     \* SUPPORTED_SCORE_WINDOWS, in their order
    Ages,        \* the ages of the signal, in hours, at which a run can start
    Signal,      \* the signal, but for its review_status
    ReviewedAs,  \* the statuses that a review may give it
    MaxFaults    \* bound on database errors and processes that end

\* Assumed of the constants by the modules that give them values.
RunsAssumption == Runs \subseteq Nat \ {0}
WindowsAssumption ==
    /\ Windows \in Seq({1, 3, 5, 10}) /\ Len(Windows) > 0
    /\ \A i, j \in DOMAIN Windows : Windows[i] = Windows[j] => i = j
AgesAssumption == Ages \subseteq Nat /\ Ages # {}
BoundsAssumption == MaxActive \in Nat /\ MaxFaults \in Nat
\* A signal has its fields.  Counts are numbers, and so is the confidence of data that is there.
SignalAssumption ==
    /\ {"priority", "stage", "review", "evidence", "continuity", "quality"} \subseteq DOMAIN Signal
    /\ Signal.evidence \in Nat
    /\ Signal.continuity = Absent \/ Signal.continuity.count \in Nat
    /\ Signal.quality = Absent
         \/ (Signal.quality.confidence \in Int /\ Signal.quality.missing \in Nat)

VARIABLES
    age,      \* the age of the signal now
    review,   \* its review_status
    records,  \* score_records, committed: one row or none for each window
    run,      \* each run: where it is, what it read, what it has flushed
    faults

vars == <<age, review, records, run, faults>>

Missing == [run |-> 0]
WindowSet == ToSet(Windows)
Idle == [pc |-> "idle", i |-> 1, age |-> 0, review |-> "candidate", read |-> Missing,
         flushed |-> [w \in WindowSet |-> Missing]]

Init ==
    /\ age = CHOOSE a \in Ages : \A b \in Ages : a <= b
    /\ review = "candidate"
    /\ records = [w \in WindowSet |-> Missing]
    /\ run = [r \in Runs |-> Idle]
    /\ faults = 0

Set(r, x) == run' = [run EXCEPT ![r] = x]

WindowOf(r) == Windows[run[r].i]

\* The components and their composite depend on the age through timeliness only.
ComponentsAt(status, a) == ScoreComponents([Signal EXCEPT !.review = status], a)
Record(r, w) ==
    LET c == ComponentsAt(run[r].review, run[r].age)
    IN  [run |-> r, evaluated |-> run[r].age,
         status |-> ScoreStatus(w, run[r].age), composite |-> CompositeScore(c),
         components |-> c,
         details |-> [age |-> run[r].age,
                      complete |-> ScoreStatus(w, run[r].age) = "generated"]]

\* The run reads the signal and the time.
Start(r) ==
    /\ run[r].pc = "idle"
    /\ \A s \in Runs : s < r => run[s].pc # "idle"
    /\ Cardinality({s \in Runs : run[s].pc \notin {"idle", "done", "failed"}}) < MaxActive
    /\ Set(r, [Idle EXCEPT !.pc = "read", !.age = age, !.review = review])
    /\ UNCHANGED <<age, review, records, faults>>

ReadRecord(r) ==
    /\ run[r].pc = "read"
    /\ Set(r, [run[r] EXCEPT !.pc = "flush", !.read = records[WindowOf(r)]])
    /\ UNCHANGED <<age, review, records, faults>>

\* The row lock, or the index entry of an INSERT that is not committed yet.
Held(w, r) == \E s \in Runs \ {r} : run[s].flushed[w] # Missing

\* SQLAlchemy sends a column when its value differs from the one that was read.
Sent(read, new, current) ==
    [k \in DOMAIN new |-> IF k \in {"run", "evaluated"} \/ new[k] # read[k]
                          THEN new[k] ELSE current[k]]

NextWindow(x) == IF x.i < Len(Windows) THEN [x EXCEPT !.pc = "read", !.i = @ + 1]
                 ELSE [x EXCEPT !.pc = "commit"]

Flush(r) ==
    LET w == WindowOf(r)  new == Record(r, w) IN
    /\ run[r].pc = "flush"
    /\ ~Held(w, r)
    /\ IF run[r].read # Missing
       THEN Set(r, NextWindow([run[r] EXCEPT !.flushed[w] =
                                   Sent(run[r].read, new, records[w])]))
       ELSE IF records[w] = Missing
       THEN Set(r, NextWindow([run[r] EXCEPT !.flushed[w] = new]))
       ELSE Set(r, [Idle EXCEPT !.pc = "failed"])
    /\ UNCHANGED <<age, review, records, faults>>

CommitEachWindow(r) ==                                       \* mutant
    /\ run[r].pc \in {"read", "commit"}
    /\ \E w \in WindowSet : run[r].flushed[w] # Missing
    /\ records' = [w \in WindowSet |->
                    IF run[r].flushed[w] = Missing THEN records[w] ELSE run[r].flushed[w]]
    /\ Set(r, IF run[r].pc = "commit" THEN [Idle EXCEPT !.pc = "done"]
              ELSE [run[r] EXCEPT !.flushed = Idle.flushed])
    /\ UNCHANGED <<age, review, faults>>

Commit(r) ==
    /\ run[r].pc = "commit"
    /\ records' = [w \in WindowSet |-> run[r].flushed[w]]
    /\ Set(r, [Idle EXCEPT !.pc = "done"])
    /\ UNCHANGED <<age, review, faults>>

\* A database error or the end of the process rolls the whole run back.
Interrupt(r) ==
    /\ run[r].pc \in {"read", "flush", "commit"}
    /\ faults < MaxFaults
    /\ faults' = faults + 1
    /\ Set(r, [Idle EXCEPT !.pc = "failed"])
    /\ UNCHANGED <<age, review, records>>

TimePasses ==
    /\ \E a \in Ages : a > age
    /\ age' = CHOOSE a \in Ages : a > age /\ \A b \in Ages : b > age => a <= b
    /\ UNCHANGED <<review, records, run, faults>>

\* review_radar_signal commits its verdict.
ReviewSignal ==
    /\ review' \in ReviewedAs
    /\ UNCHANGED <<age, records, run, faults>>

Work(r) == ReadRecord(r) \/ Flush(r) \/ Commit(r)

Next == \/ \E r \in Runs : Start(r) \/ Work(r) \/ Interrupt(r)
        \/ TimePasses \/ ReviewSignal

Spec == Init /\ [][Next]_vars

-----------------------------------------------------------------------------
TypeOK ==
    /\ age \in Ages /\ review \in ReviewedAs \cup {"candidate"} /\ faults \in 0..MaxFaults
    /\ \A r \in Runs : run[r].i \in 1..Len(Windows) /\ run[r].age \in Ages \cup {0}
    /\ \A w \in WindowSet : records[w].run \in Runs \cup {0}

\* The records of a signal are all there or not at all, and were all written by the same run.
AllOfOneRun == \A v, w \in WindowSet : records[v].run = records[w].run

\* Runs keep the rows they have written locked until they commit, but of the runs under
\* way one is not waiting for another: all take the windows in the same order.
SomeRunMoves ==
    LET busy == {r \in Runs : run[r].pc \in {"read", "flush", "commit"}}
        waiting == {r \in busy : run[r].pc = "flush" /\ Held(WindowOf(r), r)}
    IN  busy # {} => busy # waiting

\* However score runs overlap, fail and are cut off, the records of a signal are of one run,
\* and the runs never all wait for rows of one another (_upsert_score_record, which
\* flushes each window, and the one commit of generate_signal_scores).
RecordsOfOneRun == TypeOK /\ AllOfOneRun /\ SomeRunMoves

\* While runs do not overlap a record that is written again gains no more than what the
\* review of its signal has gained it, and a window that was complete stays complete.
Gain(w) == records'[w].composite - records[w].composite
ReviewGain(w) ==
    ScoringWeights.review * (records'[w].components.review - records[w].components.review)
ScoresAge ==
    \A w \in WindowSet :
      records[w] # Missing /\ records'[w] # records[w] =>
          /\ records'[w].evaluated >= records[w].evaluated
          /\ Gain(w) <= ReviewGain(w)
          /\ records[w].status = "generated" => records'[w].status = "generated"

\* docs/specs/current-data-model.md: a record tells which components and which
\* window its own scoring used.
RecordsAreOfOneScoring ==
    \A w \in WindowSet :
        records[w] # Missing =>
            /\ records[w].details.complete <=> records[w].status = "generated"
            /\ records[w].components.timeliness = TimelinessScore(records[w].details.age)
            /\ records[w].composite = CompositeScore(records[w].components)
=============================================================================
