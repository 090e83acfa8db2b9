----------------------------- MODULE SignalProofs -----------------------------
(***************************************************************************)
(* What a signal becomes: its score records (ScoreRecords), the reports of *)
(* it (ReportBook), the signals that follow it (SubjectLifecycle), its     *)
(* reviews (SignalGovernance), the model drafts of it (ModelDraft) and the *)
(* views of its scan (RadarView).                                          *)
(***************************************************************************)
EXTENDS ScoreRecords, SubjectLifecycle, ModelDraft,
        FiniteSetTheorems, WellFoundedInduction, TLAPS

-----------------------------------------------------------------------------
(* Score runs keep what they have written locked in the order of the windows,
   and commit all of it at once: the records are of one run, and of the runs
   under way the one that has come farthest never waits. *)

\* What the module assumes of its constants.
ConstantsAssumption ==
    RunsAssumption /\ WindowsAssumption /\ AgesAssumption /\ BoundsAssumption

Busy == {"read", "flush", "commit"}
Phases == Busy \cup {"idle", "done", "failed"}
RunAges == Ages \cup {0}
Reviews == ReviewedAs \cup {"candidate"}

\* A row of score_records, and a row or none.
Row == [run : Runs, evaluated : RunAges, status : {"generated", "pending_window"},
        composite : {CompositeScore(ComponentsAt(v, a)) : v \in Reviews, a \in RunAges},
        components : {ComponentsAt(v, a) : v \in Reviews, a \in RunAges},
        details : [age : RunAges, complete : BOOLEAN]]
RowOrNone == Row \cup {Missing}
RunState == [pc : Phases, i : 1..Len(Windows), age : RunAges, review : Reviews,
             read : RowOrNone, flushed : [WindowSet -> RowOrNone]]

TypeInv ==
    /\ age \in Ages /\ review \in Reviews /\ faults \in 0..MaxFaults
    /\ records \in [WindowSet -> RowOrNone]
    /\ run \in [Runs -> RunState]

\* The rows a run has flushed are those of the windows it has gone through; a record
\* it has read is still there.
HoldsItsRows(r) ==
    /\ run[r].pc \notin Busy => \A w \in WindowSet : run[r].flushed[w] = Missing
    /\ run[r].pc \in {"read", "flush"} =>
          \A j \in 1..Len(Windows) :
              /\ j < run[r].i => run[r].flushed[Windows[j]].run = r
              /\ j >= run[r].i => run[r].flushed[Windows[j]] = Missing
    /\ run[r].pc = "commit" => \A w \in WindowSet : run[r].flushed[w].run = r
    /\ run[r].pc = "flush" /\ run[r].read # Missing => records[WindowOf(r)] # Missing

\* The inductive invariant.
RecordInv == TypeInv /\ AllOfOneRun /\ \A r \in Runs : HoldsItsRows(r)

-----------------------------------------------------------------------------
(***************************************************************************)
(* Numbers, windows and rows.                                              *)
(***************************************************************************)
\* A set of numbers that has a member has a least one.
LEMMA LeastNumber ==
    ASSUME NEW S \in SUBSET Nat, S # {}
    PROVE  \E m \in S : \A n \in S : m <= n
<1> DEFINE R == {pair \in Nat \X Nat : pair[1] < pair[2]}
<1>1. IsWellFoundedOn(R, Nat)
  BY NatLessThanWellFounded DEF OpToRel
<1>2. \A m, n \in Nat : m < n => <<m, n>> \in R
  OBVIOUS
<1> HIDE DEF R
<1>3. PICK m \in S : \A n \in S : ~(<<n, m>> \in R)
  BY <1>1, WFMin
<1>4. ASSUME NEW n \in S PROVE m <= n
  <2>1. m \in Nat /\ n \in Nat /\ ~(<<n, m>> \in R)
    BY <1>3
  <2> QED BY <1>2, <2>1
<1> QED BY <1>4

\* And a greatest one, if the set is bounded.
LEMMA GreatestNumber ==
    ASSUME NEW S \in SUBSET Nat, S # {}, NEW limit \in Nat, \A n \in S : n <= limit
    PROVE  \E m \in S : \A n \in S : n <= m
<1> DEFINE D == {limit - n : n \in S}
<1>1. ASSUME NEW n \in S PROVE n \in Nat /\ limit - n \in Nat
  <2>1. n \in Nat /\ n <= limit
    OBVIOUS
  <2> QED BY <2>1
<1>2. D \in SUBSET Nat /\ D # {}
  BY <1>1
<1> HIDE DEF D
<1>3. PICK d \in D : \A e \in D : d <= e
  BY <1>2, LeastNumber
<1>4. PICK m \in S : d = limit - m
  BY DEF D
<1>5. ASSUME NEW n \in S PROVE n <= m
  <2>1. limit - m <= limit - n
    BY <1>3, <1>4 DEF D
  <2> QED BY <1>1, <2>1
<1> QED BY <1>5

\* The windows are a list of different ones.
LEMMA WindowFacts ==
    ASSUME WindowsAssumption
    PROVE  /\ Len(Windows) \in Nat \ {0} /\ 1 \in 1..Len(Windows)
           /\ \A j \in 1..Len(Windows) : Windows[j] \in WindowSet /\ Windows[j] \in {1, 3, 5, 10}
           /\ \A w \in WindowSet : \E j \in 1..Len(Windows) : w = Windows[j]
           /\ \A j, k \in 1..Len(Windows) : Windows[j] = Windows[k] => j = k
BY DEF WindowsAssumption, WindowSet, ToSet

\* A row is none that is missing.
LEMMA RowIsThere ==
    ASSUME RunsAssumption, NEW x \in RowOrNone
    PROVE  /\ x # Missing => x \in Row /\ x.run \in Runs
           /\ \A r \in Runs : x.run = r => x # Missing
           /\ x = Missing => x.run = 0
BY DEF RunsAssumption, RowOrNone, Row, Missing

\* What a run computes of a window is a row.
LEMMA RecordIsRow ==
    ASSUME TypeInv, NEW r \in Runs, NEW w
    PROVE  /\ Record(r, w) \in Row /\ Record(r, w).run = r
           /\ DOMAIN Record(r, w)
                = {"run", "evaluated", "status", "composite", "components", "details"}
<1>1. run[r].age \in RunAges /\ run[r].review \in Reviews
  BY DEF TypeInv, RunState
<1>2. ScoreStatus(w, run[r].age) \in {"generated", "pending_window"}
  BY DEF ScoreStatus
<1> QED BY <1>1, <1>2 DEF Record, Row

\* What an UPDATE leaves of a row is a row of the run that sends it.
LEMMA SentIsRow ==
    ASSUME TypeInv, NEW r \in Runs, NEW w, NEW read \in Row, NEW current \in Row
    PROVE  /\ Sent(read, Record(r, w), current) \in Row
           /\ Sent(read, Record(r, w), current).run = r
<1> DEFINE new == Record(r, w)
<1>1. /\ new \in Row /\ new.run = r
      /\ DOMAIN new = {"run", "evaluated", "status", "composite", "components", "details"}
  BY RecordIsRow
<1> HIDE DEF new
<1>2. Sent(read, new, current)
        = [k \in {"run", "evaluated", "status", "composite", "components", "details"} |->
              IF k \in {"run", "evaluated"} \/ new[k] # read[k] THEN new[k] ELSE current[k]]
  BY <1>1 DEF Sent
<1>3. Sent(read, new, current)
        = [run |-> new.run, evaluated |-> new.evaluated,
           status |-> IF new.status # read.status THEN new.status ELSE current.status,
           composite |-> IF new.composite # read.composite THEN new.composite ELSE current.composite,
           components |-> IF new.components # read.components THEN new.components
                          ELSE current.components,
           details |-> IF new.details # read.details THEN new.details ELSE current.details]
  BY <1>2
<1>4. Sent(read, new, current) \in Row /\ Sent(read, new, current).run = r
  BY <1>1, <1>3 DEF Row
<1> QED BY <1>4 DEF new

-----------------------------------------------------------------------------
(***************************************************************************)
(* The steps of a run.                                                     *)
(***************************************************************************)
\* The ages are taken in their order.
LEMMA AgeTyped ==
    ASSUME AgesAssumption
    PROVE  /\ Init => age \in Ages
           /\ TimePasses => age' \in Ages
<1>1. ASSUME Init PROVE age \in Ages
  <2>1. \E a \in Ages : \A b \in Ages : a <= b
    BY LeastNumber DEF AgesAssumption
  <2> QED BY <1>1, <2>1 DEF Init
<1>2. ASSUME TimePasses PROVE age' \in Ages
  <2> DEFINE later == {a \in Ages : a > age}
  <2>1. later \in SUBSET Nat /\ later # {}
    BY <1>2 DEF TimePasses, AgesAssumption
  <2>2. PICK a \in later : \A b \in later : a <= b
    BY <2>1, LeastNumber
  <2>3. \E a1 \in Ages : a1 > age /\ \A b \in Ages : b > age => a1 <= b
    BY <2>2
  <2> QED BY <1>2, <2>3 DEF TimePasses
<1> QED BY <1>1, <1>2

\* A run that is at no window holds nothing.
LEMMA RunEnds ==
    ASSUME ConstantsAssumption, NEW phase \in Phases, NEW a \in RunAges,
           NEW v \in Reviews, NEW x,
           x = [pc |-> phase, i |-> 1, age |-> a, review |-> v, read |-> Missing, flushed |-> Idle.flushed]
    PROVE  x \in RunState /\ x.pc = phase /\ x.i = 1 /\ \A w \in WindowSet : x.flushed[w] = Missing
<1> DEFINE none == Idle.flushed
<1>1. /\ 1 \in 1..Len(Windows) /\ Missing \in RowOrNone
      /\ none \in [WindowSet -> RowOrNone] /\ \A w \in WindowSet : none[w] = Missing
  BY WindowFacts DEF ConstantsAssumption, RowOrNone, Idle
<1> HIDE DEF none
<1> QED BY <1>1 DEF RunState, none

\* What a run is when it starts or ends.
LEMMA IdleWith ==
    ASSUME NEW phase, NEW a, NEW v
    PROVE  /\ [Idle EXCEPT !.pc = phase]
                 = [pc |-> phase, i |-> 1, age |-> 0, review |-> "candidate", read |-> Missing,
                    flushed |-> Idle.flushed]
           /\ [Idle EXCEPT !.pc = phase, !.age = a, !.review = v]
                 = [pc |-> phase, i |-> 1, age |-> a, review |-> v, read |-> Missing,
                    flushed |-> Idle.flushed]
<1> DEFINE none == [w \in WindowSet |-> Missing]
           State(q, b, u) == [pc |-> q, i |-> 1, age |-> b, review |-> u, read |-> Missing,
                              flushed |-> none]
<1>1. Idle = State("idle", 0, "candidate")
  BY DEF Idle
<1> HIDE DEF none
<1>2. Idle.flushed = none
  BY <1>1
<1>3. [Idle EXCEPT !.pc = phase] = State(phase, 0, "candidate")
  BY <1>1
<1>4. [Idle EXCEPT !.pc = phase, !.age = a, !.review = v] = State(phase, a, v)
  <2>1. [State(phase, 0, "candidate") EXCEPT !.age = a] = State(phase, a, "candidate")
    OBVIOUS
  <2>2. [State(phase, a, "candidate") EXCEPT !.review = v] = State(phase, a, v)
    OBVIOUS
  <2> QED BY <1>3, <2>1, <2>2
<1> QED BY <1>2, <1>3, <1>4

\* Before the first run there is nothing.
LEMMA InitInv == ConstantsAssumption /\ Init => RecordInv
<1> SUFFICES ASSUME ConstantsAssumption, Init PROVE RecordInv
  OBVIOUS
<1>1. Idle \in RunState /\ Idle.pc = "idle" /\ \A w \in WindowSet : Idle.flushed[w] = Missing
  BY WindowFacts DEF ConstantsAssumption, Idle, RunState, Phases, RunAges, Reviews, RowOrNone
<1>2. age \in Ages /\ faults \in 0..MaxFaults
  BY AgeTyped DEF Init, ConstantsAssumption, BoundsAssumption
<1>3. TypeInv
  BY <1>1, <1>2 DEF Init, TypeInv, RowOrNone, Reviews
<1>4. \A r \in Runs : HoldsItsRows(r)
  BY <1>1 DEF Init, HoldsItsRows, Busy
<1>5. AllOfOneRun
  BY DEF Init, AllOfOneRun
<1> QED BY <1>3, <1>4, <1>5 DEF RecordInv

\* A step of one run that leaves the records alone.
LEMMA StepKeeps ==
    ASSUME ConstantsAssumption, RecordInv, NEW r \in Runs, NEW x \in RunState,
           run' = [run EXCEPT ![r] = x], UNCHANGED <<records, review>>, age' \in Ages, faults' \in 0..MaxFaults,
           x.pc \notin Busy => \A w \in WindowSet : x.flushed[w] = Missing,
           x.pc \in {"read", "flush"} =>
              \A j \in 1..Len(Windows) :
                  /\ j < x.i => x.flushed[Windows[j]].run = r
                  /\ j >= x.i => x.flushed[Windows[j]] = Missing,
           x.pc = "commit" => \A w \in WindowSet : x.flushed[w].run = r,
           x.pc = "flush" /\ x.read # Missing => records[Windows[x.i]] # Missing
    PROVE  RecordInv'
<1>1. run' = [run EXCEPT ![r] = x] /\ run' \in [Runs -> RunState]
  BY DEF RecordInv, TypeInv
<1>2. TypeInv'
  BY <1>1 DEF TypeInv, RecordInv
<1>3. HoldsItsRows(r)'
  BY <1>1 DEF HoldsItsRows, WindowOf, RecordInv, TypeInv
<1>4. ASSUME NEW s \in Runs, s # r PROVE HoldsItsRows(s)'
  BY <1>1, <1>4 DEF HoldsItsRows, WindowOf, RecordInv, TypeInv
<1>5. AllOfOneRun'
  BY DEF AllOfOneRun, RecordInv
<1> QED BY <1>2, <1>3, <1>4, <1>5 DEF RecordInv

\* A flush writes the next of its rows, or ends the run.
LEMMA FlushKeeps ==
    ASSUME ConstantsAssumption, RecordInv, NEW r \in Runs, Flush(r)
    PROVE  RecordInv'
<1> DEFINE w == WindowOf(r)
           t == run[r]
<1>1. /\ t \in RunState /\ t.pc = "flush" /\ w = Windows[t.i] /\ t.i \in 1..Len(Windows)
      /\ w \in WindowSet /\ records[w] \in RowOrNone /\ t.read \in RowOrNone
  BY WindowFacts DEF RecordInv, TypeInv, RunState, Flush, WindowOf, ConstantsAssumption
<1>2. UNCHANGED <<records, review>> /\ age' \in Ages /\ faults' \in 0..MaxFaults
  BY DEF Flush, RecordInv, TypeInv
<1>3. ASSUME NEW row \in Row, row.run = r, Set(r, NextWindow([t EXCEPT !.flushed[w] = row]))
      PROVE  RecordInv'
  <2> DEFINE y == [t EXCEPT !.flushed[w] = row]
             last == ~(t.i < Len(Windows))
             x == [pc |-> IF last THEN "commit" ELSE "read", i |-> IF last THEN t.i ELSE t.i + 1,
                   age |-> t.age, review |-> t.review, read |-> t.read,
                   flushed |-> [t.flushed EXCEPT ![w] = row]]
  <2>1. y = [pc |-> t.pc, i |-> t.i, age |-> t.age, review |-> t.review, read |-> t.read,
             flushed |-> [t.flushed EXCEPT ![w] = row]]
    BY <1>1 DEF RunState
  <2>2. NextWindow(y) = x
    BY <2>1 DEF NextWindow
  <2>3. x \in RunState
    BY <1>1, <1>3, WindowFacts DEF RunState, Phases, Busy, RowOrNone, ConstantsAssumption
  <2>4. /\ \A v \in WindowSet : x.flushed[v] = IF v = w THEN row ELSE t.flushed[v]
        /\ x.pc \in {"read", "commit"} /\ (x.pc = "commit" <=> last)
        /\ ~last => x.i = t.i + 1
    BY <1>1 DEF RunState
  <2>5. \A j \in 1..Len(Windows) : /\ j < t.i => t.flushed[Windows[j]].run = r
                                   /\ j >= t.i => t.flushed[Windows[j]] = Missing
    BY <1>1 DEF RecordInv, HoldsItsRows
  <2>6. Set(r, x)
    BY <1>3, <2>2
  <2> HIDE DEF x, y, t, w
  <2>7. ASSUME NEW j \in 1..Len(Windows), x.pc = "read"
        PROVE  /\ j < x.i => x.flushed[Windows[j]].run = r
               /\ j >= x.i => x.flushed[Windows[j]] = Missing
    <3>1. Windows[j] \in WindowSet /\ (Windows[j] = w <=> j = t.i)
      BY <1>1, WindowFacts DEF ConstantsAssumption
    <3>2. x.i = t.i + 1 /\ t.i \in Nat /\ j \in Nat
      BY <1>1, <2>4, <2>7, WindowFacts DEF ConstantsAssumption
    <3> QED BY <1>3, <2>4, <2>5, <3>1, <3>2
  <2>8. ASSUME NEW v \in WindowSet, x.pc = "commit" PROVE x.flushed[v].run = r
    <3>1. PICK j \in 1..Len(Windows) : v = Windows[j]
      BY WindowFacts DEF ConstantsAssumption
    <3>2. j = t.i \/ j < t.i
      BY <1>1, <2>4, <2>8, WindowFacts DEF ConstantsAssumption
    <3> QED BY <1>1, <1>3, <2>4, <2>5, <3>1, <3>2
  <2> QED BY <1>2, <2>3, <2>4, <2>6, <2>7, <2>8, StepKeeps DEF Busy, Set
<1>4. CASE t.read # Missing
  <2>1. t.read \in Row /\ records[w] \in Row
    BY <1>1, <1>4 DEF RecordInv, HoldsItsRows, RowOrNone
  <2> DEFINE row == Sent(t.read, Record(r, w), records[w])
  <2>2. row \in Row /\ row.run = r
    BY <2>1, SentIsRow DEF RecordInv
  <2>3. Set(r, NextWindow([t EXCEPT !.flushed[w] = row]))
    BY <1>4 DEF Flush
  <2> HIDE DEF row
  <2> QED BY <1>3, <2>2, <2>3
<1>5. CASE t.read = Missing /\ records[w] = Missing
  <2> DEFINE row == Record(r, w)
  <2>1. row \in Row /\ row.run = r
    BY RecordIsRow DEF RecordInv
  <2>2. Set(r, NextWindow([t EXCEPT !.flushed[w] = row]))
    BY <1>5 DEF Flush
  <2> HIDE DEF row
  <2> QED BY <1>3, <2>1, <2>2
<1>6. CASE t.read = Missing /\ records[w] # Missing
  <2> DEFINE x == [Idle EXCEPT !.pc = "failed"]
  <2>0. /\ x = [pc |-> "failed", i |-> 1, age |-> 0, review |-> "candidate", read |-> Missing,
                flushed |-> Idle.flushed]
        /\ "failed" \in Phases /\ 0 \in RunAges /\ "candidate" \in Reviews
    BY IdleWith DEF Phases, RunAges, Reviews
  <2>1. Set(r, x)
    BY <1>6 DEF Flush
  <2>2. x \in RunState /\ x.pc = "failed" /\ \A v \in WindowSet : x.flushed[v] = Missing
    <3> HIDE DEF x
    <3> QED BY <2>0, RunEnds
  <2> HIDE DEF x
  <2>3. run' = [run EXCEPT ![r] = x]
    BY <2>1 DEF Set
  <2> QED BY <1>2, <2>2, <2>3, StepKeeps DEF Busy
<1> QED BY <1>4, <1>5, <1>6

\* A run that commits replaces all records by its own.
LEMMA CommitKeeps ==
    ASSUME ConstantsAssumption, RecordInv, NEW r \in Runs, Commit(r)
    PROVE  RecordInv'
<1> DEFINE x == [Idle EXCEPT !.pc = "done"]
<1>1. /\ run[r] \in RunState /\ run[r].pc = "commit" /\ Set(r, x)
      /\ records' = [w \in WindowSet |-> run[r].flushed[w]]
  BY DEF RecordInv, TypeInv, Commit
<1>2. x \in RunState /\ x.pc = "done" /\ \A v \in WindowSet : x.flushed[v] = Missing
  <2>1. /\ x = [pc |-> "done", i |-> 1, age |-> 0, review |-> "candidate", read |-> Missing,
                flushed |-> Idle.flushed]
        /\ "done" \in Phases /\ 0 \in RunAges /\ "candidate" \in Reviews
    BY IdleWith DEF Phases, RunAges, Reviews
  <2> HIDE DEF x
  <2> QED BY <2>1, RunEnds
<1> HIDE DEF x
<1>3. run' = [run EXCEPT ![r] = x] /\ run' \in [Runs -> RunState]
  BY <1>1, <1>2 DEF Set, RecordInv, TypeInv
<1>4. \A w \in WindowSet : /\ records'[w] \in RowOrNone /\ records'[w].run = r
                           /\ records'[w] # Missing
  <2>1. \A w \in WindowSet : run[r].flushed[w] \in RowOrNone /\ run[r].flushed[w].run = r
    BY <1>1 DEF RunState, RecordInv, HoldsItsRows
  <2> QED BY <1>1, <2>1, RowIsThere DEF ConstantsAssumption
<1>5. TypeInv'
  BY <1>1, <1>3, <1>4 DEF TypeInv, RecordInv, Commit
<1>6. AllOfOneRun'
  BY <1>4 DEF AllOfOneRun
<1>7. HoldsItsRows(r)'
  BY <1>2, <1>3 DEF HoldsItsRows, RecordInv, TypeInv, Busy
<1>8. ASSUME NEW s \in Runs, s # r PROVE HoldsItsRows(s)'
  <2>1. run'[s] = run[s] /\ WindowOf(s)' = WindowOf(s) /\ WindowOf(s) \in WindowSet
    BY <1>3, <1>8, WindowFacts DEF RecordInv, TypeInv, RunState, WindowOf, ConstantsAssumption
  <2> QED BY <1>4, <2>1 DEF HoldsItsRows, RecordInv
<1> QED BY <1>5, <1>6, <1>7, <1>8 DEF RecordInv

\* Every step keeps the inductive invariant.
LEMMA NextInv == ConstantsAssumption /\ RecordInv /\ [Next]_vars => RecordInv'
<1> SUFFICES ASSUME ConstantsAssumption, RecordInv, [Next]_vars PROVE RecordInv'
  OBVIOUS
<1>1. ASSUME NEW r \in Runs, Start(r) PROVE RecordInv'
  <2> DEFINE x == [Idle EXCEPT !.pc = "read", !.age = age, !.review = review]
  <2>0. /\ x = [pc |-> "read", i |-> 1, age |-> age, review |-> review, read |-> Missing,
                flushed |-> Idle.flushed]
        /\ "read" \in Phases /\ age \in RunAges /\ review \in Reviews
    BY IdleWith DEF Phases, Busy, RunAges, RecordInv, TypeInv
  <2>1. /\ x \in RunState /\ x.pc = "read" /\ x.i = 1
        /\ \A v \in WindowSet : x.flushed[v] = Missing
    <3> HIDE DEF x
    <3> QED BY <2>0, RunEnds
  <2>2. Set(r, x) /\ UNCHANGED <<age, review, records, faults>>
    BY <1>1 DEF Start
  <2> HIDE DEF x
  <2>3. \A j \in 1..Len(Windows) : ~(j < x.i) /\ Windows[j] \in WindowSet
    BY <2>1, WindowFacts DEF ConstantsAssumption
  <2>4. age' \in Ages /\ faults' \in 0..MaxFaults
    BY <2>2 DEF RecordInv, TypeInv
  <2> QED BY <2>1, <2>2, <2>3, <2>4, StepKeeps DEF Busy, Set
<1>2. ASSUME NEW r \in Runs, ReadRecord(r) PROVE RecordInv'
  <2> DEFINE t == run[r]
             x == [t EXCEPT !.pc = "flush", !.read = records[WindowOf(r)]]
  <2>1. t \in RunState /\ t.pc = "read" /\ WindowOf(r) = Windows[t.i] /\ WindowOf(r) \in WindowSet
    BY <1>2, WindowFacts DEF ReadRecord, RecordInv, TypeInv, RunState, WindowOf, ConstantsAssumption
  <2>2. records[WindowOf(r)] \in RowOrNone
    BY <2>1 DEF RecordInv, TypeInv
  <2>3. /\ x \in RunState /\ x.pc = "flush" /\ x.i = t.i /\ x.flushed = t.flushed
        /\ x.read = records[WindowOf(r)]
    <3> DEFINE row == records[WindowOf(r)]
    <3>1. t \in RunState /\ row \in RowOrNone /\ "flush" \in Phases
      BY <2>1, <2>2 DEF Phases, Busy
    <3> HIDE DEF t, row
    <3>2. [t EXCEPT !.pc = "flush", !.read = row] \in RunState
      BY <3>1 DEF RunState
    <3>3. /\ [t EXCEPT !.pc = "flush", !.read = row].pc = "flush"
          /\ [t EXCEPT !.pc = "flush", !.read = row].i = t.i
          /\ [t EXCEPT !.pc = "flush", !.read = row].flushed = t.flushed
          /\ [t EXCEPT !.pc = "flush", !.read = row].read = row
      BY <3>1 DEF RunState
    <3> QED BY <3>2, <3>3 DEF row
  <2>4. Set(r, x) /\ UNCHANGED <<age, review, records, faults>>
    BY <1>2 DEF ReadRecord
  <2>5. x.read = records[Windows[x.i]]
    BY <2>1, <2>3
  <2>6. age' \in Ages /\ faults' \in 0..MaxFaults
    BY <2>4 DEF RecordInv, TypeInv
  <2>7. \A j \in 1..Len(Windows) : /\ j < t.i => t.flushed[Windows[j]].run = r
                                   /\ j >= t.i => t.flushed[Windows[j]] = Missing
    BY <2>1 DEF RecordInv, HoldsItsRows
  <2> HIDE DEF x, t
  <2> QED BY <2>1, <2>3, <2>4, <2>5, <2>6, <2>7, StepKeeps DEF Busy, Set
<1>3. ASSUME NEW r \in Runs, Interrupt(r) PROVE RecordInv'
  <2> DEFINE x == [Idle EXCEPT !.pc = "failed"]
  <2>0. /\ x = [pc |-> "failed", i |-> 1, age |-> 0, review |-> "candidate", read |-> Missing,
                flushed |-> Idle.flushed]
        /\ "failed" \in Phases /\ 0 \in RunAges /\ "candidate" \in Reviews
    BY IdleWith DEF Phases, RunAges, Reviews
  <2>1. x \in RunState /\ x.pc = "failed" /\ \A v \in WindowSet : x.flushed[v] = Missing
    <3> HIDE DEF x
    <3> QED BY <2>0, RunEnds
  <2>2. Set(r, x) /\ UNCHANGED <<age, review, records>> /\ faults < MaxFaults /\ faults' = faults + 1
    BY <1>3 DEF Interrupt
  <2> HIDE DEF x
  <2>3. age' \in Ages /\ faults' \in 0..MaxFaults
    BY <2>2 DEF RecordInv, TypeInv, ConstantsAssumption, BoundsAssumption
  <2> QED BY <2>1, <2>2, <2>3, StepKeeps DEF Busy, Set
<1>4. ASSUME UNCHANGED <<records, run, faults>>, age' \in Ages, review' \in Reviews
      PROVE  RecordInv'
  BY <1>4 DEF RecordInv, TypeInv, AllOfOneRun, HoldsItsRows, WindowOf
<1>5. TimePasses => UNCHANGED <<records, run, faults>> /\ age' \in Ages /\ review' \in Reviews
  BY AgeTyped DEF TimePasses, ConstantsAssumption, RecordInv, TypeInv
<1>6. ReviewSignal => UNCHANGED <<records, run, faults>> /\ age' \in Ages /\ review' \in Reviews
  BY DEF ReviewSignal, Reviews, RecordInv, TypeInv
<1>7. UNCHANGED vars => UNCHANGED <<records, run, faults>> /\ age' \in Ages /\ review' \in Reviews
  BY DEF vars, RecordInv, TypeInv
<1> QED
  BY <1>1, <1>2, <1>3, <1>4, <1>5, <1>6, <1>7, FlushKeeps, CommitKeeps DEF Next, Work

\* The inductive invariant holds.
LEMMA RecordAlways == ASSUME ConstantsAssumption PROVE Spec => []RecordInv
BY InitInv, NextInv, PTL DEF Spec

-----------------------------------------------------------------------------
\* Runs that wait for rows of one another never all wait: the one that has come
\* farthest through the windows waits for none.
LEMMA FarthestRunMoves == ASSUME ConstantsAssumption, RecordInv PROVE SomeRunMoves
<1> DEFINE busy == {r \in Runs : run[r].pc \in {"read", "flush", "commit"}}
           waiting == {r \in busy : run[r].pc = "flush" /\ Held(WindowOf(r), r)}
           places == {run[r].i : r \in busy}
<1> SUFFICES ASSUME busy # {}, busy = waiting PROVE FALSE
  BY DEF SomeRunMoves
<1>1. \A r \in Runs : run[r].i \in 1..Len(Windows) /\ run[r].i \in Nat
  BY WindowFacts DEF RecordInv, TypeInv, RunState, ConstantsAssumption
<1> HIDE DEF busy, waiting
<1>2. /\ places \in SUBSET Nat /\ places # {} /\ \A n \in places : n <= Len(Windows)
      /\ Len(Windows) \in Nat
  <2>1. busy \subseteq Runs /\ Len(Windows) \in Nat
    BY WindowFacts DEF busy, ConstantsAssumption
  <2> QED BY <1>1, <2>1
<1>3. PICK most \in places : \A n \in places : n <= most
  <2> HIDE DEF places
  <2> QED BY <1>2, GreatestNumber
<1>4. PICK r \in busy : run[r].i = most
  OBVIOUS
<1>5. PICK s \in Runs \ {r} : run[s].flushed[Windows[run[r].i]] # Missing
  BY DEF Held, WindowOf, waiting
<1>6. s \in busy
  BY <1>1, <1>5, WindowFacts DEF RecordInv, HoldsItsRows, Busy, ConstantsAssumption, busy
<1>7. run[s].pc = "flush" /\ run[s].i <= run[r].i
  BY <1>3, <1>4, <1>6 DEF waiting
<1>8. run[s].flushed[Windows[run[r].i]] = Missing
  BY <1>1, <1>4, <1>5, <1>6, <1>7 DEF RecordInv, HoldsItsRows, busy
<1> QED BY <1>5, <1>8

\* However score runs overlap, fail and are cut off, the records of a signal are all there
\* or not at all and of one run, and the runs never all wait for rows of one another
\* (_upsert_score_record, and the one commit of generate_signal_scores).
THEOREM RecordsCorrect == ASSUME ConstantsAssumption PROVE Spec => []RecordsOfOneRun
<1>1. RecordInv => TypeOK
  <2> SUFFICES ASSUME RecordInv PROVE TypeOK
    OBVIOUS
  <2>1. \A r \in Runs : run[r].i \in 1..Len(Windows) /\ run[r].age \in Ages \cup {0}
    BY DEF RecordInv, TypeInv, RunState, RunAges
  <2>2. \A w \in WindowSet : records[w] \in Row \/ records[w] = Missing
    BY DEF RecordInv, TypeInv, RowOrNone
  <2>3. \A w \in WindowSet : records[w].run \in Runs \cup {0}
    BY <2>2 DEF Row, Missing
  <2> QED BY <2>1, <2>3 DEF RecordInv, TypeInv, TypeOK, Reviews
<1>2. RecordInv => RecordsOfOneRun
  BY <1>1, FarthestRunMoves DEF RecordInv, RecordsOfOneRun
<1> QED BY <1>2, RecordAlways, PTL

-----------------------------------------------------------------------------
(* Without overlap nothing is lost between the read of a record and its update. *)

\* What a run at an age makes of a window, by a review of the signal.
OfScoring(row, w, a) ==
    /\ row.evaluated = a /\ row.status = ScoreStatus(w, a)
    /\ \E v \in Reviews : /\ row.composite = CompositeScore(ComponentsAt(v, a))
                          /\ row.components = ComponentsAt(v, a)
    /\ row.details.age = a /\ (row.details.complete <=> row.status = "generated")

\* A run is alone, is not older than any record, and has read the record it updates.
Alone(r) ==
    /\ run[r].age \in Ages /\ run[r].age <= age
    /\ \A w \in WindowSet : records[w] # Missing => records[w].evaluated <= run[r].age
    /\ \A w \in WindowSet : run[r].flushed[w] # Missing =>
          OfScoring(run[r].flushed[w], w, run[r].age)
    /\ run[r].pc = "flush" => run[r].read = records[WindowOf(r)]
    /\ \A s \in Runs : run[s].pc \in Busy => s = r

RecordsOfScorings ==
    \A w \in WindowSet : records[w] # Missing =>
        records[w].evaluated <= age /\ OfScoring(records[w], w, records[w].evaluated)

SerialInv == RecordsOfScorings /\ \A r \in Runs : run[r].pc \in Busy => Alone(r)

\* The components of a signal are numbers, of which age moves one and a review another.
LEMMA ComponentsAreNumbers ==
    ASSUME SignalAssumption
    PROVE  \E n \in Int : \A v : \A a \in Nat :
              CompositeScore(ComponentsAt(v, a)) = n + ReviewScore(v) * 20 + TimelinessScore(a) * 6
<1>1. PriorityScore(Signal.priority) \in Int /\ LifecycleScore(Signal.stage) \in Int
  BY DEF PriorityScore, LifecycleScore
<1>2. EvidenceScore(Signal.evidence) \in Int
  BY DEF SignalAssumption, EvidenceScore, Smaller
<1>3. ContinuityScore(Signal.continuity) \in Int
  BY DEF SignalAssumption, ContinuityScore, Smaller, Larger
<1>4. DataQualityScore(Signal.quality) \in Int
  <2>1. StatusScore(Signal.quality.status) \in Int
    BY DEF StatusScore
  <2>2. \A x \in Int : Clamp(x) \in Int /\ RoundTenths(x) \in Int /\ Smaller(30, x) \in Int
    BY DEF Clamp, Smaller, Larger, RoundTenths
  <2>3. CASE Signal.quality = Absent
    BY <2>3 DEF DataQualityScore
  <2>4. CASE Signal.quality # Absent
    <3> DEFINE status == StatusScore(Signal.quality.status)
               missing == Signal.quality.missing
               confidence == IF Signal.quality.confidence = -1 THEN status
                             ELSE Clamp(Signal.quality.confidence)
    <3>1. status \in Int /\ missing \in Int /\ confidence \in Int
      BY <2>1, <2>2, <2>4 DEF SignalAssumption
    <3>2. DataQualityScore(Signal.quality)
            = Clamp(RoundTenths(status * 6 + confidence * 4) - Smaller(30, missing * 5))
      BY <2>4 DEF DataQualityScore
    <3> HIDE DEF status, missing, confidence
    <3>3. status * 6 + confidence * 4 \in Int /\ missing * 5 \in Int
      BY <3>1
    <3>4. RoundTenths(status * 6 + confidence * 4) \in Int /\ Smaller(30, missing * 5) \in Int
      BY <2>2, <3>3
    <3> QED BY <2>2, <3>2, <3>4
  <2> QED BY <2>3, <2>4
<1> DEFINE p == PriorityScore(Signal.priority)
           l == LifecycleScore(Signal.stage)
           e == EvidenceScore(Signal.evidence)
           c == ContinuityScore(Signal.continuity)
           q == DataQualityScore(Signal.quality)
           n == p * 22 + l * 16 + e * 16 + c * 12 + q * 8
<1>5. p \in Int /\ l \in Int /\ e \in Int /\ c \in Int /\ q \in Int
  BY <1>1, <1>2, <1>3, <1>4
<1>6. ASSUME NEW v, NEW a \in Nat
      PROVE  CompositeScore(ComponentsAt(v, a)) = n + ReviewScore(v) * 20 + TimelinessScore(a) * 6
  <2> DEFINE k == ComponentsAt(v, a)
             s == [Signal EXCEPT !.review = v]
  <2>1. /\ s.priority = Signal.priority /\ s.stage = Signal.stage /\ s.review = v
        /\ s.evidence = Signal.evidence /\ s.continuity = Signal.continuity
        /\ s.quality = Signal.quality
    BY DEF SignalAssumption
  <2>2. /\ k.priority = p /\ k.lifecycle = l /\ k.review = ReviewScore(v) /\ k.evidence = e
        /\ k.continuity = c /\ k.data_quality = q /\ k.timeliness = TimelinessScore(a)
    <3> HIDE DEF s
    <3>1. k = ScoreComponents(s, a)
      BY DEF ComponentsAt, s
    <3> QED BY <2>1, <3>1 DEF ScoreComponents
  <2>3. CompositeScore(k) = p * 22 + l * 16 + ReviewScore(v) * 20 + e * 16 + c * 12 + q * 8
                            + TimelinessScore(a) * 6
    <3> HIDE DEF k, p, l, e, c, q
    <3> QED BY <2>2 DEF CompositeScore, ScoringWeights
  <2>4. ReviewScore(v) \in Int /\ TimelinessScore(a) \in Int
    BY DEF ReviewScore, TimelinessScore
  <2> HIDE DEF k, p, l, e, c, q
  <2>5. CompositeScore(k) = n + ReviewScore(v) * 20 + TimelinessScore(a) * 6
    BY <1>5, <2>3, <2>4
  <2> QED BY <2>5 DEF k
<1>7. n \in Int
  <2> HIDE DEF p, l, e, c, q
  <2> QED BY <1>5
<1> HIDE DEF n
<1> QED BY <1>6, <1>7

\* With age the composite gains no more than a review gives it, and windows that are
\* over stay so.
LEMMA AgeLowers ==
    ASSUME SignalAssumption, NEW a \in Nat, NEW b \in Nat, a <= b, NEW w \in Nat, NEW u, NEW v
    PROVE  /\ CompositeScore(ComponentsAt(v, b)) - CompositeScore(ComponentsAt(u, a))
                 <= ScoringWeights.review * (ReviewScore(v) - ReviewScore(u))
           /\ ScoreStatus(w, a) = "generated" => ScoreStatus(w, b) = "generated"
<1>1. PICK n \in Int : \A x : \A y \in Nat :
         CompositeScore(ComponentsAt(x, y)) = n + ReviewScore(x) * 20 + TimelinessScore(y) * 6
  BY ComponentsAreNumbers
<1>2. TimelinessScore(b) <= TimelinessScore(a) /\ TimelinessScore(a) \in Int
      /\ TimelinessScore(b) \in Int /\ ReviewScore(u) \in Int /\ ReviewScore(v) \in Int
  BY DEF TimelinessScore, ReviewScore
<1>3. ScoreStatus(w, a) = "generated" => ScoreStatus(w, b) = "generated"
  BY DEF ScoreStatus
<1>4. ScoringWeights.review = 20
  BY DEF ScoringWeights
<1>5. /\ CompositeScore(ComponentsAt(v, b)) = n + ReviewScore(v) * 20 + TimelinessScore(b) * 6
      /\ CompositeScore(ComponentsAt(u, a)) = n + ReviewScore(u) * 20 + TimelinessScore(a) * 6
  BY <1>1
<1> QED BY <1>2, <1>3, <1>4, <1>5

\* An update of the record a run has read leaves the row the run has made.
LEMMA SentIsNew ==
    ASSUME TypeInv, NEW r \in Runs, NEW w, NEW read
    PROVE  Sent(read, Record(r, w), read) = Record(r, w)
<1> DEFINE new == Record(r, w)
<1>1. new \in Row
  BY RecordIsRow
<1> HIDE DEF new
<1>2. Sent(read, new, read) = [k \in DOMAIN new |-> new[k]]
  BY DEF Sent
<1>3. new = [k \in DOMAIN new |-> new[k]]
  BY <1>1 DEF Row
<1> QED BY <1>2, <1>3 DEF new

\* A step of one run, alone at its work or at its end, that leaves the records alone.
LEMMA SerialStep ==
    ASSUME ConstantsAssumption, RecordInv, SerialInv, NEW r \in Runs, NEW x \in RunState,
           run' = [run EXCEPT ![r] = x], UNCHANGED <<records, age>>,
           x.pc \in Busy =>
              /\ x.age \in Ages /\ x.age <= age
              /\ \A w \in WindowSet : records[w] # Missing => records[w].evaluated <= x.age
              /\ \A w \in WindowSet : x.flushed[w] # Missing => OfScoring(x.flushed[w], w, x.age)
              /\ x.pc = "flush" => x.read = records[Windows[x.i]]
              /\ \A s \in Runs : run[s].pc \in Busy => s = r
    PROVE  SerialInv'
<1>1. /\ \A s \in Runs : run'[s] = IF s = r THEN x ELSE run[s]
      /\ records' = records /\ age' = age
  BY DEF RecordInv, TypeInv
<1>2. RecordsOfScorings'
  BY <1>1 DEF SerialInv, RecordsOfScorings, OfScoring
<1>3. ASSUME x.pc \in Busy PROVE Alone(r)'
  BY <1>1, <1>3 DEF Alone, WindowOf, OfScoring
<1>4. ASSUME NEW s \in Runs, s # r, run[s].pc \in Busy PROVE Alone(s)'
  <2>1. Alone(s) /\ x.pc \notin Busy
    BY <1>4 DEF SerialInv
  <2> QED BY <1>1, <1>4, <2>1 DEF Alone, WindowOf, OfScoring
<1> QED BY <1>1, <1>2, <1>3, <1>4 DEF SerialInv

\* The steps of Next keep it.
LEMMA SerialKept ==
    ASSUME ConstantsAssumption, SignalAssumption, MaxActive = 1, RecordInv, SerialInv, [Next]_vars
    PROVE  SerialInv'
<1>1. ASSUME NEW r \in Runs, Start(r) PROVE SerialInv'
  <2> DEFINE x == [Idle EXCEPT !.pc = "read", !.age = age, !.review = review]
             busy == {s \in Runs : run[s].pc \notin {"idle", "done", "failed"}}
  <2>1. /\ x = [pc |-> "read", i |-> 1, age |-> age, review |-> review, read |-> Missing,
                flushed |-> Idle.flushed]
        /\ "read" \in Phases /\ age \in RunAges /\ review \in Reviews /\ age \in Ages
    BY IdleWith DEF Phases, Busy, RunAges, RecordInv, TypeInv
  <2>2. /\ x \in RunState /\ x.pc = "read" /\ x.age = age
        /\ \A v \in WindowSet : x.flushed[v] = Missing
    <3> HIDE DEF x
    <3> QED BY <2>1, RunEnds
  <2>3. run' = [run EXCEPT ![r] = x] /\ UNCHANGED <<records, age>>
    BY <1>1 DEF Start, Set
  <2>4. \A s \in Runs : run[s].pc \notin Busy
    <3> SUFFICES ASSUME NEW s \in Runs, run[s].pc \in Busy PROVE FALSE
      OBVIOUS
    <3>1. \A u \in Runs : run[u].pc \in Busy <=> u = s
      BY DEF SerialInv, Alone
    <3>2. \A u \in Runs : run[u].pc \in Phases
      BY DEF RecordInv, TypeInv, RunState
    <3>3. busy = {s}
      BY <3>1, <3>2 DEF Phases, Busy
    <3>4. Cardinality({s}) = 1
      BY FS_Singleton
    <3>5. Cardinality(busy) < 1
      BY <1>1 DEF Start
    <3> QED BY <3>3, <3>4, <3>5
  <2>5. age <= age /\ \A w \in WindowSet : records[w] # Missing => records[w].evaluated <= age
    BY <2>1 DEF SerialInv, RecordsOfScorings, ConstantsAssumption, AgesAssumption
  <2> HIDE DEF x, busy
  <2> QED BY <2>1, <2>2, <2>3, <2>4, <2>5, SerialStep
<1>2. ASSUME NEW r \in Runs, ReadRecord(r) PROVE SerialInv'
  <2> DEFINE t == run[r]
             row == records[WindowOf(r)]
             x == [t EXCEPT !.pc = "flush", !.read = row]
  <2>1. t \in RunState /\ t.pc = "read" /\ WindowOf(r) = Windows[t.i] /\ WindowOf(r) \in WindowSet
    BY <1>2, WindowFacts DEF ReadRecord, RecordInv, TypeInv, RunState, WindowOf, ConstantsAssumption
  <2>2. row \in RowOrNone /\ "flush" \in Phases
    BY <2>1 DEF RecordInv, TypeInv, Phases, Busy
  <2>3. run' = [run EXCEPT ![r] = x] /\ UNCHANGED <<records, age>>
    BY <1>2 DEF ReadRecord, Set
  <2>4. Alone(r)
    BY <2>1 DEF SerialInv, Busy
  <2> HIDE DEF t, row
  <2>5. /\ x \in RunState /\ x.pc = "flush" /\ x.i = t.i /\ x.flushed = t.flushed
        /\ x.read = row /\ x.age = t.age
    <3>1. x \in RunState
      BY <2>1, <2>2 DEF RunState
    <3>2. /\ x.pc = "flush" /\ x.i = t.i /\ x.flushed = t.flushed /\ x.read = row
          /\ x.age = t.age
      BY <2>1 DEF RunState
    <3> QED BY <3>1, <3>2
  <2> HIDE DEF x
  <2> QED BY <2>1, <2>3, <2>4, <2>5, SerialStep DEF Alone, t, row
<1>3. ASSUME NEW r \in Runs, Flush(r) PROVE SerialInv'
  <2> DEFINE t == run[r]
             w == WindowOf(r)
             new == Record(r, w)
             y == [t EXCEPT !.flushed[w] = new]
  <2>1. /\ t \in RunState /\ t.pc = "flush" /\ w = Windows[t.i] /\ t.i \in 1..Len(Windows)
        /\ w \in WindowSet /\ Len(Windows) \in Nat
    BY <1>3, WindowFacts DEF RecordInv, TypeInv, RunState, Flush, WindowOf, ConstantsAssumption
  <2>2. Alone(r) /\ t.read = records[w]
    BY <2>1 DEF SerialInv, Busy, Alone
  <2>3. new \in Row /\ OfScoring(new, w, t.age)
    <3>1. new \in Row
      BY RecordIsRow DEF RecordInv
    <3>2. t.review \in Reviews
      BY <2>1 DEF RunState
    <3>3. new = [run |-> r, evaluated |-> t.age, status |-> ScoreStatus(w, t.age),
                 composite |-> CompositeScore(ComponentsAt(t.review, t.age)),
                 components |-> ComponentsAt(t.review, t.age),
                 details |-> [age |-> t.age, complete |-> ScoreStatus(w, t.age) = "generated"]]
      BY DEF Record
    <3> HIDE DEF new, w, t
    <3>4. OfScoring(new, w, t.age)
      BY <3>2, <3>3 DEF OfScoring
    <3> QED BY <3>1, <3>4
  <2>4. Sent(t.read, new, records[w]) = new
    BY <2>2, SentIsNew DEF RecordInv
  <2>5. run' = [run EXCEPT ![r] = NextWindow(y)] /\ UNCHANGED <<records, age>>
    <3> HIDE DEF new, w, y
    <3>1. t.read # Missing => Set(r, NextWindow([t EXCEPT !.flushed[w] = Sent(t.read, new, records[w])]))
      BY <1>3 DEF Flush, w, new
    <3>2. t.read = Missing => Set(r, NextWindow(y))
      BY <1>3, <2>2 DEF Flush, w, new, y
    <3>3. UNCHANGED <<records, age>>
      BY <1>3 DEF Flush
    <3> QED BY <2>4, <3>1, <3>2, <3>3 DEF Set, y
  <2> HIDE DEF new, t, w
  <2>6. y = [pc |-> t.pc, i |-> t.i, age |-> t.age, review |-> t.review, read |-> t.read,
             flushed |-> [t.flushed EXCEPT ![w] = new]]
    BY <2>1 DEF RunState
  <2> DEFINE end == ~(t.i < Len(Windows))
             x == [pc |-> IF end THEN "commit" ELSE "read", i |-> IF end THEN t.i ELSE t.i + 1,
                   age |-> t.age, review |-> t.review, read |-> t.read,
                   flushed |-> [t.flushed EXCEPT ![w] = new]]
  <2>7. NextWindow(y) = x
    BY <2>6 DEF NextWindow
  <2>8. x \in RunState
    BY <2>1, <2>3 DEF RunState, Phases, Busy, RowOrNone
  <2>9. /\ \A v \in WindowSet : x.flushed[v] = IF v = w THEN new ELSE t.flushed[v]
        /\ x.pc \in {"read", "commit"} /\ x.age = t.age
    BY <2>1 DEF RunState
  <2> HIDE DEF x, y
  <2>10. \A v \in WindowSet : x.flushed[v] # Missing => OfScoring(x.flushed[v], v, t.age)
    BY <2>2, <2>3, <2>9 DEF Alone, t
  <2> QED BY <2>2, <2>5, <2>7, <2>8, <2>9, <2>10, SerialStep DEF Alone, t
<1>4. ASSUME NEW r \in Runs, Commit(r) PROVE SerialInv'
  <2> DEFINE x == [Idle EXCEPT !.pc = "done"]
  <2>1. /\ x = [pc |-> "done", i |-> 1, age |-> 0, review |-> "candidate", read |-> Missing,
                flushed |-> Idle.flushed]
        /\ "done" \in Phases /\ 0 \in RunAges /\ "candidate" \in Reviews
    BY IdleWith DEF Phases, RunAges, Reviews
  <2>2. x.pc = "done"
    BY <2>1
  <2>3. /\ run[r].pc = "commit" /\ run' = [run EXCEPT ![r] = x] /\ age' = age
        /\ records' = [w \in WindowSet |-> run[r].flushed[w]]
    BY <1>4 DEF Commit, Set
  <2> HIDE DEF x
  <2>4. Alone(r)
    BY <2>3 DEF SerialInv, Busy
  <2>5. RecordsOfScorings'
    BY <2>3, <2>4 DEF RecordsOfScorings, Alone, OfScoring
  <2>6. ASSUME NEW s \in Runs PROVE run'[s].pc \notin Busy
    <3>1. s = r => run'[s] = x
      BY <2>3 DEF RecordInv, TypeInv
    <3>2. s # r => run'[s] = run[s]
      BY <2>3 DEF RecordInv, TypeInv
    <3> QED BY <2>2, <2>4, <3>1, <3>2 DEF Alone, Busy
  <2> QED BY <2>5, <2>6 DEF SerialInv
<1>5. ASSUME NEW r \in Runs, Interrupt(r) PROVE SerialInv'
  <2> DEFINE x == [Idle EXCEPT !.pc = "failed"]
  <2>1. /\ x = [pc |-> "failed", i |-> 1, age |-> 0, review |-> "candidate", read |-> Missing,
                flushed |-> Idle.flushed]
        /\ "failed" \in Phases /\ 0 \in RunAges /\ "candidate" \in Reviews
    BY IdleWith DEF Phases, RunAges, Reviews
  <2>2. x \in RunState /\ x.pc = "failed"
    <3> HIDE DEF x
    <3> QED BY <2>1, RunEnds
  <2>3. run' = [run EXCEPT ![r] = x] /\ UNCHANGED <<records, age>>
    BY <1>5 DEF Interrupt, Set
  <2> HIDE DEF x
  <2> QED BY <2>2, <2>3, SerialStep DEF Busy
<1>6. ASSUME UNCHANGED <<records, run>>, age' \in Ages, age <= age' PROVE SerialInv'
  <2>1. \A b : b \in Ages => b \in Nat
    BY DEF ConstantsAssumption, AgesAssumption
  <2>2. age \in Ages
    BY DEF RecordInv, TypeInv
  <2>3. ASSUME NEW s \in Runs, run[s].pc \in Busy PROVE Alone(s)'
    BY <1>6, <2>1, <2>2, <2>3 DEF SerialInv, Alone, WindowOf, OfScoring
  <2>4. RecordsOfScorings'
    <3> SUFFICES ASSUME NEW w \in WindowSet, records[w] # Missing
                 PROVE  records[w].evaluated <= age' /\ OfScoring(records[w], w, records[w].evaluated)
      BY <1>6 DEF RecordsOfScorings, OfScoring
    <3>1. records[w].evaluated <= age /\ OfScoring(records[w], w, records[w].evaluated)
      BY DEF SerialInv, RecordsOfScorings
    <3>2. records[w].evaluated \in Nat
      BY <2>1 DEF RecordInv, TypeInv, RowOrNone, Row, RunAges
    <3> QED BY <1>6, <2>1, <2>2, <3>1, <3>2
  <2> QED BY <1>6, <2>3, <2>4 DEF SerialInv
<1>7. TimePasses => UNCHANGED <<records, run>> /\ age' \in Ages /\ age <= age'
  <2> SUFFICES ASSUME TimePasses PROVE UNCHANGED <<records, run>> /\ age' \in Ages /\ age <= age'
    OBVIOUS
  <2> DEFINE later == {a \in Ages : a > age}
  <2>1. later \in SUBSET Nat /\ later # {}
    BY DEF TimePasses, ConstantsAssumption, AgesAssumption
  <2>2. PICK a \in later : \A b \in later : a <= b
    BY <2>1, LeastNumber
  <2>3. \E c \in Ages : c > age /\ \A b \in Ages : b > age => c <= b
    BY <2>2
  <2>4. age' \in Ages /\ age' > age
    BY <2>3 DEF TimePasses
  <2>5. age \in Nat /\ age' \in Nat
    BY <2>4 DEF RecordInv, TypeInv, ConstantsAssumption, AgesAssumption
  <2> QED BY <2>4, <2>5 DEF TimePasses
<1>8. UNCHANGED vars => UNCHANGED <<records, run>> /\ age' \in Ages /\ age <= age'
  <2>1. age \in Ages /\ age \in Nat
    BY DEF RecordInv, TypeInv, ConstantsAssumption, AgesAssumption
  <2> QED BY <2>1 DEF vars
<1>9. ReviewSignal => UNCHANGED <<records, run>> /\ age' \in Ages /\ age <= age'
  <2>1. age \in Ages /\ age \in Nat
    BY DEF RecordInv, TypeInv, ConstantsAssumption, AgesAssumption
  <2> QED BY <2>1 DEF ReviewSignal
<1> QED
  BY <1>1, <1>2, <1>3, <1>4, <1>5, <1>6, <1>7, <1>8, <1>9 DEF Next, Work

\* Nothing is recorded, and no run is under way, at first.
LEMMA SerialInit == ASSUME Init PROVE SerialInv
BY DEF Init, Idle, Busy, SerialInv, RecordsOfScorings

\* What the components of a signal say of its review and its age.
LEMMA ComponentsOf ==
    ASSUME SignalAssumption, NEW v, NEW a
    PROVE  /\ ComponentsAt(v, a).review = ReviewScore(v)
           /\ ComponentsAt(v, a).timeliness = TimelinessScore(a)
BY DEF ComponentsAt, ScoreComponents, SignalAssumption

\* Only a commit changes records, and then the run that has made the new ones is not
\* older than any of the old.
LEMMA RecordsAge ==
    ASSUME ConstantsAssumption, SignalAssumption, RecordInv, SerialInv, [Next]_vars
    PROVE  ScoresAge
<1> SUFFICES ASSUME NEW w \in WindowSet, records[w] # Missing, records'[w] # records[w]
             PROVE  /\ records'[w].evaluated >= records[w].evaluated
                    /\ Gain(w) <= ReviewGain(w)
                    /\ records[w].status = "generated" => records'[w].status = "generated"
  BY DEF ScoresAge
<1>1. PICK r \in Runs : Commit(r)
  BY DEF Next, vars, Start, Work, ReadRecord, Flush, Interrupt, TimePasses, ReviewSignal
<1>2. run[r].pc = "commit" /\ records'[w] = run[r].flushed[w] /\ Alone(r)
  BY <1>1 DEF Commit, SerialInv, Busy
<1>3. run[r].flushed[w] # Missing
  <2>1. run[r].flushed[w] \in RowOrNone /\ run[r].flushed[w].run = r
    BY <1>2 DEF RecordInv, TypeInv, RunState, HoldsItsRows
  <2> QED BY <2>1, RowIsThere DEF ConstantsAssumption
<1> DEFINE a == records[w].evaluated
           b == run[r].age
<1>4. /\ OfScoring(records'[w], w, b) /\ OfScoring(records[w], w, a) /\ a <= b
  BY <1>2, <1>3 DEF Alone, SerialInv, RecordsOfScorings
<1>5. a \in Nat /\ b \in Nat /\ w \in Nat
  <2>1. records[w] \in Row
    BY DEF RecordInv, TypeInv, RowOrNone
  <2>2. a \in RunAges /\ b \in Ages
    BY <1>2, <2>1 DEF Row, Alone
  <2>3. w \in {1, 3, 5, 10}
    BY WindowFacts DEF ConstantsAssumption
  <2>4. RunAges \subseteq Nat /\ Ages \subseteq Nat
    BY DEF RunAges, ConstantsAssumption, AgesAssumption
  <2> HIDE DEF a, b
  <2> QED BY <2>2, <2>3, <2>4
<1> HIDE DEF a, b
<1>6. PICK u \in Reviews : /\ records[w].composite = CompositeScore(ComponentsAt(u, a))
                           /\ records[w].components = ComponentsAt(u, a)
  BY <1>4 DEF OfScoring
<1>7. PICK v \in Reviews : /\ records'[w].composite = CompositeScore(ComponentsAt(v, b))
                           /\ records'[w].components = ComponentsAt(v, b)
  BY <1>4 DEF OfScoring
<1>8. records[w].components.review = ReviewScore(u) /\ records'[w].components.review = ReviewScore(v)
  BY <1>6, <1>7, ComponentsOf
<1>9. Gain(w) <= ReviewGain(w)
  BY <1>4, <1>5, <1>6, <1>7, <1>8, AgeLowers DEF Gain, ReviewGain
<1>10. ScoreStatus(w, a) = "generated" => ScoreStatus(w, b) = "generated"
  BY <1>4, <1>5 DEF ScoreStatus
<1> QED BY <1>4, <1>9, <1>10 DEF OfScoring

\* While runs do not overlap a record that is written again gains no more than what a
\* review of its signal between them has gained, a window that was complete stays so, and
\* the status, the composite, the components and the details of a record are of one
\* scoring (generate_signal_scores, _upsert_score_record).
THEOREM SerialScoresCorrect ==
    ASSUME ConstantsAssumption, SignalAssumption, MaxActive = 1
    PROVE  Spec => [][ScoresAge /\ RecordsAreOfOneScoring']_vars
<1>1. Init => SerialInv
  BY SerialInit
<1>2. RecordInv /\ SerialInv /\ [Next]_vars => SerialInv'
  BY SerialKept
<1>3. SerialInv => RecordsAreOfOneScoring
  <2> SUFFICES ASSUME SerialInv PROVE RecordsAreOfOneScoring
    OBVIOUS
  <2>1. \A v, a : ComponentsAt(v, a).timeliness = TimelinessScore(a)
    BY ComponentsOf
  <2>2. ASSUME NEW w \in WindowSet, records[w] # Missing
        PROVE  OfScoring(records[w], w, records[w].evaluated)
    BY <2>2 DEF SerialInv, RecordsOfScorings
  <2> QED BY <2>1, <2>2 DEF OfScoring, RecordsAreOfOneScoring
<1>4. SerialInv' => RecordsAreOfOneScoring'
  BY <1>3, PTL
<1>5. RecordInv /\ SerialInv /\ [Next]_vars => [ScoresAge /\ RecordsAreOfOneScoring']_vars
  BY <1>2, <1>4, RecordsAge
<1> QED BY <1>1, <1>2, <1>5, RecordAlways, PTL DEF Spec

-----------------------------------------------------------------------------
(* Reports rest on the verdict of their signal, which never changes; the figures
   of a period only grow, and a periodic report reads each of them once. *)
CONSTANTS Users, Requests, Types, Periods, Verdicts, DAY, DAYS, OFFSET, TopLimit,
          MaxSignals, MaxReports, MaxPushes, MaxTime
VARIABLES clock, signals, reports, pushes, request, reader, last
Book == INSTANCE ReportBook

\* A table of dated rows of users, and the rows of a signal.
DatedRows(table) == /\ table \in Seq({table[i] : i \in 1 .. Len(table)})
                    /\ Len(table) \in Nat
                    /\ \A i \in DOMAIN table : table[i].at \in Nat

\* A row of radar_signals.
SignalRow == [at : Nat, priority : Book!Priorities, verdict : Verdicts,
              status : Verdicts \cup {"candidate"}]

SignalsTyped == DatedRows(signals) /\ \A i \in DOMAIN signals : signals[i] \in SignalRow

\* Signals have a time, a priority and a status.
BookTypes ==
    /\ clock \in Nat
    /\ SignalsTyped /\ DatedRows(reports) /\ DatedRows(pushes)
    /\ request \in [Requests -> {Book!Idle} \cup
            [pc : {"reviewed"}, user : Users, signal : Nat, type : Types, at : Nat,
             status : Verdicts]]

\* A periodic report, made or in the making.
Reading == [pc : {"signals", "reports", "pushes", "done"}, user : Users, type : Periods,
            bounds : [start : Int, end : Nat], rows : SUBSET Nat,
            priorities : [Book!Priorities -> Nat], reviews : [Book!Statuses -> Nat],
            top : SUBSET Nat, report_count : Nat, push_count : Nat]

PeriodicTypes ==
    /\ reader = Book!Idle \/ (reader \in Reading /\ reader.pc # "done")
    /\ last \in [Users -> [Periods -> Reading \cup {Book!NoReport}]]

\* What a verdict makes of a report.
StatusFor(verdict) == IF verdict = "needs_human_review" THEN verdict ELSE "generated"

\* Reports and the requests under way rest on the verdict of their signal.
VerdictsHold ==
    /\ \A i \in DOMAIN reports :
          LET s == signals[reports[i].signal] IN
          /\ reports[i].signal \in DOMAIN signals /\ s.verdict # "blocked"
          /\ reports[i].status = StatusFor(s.verdict)
          /\ reports[i].label = Book!_suggestion_label(s.priority, s.verdict)
    /\ \A q \in Requests : request[q].pc = "reviewed" =>
          /\ request[q].signal \in DOMAIN signals
          /\ request[q].status = signals[request[q].signal].verdict
          /\ request[q].status # "blocked"

BookInv == BookTypes /\ VerdictsHold

\* A row appended to a table.
LEMMA RowAppended ==
    ASSUME NEW table, DatedRows(table), NEW row, row.at \in Nat
    PROVE  /\ DatedRows(Append(table, row))
           /\ DOMAIN table = 1 .. Len(table)
           /\ DOMAIN Append(table, row) = 1 .. Len(table) + 1
           /\ \A i \in DOMAIN table : Append(table, row)[i] = table[i]
           /\ Append(table, row)[Len(table) + 1] = row
<1> DEFINE S == {table[i] : i \in 1 .. Len(table)} \cup {row}
           t == Append(table, row)
<1>1. table \in Seq(S) /\ Len(table) \in Nat
  BY DEF DatedRows
<1>2. row \in S
  OBVIOUS
<1>3. DOMAIN table = 1 .. Len(table)
  BY <1>1
<1> HIDE DEF S
<1>4. /\ t \in Seq(S) /\ Len(t) = Len(table) + 1 /\ DOMAIN t = 1 .. Len(table) + 1
      /\ \A i \in 1 .. Len(table) : t[i] = table[i]
      /\ t[Len(table) + 1] = row
  BY <1>1, <1>2
<1> HIDE DEF t
<1>5. \A i \in DOMAIN t : t[i].at \in Nat
  BY <1>1, <1>3, <1>4 DEF DatedRows
<1>6. t \in Seq({t[i] : i \in 1 .. Len(t)})
  BY <1>4
<1>7. DatedRows(t)
  BY <1>1, <1>4, <1>5, <1>6 DEF DatedRows
<1> QED BY <1>3, <1>4, <1>7 DEF t

\* Signals keep their time, priority and verdict.
SignalsKept ==
    /\ DOMAIN signals \subseteq DOMAIN signals'
    /\ \A i \in DOMAIN signals : /\ signals'[i].at = signals[i].at
                                 /\ signals'[i].priority = signals[i].priority
                                 /\ signals'[i].verdict = signals[i].verdict

\* There are no reports at first.
LEMMA BookInitInv == Book!Init => BookInv
<1> SUFFICES ASSUME Book!Init PROVE BookInv
  OBVIOUS
<1>1. /\ \A t \in {signals, reports, pushes} : t = <<>> /\ DatedRows(t)
      /\ clock \in Nat
  BY DEF Book!Init, DatedRows
<1>2. \A q \in Requests : request[q] = Book!Idle /\ request[q].pc = "idle"
  BY DEF Book!Init, Book!Idle
<1>3. request \in [Requests -> {Book!Idle}]
  BY DEF Book!Init
<1> QED BY <1>1, <1>2, <1>3 DEF BookInv, BookTypes, SignalsTyped, VerdictsHold

\* What changes in the status of a signal is nothing else.
LEMMA SignalReviewed ==
    ASSUME BookInv, NEW q \in Requests, NEW u \in Users, NEW i \in DOMAIN signals,
           NEW t \in Types, Book!ReviewForReport(q, u, i, t)
    PROVE  SignalsTyped' /\ SignalsKept
<1>1. signals' = [signals EXCEPT ![i].status = signals[i].verdict]
  BY DEF Book!ReviewForReport, Book!Reviewed
<1>2. signals \in Seq({signals[j] : j \in 1 .. Len(signals)}) /\ Len(signals) \in Nat
      /\ DOMAIN signals = 1 .. Len(signals) /\ \A j \in DOMAIN signals : signals[j].at \in Nat
  BY DEF BookInv, BookTypes, SignalsTyped, DatedRows
<1>3. /\ DOMAIN signals' = DOMAIN signals
      /\ \A j \in DOMAIN signals : signals'[j] = IF j = i THEN [signals[i] EXCEPT !.status = signals[i].verdict]
                                             ELSE signals[j]
  BY <1>1
<1>4. \A j \in DOMAIN signals : /\ signals'[j] \in SignalRow
                                /\ signals'[j].at = signals[j].at
                                /\ signals'[j].priority = signals[j].priority
                                /\ signals'[j].verdict = signals[j].verdict
  <2> SUFFICES ASSUME NEW j \in DOMAIN signals
               PROVE  /\ signals'[j] \in SignalRow
                      /\ signals'[j].at = signals[j].at
                      /\ signals'[j].priority = signals[j].priority
                      /\ signals'[j].verdict = signals[j].verdict
    OBVIOUS
  <2>1. signals[j] \in SignalRow /\ signals[j].verdict \in Verdicts
    BY DEF BookInv, BookTypes, SignalsTyped, SignalRow
  <2> QED BY <1>3, <2>1 DEF SignalRow
<1>5. signals' \in Seq({signals'[j] : j \in 1 .. Len(signals)}) /\ Len(signals') = Len(signals)
  <2>1. signals' = [j \in 1 .. Len(signals) |-> signals'[j]]
    BY <1>1, <1>2, <1>3
  <2> QED BY <1>2, <2>1
<1> QED BY <1>2, <1>3, <1>4, <1>5 DEF SignalsTyped, DatedRows, SignalsKept

\* Whatever happens, the signals are kept and stay dated.
LEMMA SignalsStay ==
    ASSUME BookInv, [Book!Next]_Book!vars
    PROVE  SignalsTyped' /\ SignalsKept
<1>1. ASSUME NEW p \in Book!Priorities, NEW v \in Verdicts, Book!AddSignal(p, v)
      PROVE  SignalsTyped' /\ SignalsKept
  <2> DEFINE row == [at |-> clock, priority |-> p, verdict |-> v, status |-> "candidate"]
  <2>1. /\ signals' = Append(signals, row) /\ row \in SignalRow /\ row.at \in Nat
        /\ SignalsTyped
    BY <1>1 DEF Book!AddSignal, BookInv, BookTypes, SignalRow
  <2> HIDE DEF row
  <2> QED BY <2>1, RowAppended DEF SignalsKept, SignalsTyped
<1>2. UNCHANGED signals => SignalsTyped' /\ SignalsKept
  BY DEF SignalsKept, SignalsTyped, DatedRows, BookInv, BookTypes
<1>3. \/ UNCHANGED signals
      \/ \E p \in Book!Priorities, v \in Verdicts : Book!AddSignal(p, v)
      \/ \E q \in Requests, u \in Users, i \in DOMAIN signals, t \in Types :
            Book!ReviewForReport(q, u, i, t)
  BY DEF Book!Next, Book!vars, Book!Tick, Book!AddPush, Book!CommitReport, Book!LoseReport,
         Book!StartPeriodic, Book!ReadSignals, Book!ReadReports, Book!ReadPushes
<1> QED BY <1>1, <1>2, <1>3, SignalReviewed

\* Requests stay typed and with them the reports.
LEMMA RequestsStay ==
    ASSUME BookInv, [Book!Next]_Book!vars
    PROVE  BookInv'
<1> USE DEF BookInv
<1>1. SignalsTyped' /\ SignalsKept /\ SignalsTyped
  BY SignalsStay DEF BookTypes
<1>2. ASSUME UNCHANGED <<reports, pushes, request>>, clock' \in Nat PROVE BookInv'
  BY <1>1, <1>2 DEF BookTypes, VerdictsHold, SignalsKept
<1>3. CASE Book!Tick
  BY <1>2, <1>3 DEF Book!Tick, BookTypes
<1>4. ASSUME NEW p \in Book!Priorities, NEW v \in Verdicts, Book!AddSignal(p, v) PROVE BookInv'
  BY <1>2, <1>4 DEF Book!AddSignal, BookTypes
<1>5. ASSUME NEW u \in Users, Book!AddPush(u) PROVE BookInv'
  <2> DEFINE row == [user |-> u, at |-> clock]
  <2>1. pushes' = Append(pushes, row) /\ row.at \in Nat /\ DatedRows(pushes)
    BY <1>5 DEF Book!AddPush, BookTypes
  <2> HIDE DEF row
  <2>2. DatedRows(pushes')
    BY <2>1, RowAppended
  <2> QED BY <1>1, <1>5, <2>2 DEF Book!AddPush, BookTypes, VerdictsHold, SignalsKept
<1>6. ASSUME NEW q \in Requests, NEW u \in Users, NEW i \in DOMAIN signals, NEW t \in Types,
             Book!ReviewForReport(q, u, i, t)
      PROVE  BookInv'
  <2> DEFINE row == [pc |-> "reviewed", user |-> u, signal |-> i, type |-> t, at |-> clock,
                     status |-> signals[i].verdict]
  <2>1. /\ request' = [request EXCEPT ![q] = IF signals[i].verdict = "blocked" THEN Book!Idle ELSE row]
        /\ UNCHANGED <<clock, reports, pushes>>
    BY <1>6 DEF Book!ReviewForReport, Book!Reviewed
  <2>2. i \in Nat /\ signals[i].verdict \in Verdicts
    BY <1>1 DEF SignalsTyped, SignalRow, DatedRows
  <2>3. row \in [pc : {"reviewed"}, user : Users, signal : Nat, type : Types, at : Nat,
                 status : Verdicts]
    BY <2>2 DEF BookTypes
  <2>4. BookTypes'
    BY <1>1, <2>1, <2>3 DEF BookTypes
  <2>5. row.signal = i /\ row.status = signals[i].verdict /\ Book!Idle.pc = "idle"
    BY DEF Book!Idle
  <2> HIDE DEF row
  <2>6. ASSUME NEW p \in Requests, request'[p].pc = "reviewed"
        PROVE  /\ request'[p].signal \in DOMAIN signals'
               /\ request'[p].status = signals'[request'[p].signal].verdict
               /\ request'[p].status # "blocked"
    <3>1. CASE p = q
      BY <1>1, <2>1, <2>5, <2>6, <3>1 DEF BookTypes, SignalsKept
    <3>2. CASE p # q
      BY <1>1, <2>1, <2>6, <3>2 DEF BookTypes, SignalsKept, VerdictsHold
    <3> QED BY <3>1, <3>2
  <2> QED BY <1>1, <2>1, <2>4, <2>6 DEF VerdictsHold, SignalsKept
<1>7. ASSUME NEW q \in Requests, Book!LoseReport(q) PROVE BookInv'
  BY <1>1, <1>7 DEF Book!LoseReport, Book!Idle, BookTypes, VerdictsHold, SignalsKept
<1>8. ASSUME NEW q \in Requests, Book!CommitReport(q) PROVE BookInv'
  <2> DEFINE r == request[q]
             row == [user |-> r.user, signal |-> r.signal, type |-> r.type, at |-> r.at,
                     status |-> IF r.status = "needs_human_review" THEN r.status ELSE "generated",
                     label |-> Book!_suggestion_label(signals[r.signal].priority, r.status)]
  <2>1. /\ reports' = Append(reports, row) /\ request' = [request EXCEPT ![q] = Book!Idle]
        /\ UNCHANGED <<clock, signals, pushes>>
    BY <1>8 DEF Book!CommitReport
  <2>2. /\ r.pc = "reviewed" /\ r.at \in Nat /\ r.signal \in DOMAIN signals
        /\ r.status = signals[r.signal].verdict /\ r.status # "blocked"
    BY <1>8 DEF Book!CommitReport, BookTypes, VerdictsHold, Book!Idle
  <2>3. /\ row.at \in Nat /\ row.signal \in DOMAIN signals
        /\ signals[row.signal].verdict # "blocked"
        /\ row.status = StatusFor(signals[row.signal].verdict)
        /\ row.label = Book!_suggestion_label(signals[row.signal].priority,
                                              signals[row.signal].verdict)
    BY <2>2 DEF StatusFor
  <2> HIDE DEF row, r
  <2>4. /\ DatedRows(reports') /\ DOMAIN reports' = 1 .. Len(reports) + 1
        /\ DOMAIN reports = 1 .. Len(reports)
        /\ \A i \in DOMAIN reports : reports'[i] = reports[i]
        /\ reports'[Len(reports) + 1] = row
    BY <2>1, <2>3, RowAppended DEF BookTypes
  <2>5. BookTypes'
    BY <1>1, <2>1, <2>4 DEF BookTypes
  <2>6. ASSUME NEW i \in DOMAIN reports'
        PROVE  LET s == signals[reports'[i].signal] IN
               /\ reports'[i].signal \in DOMAIN signals /\ s.verdict # "blocked"
               /\ reports'[i].status = StatusFor(s.verdict)
               /\ reports'[i].label = Book!_suggestion_label(s.priority, s.verdict)
    <3>1. CASE i \in DOMAIN reports
      BY <2>4, <3>1 DEF VerdictsHold
    <3>2. CASE i = Len(reports) + 1
      BY <2>3, <2>4, <3>2
    <3> QED BY <2>4, <3>1, <3>2
  <2> QED BY <2>1, <2>5, <2>6 DEF VerdictsHold, BookTypes, Book!Idle
<1>9. \/ UNCHANGED <<clock, reports, pushes, request>> \/ Book!Tick
      \/ \E p \in Book!Priorities, v \in Verdicts : Book!AddSignal(p, v)
      \/ \E u \in Users : Book!AddPush(u)
      \/ \E q \in Requests, u \in Users, i \in DOMAIN signals, t \in Types :
            Book!ReviewForReport(q, u, i, t)
      \/ \E q \in Requests : Book!CommitReport(q) \/ Book!LoseReport(q)
  BY DEF Book!Next, Book!vars, Book!StartPeriodic, Book!ReadSignals, Book!ReadReports,
         Book!ReadPushes
<1> QED
  BY <1>2, <1>3, <1>4, <1>5, <1>6, <1>7, <1>8, <1>9 DEF BookTypes

\* All reports of a signal agree.
LEMMA ReportsOfSignalAgree == ASSUME BookInv PROVE Book!ReportsAgree
BY DEF BookInv, VerdictsHold, Book!ReportsAgree

-----------------------------------------------------------------------------
(***************************************************************************)
(* Periodic reports.                                                       *)
(***************************************************************************)
\* A number has one quotient and one remainder.
LEMMA Quotient ==
    ASSUME NEW a \in Int, NEW d \in Nat \ {0}
    PROVE  /\ a \div d \in Int /\ a % d \in 0 .. (d - 1)
           /\ a = d * (a \div d) + (a % d)
<1>1. a \div d \in Int
  OBVIOUS
<1>2. a % d \in 0 .. (d - 1)
  OBVIOUS
<1>3. a % d = a - d * (a \div d)
  OBVIOUS
<1>4. d * (a \div d) \in Int
  BY <1>1
<1> QED BY <1>1, <1>2, <1>3, <1>4

\* A quotient is known from any remainder.
LEMMA QuotientIs ==
    ASSUME NEW d \in Nat \ {0}, NEW q \in Int, NEW r \in 0 .. (d - 1)
    PROVE  (d * q + r) \div d = q
OBVIOUS

\* The days of a week, counted at once or in two steps.
LEMMA WeekOfDay ==
    ASSUME NEW a \in Int, NEW d \in Nat \ {0}, NEW e \in Nat \ {0}
    PROVE  (a \div d) \div e = a \div (d * e)
<1> DEFINE q == a \div d
           w == q \div e
           r == a % d
           s == q % e
<1>1. q \in Int /\ r \in 0 .. (d - 1) /\ a = d * q + r
  BY Quotient
<1> HIDE DEF q, r
<1>2. w \in Int /\ s \in 0 .. (e - 1) /\ q = e * w + s
  BY <1>1, Quotient
<1> HIDE DEF w, s
<1>3. d * e \in Nat \ {0}
  OBVIOUS
<1>4. d * s + r \in 0 .. (d * e - 1)
  <2>1. d * s \in Nat /\ d * s <= d * (e - 1)
    BY <1>2
  <2>2. d * (e - 1) = d * e - d
    OBVIOUS
  <2> QED BY <1>1, <1>3, <2>1, <2>2
<1>5. a = (d * e) * w + (d * s + r)
  BY <1>1, <1>2
<1>6. a \div (d * e) = w
  BY <1>2, <1>3, <1>4, <1>5, QuotientIs
<1> QED BY <1>6 DEF q, w

\* The start of a period is the same for all moments of its local day or week.
LEMMA PeriodStart ==
    ASSUME Book!BookAssumption, NEW t, NEW m \in Nat, NEW n \in Nat,
           LET span == DAY * (IF t = "daily" THEN 1 ELSE DAYS)
           IN  (m + OFFSET) \div span = (n + OFFSET) \div span
    PROVE  Book!_period_bounds(t, m).start = Book!_period_bounds(t, n).start
<1> DEFINE F(x) == x - (x % DAY)
           W(x) == F(x) - DAY * ((F(x) \div DAY) % DAYS)
<1>0. DAY \in Nat \ {0} /\ DAYS \in Nat \ {0} /\ OFFSET \in Nat
  BY DEF Book!BookAssumption
<1>1. ASSUME NEW x \in Nat
      PROVE  F(x) = DAY * (x \div DAY) /\ F(x) \div DAY = x \div DAY /\ x \div DAY \in Int
  <2>1. x \div DAY \in Int /\ x % DAY \in 0 .. (DAY - 1) /\ x = DAY * (x \div DAY) + (x % DAY)
    BY <1>0, Quotient
  <2>2. F(x) = DAY * (x \div DAY) + 0
    BY <1>0, <2>1
  <2>3. 0 \in 0 .. (DAY - 1)
    BY <1>0
  <2>4. (DAY * (x \div DAY) + 0) \div DAY = x \div DAY
    BY <1>0, <2>1, <2>3, QuotientIs
  <2> HIDE DEF F
  <2>5. F(x) = DAY * (x \div DAY)
    BY <1>0, <2>1, <2>2
  <2> QED BY <2>1, <2>2, <2>4, <2>5
<1>2. ASSUME NEW x \in Nat
      PROVE  W(x) = DAY * (DAYS * ((x \div DAY) \div DAYS))
  <2> DEFINE q == x \div DAY
  <2>0. F(x) = DAY * q /\ F(x) \div DAY = q /\ q \in Int
    BY <1>1
  <2> HIDE DEF q, F
  <2>1. W(x) = DAY * q - DAY * (q % DAYS)
    BY <2>0
  <2>2. q \div DAYS \in Int /\ q % DAYS \in Int /\ q = DAYS * (q \div DAYS) + (q % DAYS)
    BY <1>0, <2>0, Quotient
  <2> HIDE DEF W
  <2>3. DAY * q = DAY * (DAYS * (q \div DAYS)) + DAY * (q % DAYS)
    BY <1>0, <2>0, <2>2
  <2>4. DAY * (DAYS * (q \div DAYS)) \in Int /\ DAY * (q % DAYS) \in Int
    BY <1>0, <2>2
  <2>5. W(x) = DAY * (DAYS * (q \div DAYS))
    BY <2>1, <2>3, <2>4
  <2> QED BY <2>5 DEF q
<1>3. ASSUME NEW x \in Nat
      PROVE  Book!_period_bounds(t, x).start
                = (IF t = "daily" THEN F(x + OFFSET) ELSE W(x + OFFSET)) - OFFSET
  BY <1>0 DEF Book!_period_bounds
<1> HIDE DEF F, W
<1>4. m + OFFSET \in Nat /\ n + OFFSET \in Nat
  BY <1>0
<1>5. CASE t = "daily"
  <2>1. DAY * 1 = DAY
    BY <1>0
  <2>2. (m + OFFSET) \div DAY = (n + OFFSET) \div DAY
    BY <1>5, <2>1
  <2> QED BY <1>1, <1>3, <1>4, <1>5, <2>2
<1>6. CASE t # "daily"
  <2>1. (m + OFFSET) \div (DAY * DAYS) = (n + OFFSET) \div (DAY * DAYS)
    BY <1>6
  <2>2. \A x \in Nat : (x \div DAY) \div DAYS = x \div (DAY * DAYS)
    <3> TAKE x \in Nat
    <3>1. x \in Int
      OBVIOUS
    <3> QED BY <1>0, <3>1, WeekOfDay
  <2>3. ((m + OFFSET) \div DAY) \div DAYS = ((n + OFFSET) \div DAY) \div DAYS
    BY <1>4, <2>1, <2>2
  <2> QED BY <1>2, <1>3, <1>4, <1>6, <2>3
<1> QED BY <1>5, <1>6

\* The rows of each table in a period, counted, and the subjects named of some signals.
Bounds == [start : Int, end : Nat]
SignalCount == [b \in Bounds |-> [v \in Book!Priorities |->
    Cardinality({i \in DOMAIN signals : Book!Within(signals[i], b) /\ signals[i].priority = v})]]
ReportCount == [u \in Users |-> [b \in Bounds |-> Book!OwnRows(reports, u, b)]]
PushCount == [u \in Users |-> [b \in Bounds |-> Book!OwnRows(pushes, u, b)]]
TopOf == [rows \in SUBSET Nat |-> Book!_periodic_top_subjects(rows)]

\* An instance has a copy of its own of what its module takes from the library.
LEMMA SameCardinality == ASSUME NEW S PROVE Book!Cardinality(S) = Cardinality(S)
BY DEF Book!Cardinality, Cardinality

\* A set of positions of a table is finite, and counts no more than a larger one.
LEMMA PositionsCounted ==
    ASSUME NEW n \in Nat, NEW S, NEW T, S \subseteq T, T \subseteq 1 .. n
    PROVE  /\ IsFiniteSet(S) /\ IsFiniteSet(T)
           /\ Cardinality(S) \in Nat /\ Cardinality(T) \in Nat
           /\ Cardinality(S) <= Cardinality(T)
<1>1. IsFiniteSet(1 .. n)
  BY FS_Interval
<1>2. IsFiniteSet(T)
  BY <1>1, FS_Subset
<1>3. IsFiniteSet(S) /\ Cardinality(S) <= Cardinality(T)
  BY <1>2, FS_Subset
<1> QED BY <1>2, <1>3, FS_CardinalityType

\* A wider period has more signals of each priority.
LEMMA SignalsCounted ==
    ASSUME SignalsTyped, NEW b \in Bounds, NEW c \in Bounds, NEW v \in Book!Priorities,
           c.start = b.start, b.end <= c.end
    PROVE  SignalCount[b][v] \in Nat /\ SignalCount[b][v] <= SignalCount[c][v]
<1> DEFINE S(x) == {i \in DOMAIN signals : Book!Within(signals[i], x) /\ signals[i].priority = v}
<1>1. DOMAIN signals = 1 .. Len(signals) /\ Len(signals) \in Nat
      /\ \A i \in DOMAIN signals : signals[i].at \in Nat
  BY DEF SignalsTyped, DatedRows
<1>2. b.start \in Int /\ b.end \in Nat /\ c.end \in Nat
  BY DEF Bounds
<1>3. S(b) \subseteq S(c) /\ S(c) \subseteq 1 .. Len(signals)
  BY <1>1, <1>2 DEF Book!Within
<1>4. SignalCount[b][v] = Cardinality(S(b)) /\ SignalCount[c][v] = Cardinality(S(c))
  BY DEF SignalCount
<1> HIDE DEF S
<1> QED BY <1>1, <1>3, <1>4, PositionsCounted

\* So it is with the rows of a user.
LEMMA OwnRowsCounted ==
    ASSUME NEW table, DatedRows(table), NEW u, NEW b \in Bounds, NEW c \in Bounds,
           c.start = b.start, b.end <= c.end
    PROVE  /\ Book!OwnRows(table, u, b) \in Nat
           /\ Book!OwnRows(table, u, b) <= Book!OwnRows(table, u, c)
<1> DEFINE S(x) == {i \in DOMAIN table : table[i].user = u /\ Book!Within(table[i], x)}
<1>1. DOMAIN table = 1 .. Len(table) /\ Len(table) \in Nat
      /\ \A i \in DOMAIN table : table[i].at \in Nat
  BY DEF DatedRows
<1>2. b.start \in Int /\ b.end \in Nat /\ c.end \in Nat
  BY DEF Bounds
<1>3. S(b) \subseteq S(c) /\ S(c) \subseteq 1 .. Len(table)
  BY <1>1, <1>2 DEF Book!Within
<1>4. Book!OwnRows(table, u, b) = Cardinality(S(b)) /\ Book!OwnRows(table, u, c) = Cardinality(S(c))
  BY SameCardinality DEF Book!OwnRows
<1> HIDE DEF S
<1> QED BY <1>1, <1>3, <1>4, PositionsCounted

\* The numbers from n on.
AtLeast(n) == {m \in Nat : n <= m}

\* A row more counts at least as much.
LEMMA OwnRowsGrow ==
    ASSUME NEW table, DatedRows(table), NEW row, row.at \in Nat, NEW u, NEW b \in Bounds
    PROVE  Book!OwnRows(Append(table, row), u, b) \in AtLeast(Book!OwnRows(table, u, b))
<1> DEFINE t == Append(table, row)
           S(x) == {i \in DOMAIN x : x[i].user = u /\ Book!Within(x[i], b)}
<1>1. /\ DatedRows(t) /\ DOMAIN table = 1 .. Len(table) /\ DOMAIN t = 1 .. Len(table) + 1
      /\ \A i \in DOMAIN table : t[i] = table[i]
  BY RowAppended
<1>2. Len(table) \in Nat
  BY DEF DatedRows
<1> HIDE DEF t
<1>3. S(table) \subseteq S(t) /\ S(t) \subseteq 1 .. Len(table) + 1
  BY <1>1, <1>2
<1>4. Book!OwnRows(table, u, b) = Cardinality(S(table)) /\ Book!OwnRows(t, u, b) = Cardinality(S(t))
  BY SameCardinality DEF Book!OwnRows
<1> HIDE DEF S
<1> QED BY <1>2, <1>3, <1>4, PositionsCounted DEF t, AtLeast

\* Whatever happens, the figures of a period do not fall, and of the same signals the
\* same subjects are named.
FiguresGrow ==
    /\ \A b \in Bounds, v \in Book!Priorities : SignalCount'[b][v] \in AtLeast(SignalCount[b][v])
    /\ \A u \in Users, b \in Bounds : /\ ReportCount'[u][b] \in AtLeast(ReportCount[u][b])
                                      /\ PushCount'[u][b] \in AtLeast(PushCount[u][b])
    /\ \A rows \in SUBSET DOMAIN signals : TopOf'[rows] = TopOf[rows]

FiguresAreNumbers ==
    /\ \A b \in Bounds, v \in Book!Priorities : SignalCount[b][v] \in Nat
    /\ \A u \in Users, b \in Bounds : ReportCount[u][b] \in Nat /\ PushCount[u][b] \in Nat

\* What the tables hold is counted.
LEMMA FiguresCounted == ASSUME BookTypes PROVE FiguresAreNumbers
<1>1. \A b \in Bounds, v \in Book!Priorities : SignalCount[b][v] \in Nat
  <2> TAKE b \in Bounds, v \in Book!Priorities
  <2>1. b.end \in Nat /\ b.end <= b.end
    BY DEF Bounds
  <2> QED BY <2>1, SignalsCounted DEF BookTypes
<1>2. \A u \in Users, b \in Bounds : ReportCount[u][b] \in Nat /\ PushCount[u][b] \in Nat
  <2> TAKE u \in Users, b \in Bounds
  <2>1. b.end \in Nat /\ b.end <= b.end
    BY DEF Bounds
  <2> QED BY <2>1, OwnRowsCounted DEF BookTypes, ReportCount, PushCount
<1> QED BY <1>1, <1>2 DEF FiguresAreNumbers

\* No step of the book makes a figure smaller.
LEMMA FiguresStay ==
    ASSUME BookInv, [Book!Next]_Book!vars
    PROVE  FiguresGrow
<1>1. SignalsTyped /\ SignalsTyped' /\ SignalsKept
  BY SignalsStay DEF BookInv, BookTypes
<1>2. /\ DOMAIN signals = 1 .. Len(signals) /\ Len(signals) \in Nat
      /\ DOMAIN signals' = 1 .. Len(signals') /\ Len(signals') \in Nat
  BY <1>1 DEF SignalsTyped, DatedRows
<1>3. ASSUME NEW b \in Bounds, NEW v \in Book!Priorities
      PROVE  SignalCount'[b][v] \in AtLeast(SignalCount[b][v])
  <2> DEFINE S == {i \in DOMAIN signals : Book!Within(signals[i], b) /\ signals[i].priority = v}
             T == {i \in DOMAIN signals' : Book!Within(signals'[i], b) /\ signals'[i].priority = v}
  <2>1. S \subseteq T /\ T \subseteq 1 .. Len(signals')
    BY <1>1, <1>2 DEF SignalsKept, Book!Within
  <2>2. SignalCount[b][v] = Cardinality(S) /\ SignalCount'[b][v] = Cardinality(T)
    BY DEF SignalCount, Book!Priorities
  <2> HIDE DEF S, T
  <2> QED BY <1>2, <2>1, <2>2, PositionsCounted DEF AtLeast
<1>4. ASSUME NEW rows \in SUBSET DOMAIN signals
      PROVE  TopOf'[rows] = TopOf[rows]
  <2>1. \A i \in rows : /\ signals'[i].at = signals[i].at
                        /\ signals'[i].priority = signals[i].priority
    BY <1>1 DEF SignalsKept
  <2>2. \A i \in rows : Book!Rank(i)' = Book!Rank(i)
    BY <2>1 DEF Book!Rank
  <2>3. \A i, j \in rows : Book!Above(i, j)' <=> Book!Above(i, j)
    BY <2>1, <2>2 DEF Book!Above
  <2>4. rows \in SUBSET Nat
    BY <1>2
  <2>5. TopOf[rows] = {i \in rows : Cardinality({j \in rows : Book!Above(j, i)}) < TopLimit}
    BY <2>4, SameCardinality DEF TopOf, Book!_periodic_top_subjects
  <2>6. TopOf'[rows] = {i \in rows : Cardinality({j \in rows : Book!Above(j, i)'}) < TopLimit}
    BY <2>4, SameCardinality DEF TopOf, Book!_periodic_top_subjects
  <2>7. \A i \in rows : {j \in rows : Book!Above(j, i)'} = {j \in rows : Book!Above(j, i)}
    BY <2>3
  <2> QED BY <2>5, <2>6, <2>7
<1>5. ASSUME NEW u \in Users, NEW b \in Bounds
      PROVE  ReportCount'[u][b] \in AtLeast(ReportCount[u][b])
  <2> DEFINE n == Book!OwnRows(reports, u, b)
  <2>1. ReportCount[u][b] = n /\ ReportCount'[u][b] = Book!OwnRows(reports', u, b)
    BY DEF ReportCount, Book!OwnRows
  <2>2. CASE UNCHANGED reports
    <3>1. n \in Nat
      BY <2>1, FiguresCounted DEF FiguresAreNumbers, BookInv
    <3> QED BY <2>1, <2>2, <3>1 DEF AtLeast
  <2>3. ASSUME NEW q \in Requests, Book!CommitReport(q) 
        PROVE  ReportCount'[u][b] \in AtLeast(ReportCount[u][b])
    <3>1. PICK row : reports' = Append(reports, row) /\ row.at = request[q].at
      BY <2>3 DEF Book!CommitReport
    <3>2. request[q].at \in Nat
      BY <2>3 DEF Book!CommitReport, BookInv, BookTypes, Book!Idle
    <3> QED BY <2>1, <3>1, <3>2, OwnRowsGrow DEF BookInv, BookTypes, AtLeast
  <2>4. UNCHANGED reports \/ \E q \in Requests : Book!CommitReport(q)
    BY DEF Book!Next, Book!vars, Book!Tick, Book!AddSignal, Book!AddPush, Book!ReviewForReport,
           Book!Reviewed, Book!LoseReport, Book!StartPeriodic, Book!ReadSignals,
           Book!ReadReports, Book!ReadPushes
  <2> QED BY <2>2, <2>3, <2>4
<1>6. ASSUME NEW u \in Users, NEW b \in Bounds
      PROVE  PushCount'[u][b] \in AtLeast(PushCount[u][b])
  <2> DEFINE n == Book!OwnRows(pushes, u, b)
  <2>1. PushCount[u][b] = n /\ PushCount'[u][b] = Book!OwnRows(pushes', u, b)
    BY DEF PushCount, Book!OwnRows
  <2>2. CASE UNCHANGED pushes
    <3>1. n \in Nat
      BY <2>1, FiguresCounted DEF FiguresAreNumbers, BookInv
    <3> QED BY <2>1, <2>2, <3>1 DEF AtLeast
  <2>3. ASSUME NEW w \in Users, Book!AddPush(w) 
        PROVE  PushCount'[u][b] \in AtLeast(PushCount[u][b])
    <3>1. PICK row : pushes' = Append(pushes, row) /\ row.at = clock
      BY <2>3 DEF Book!AddPush
    <3> QED BY <2>1, <3>1, OwnRowsGrow DEF BookInv, BookTypes, AtLeast
  <2>4. UNCHANGED pushes \/ \E w \in Users : Book!AddPush(w)
    BY DEF Book!Next, Book!vars, Book!Tick, Book!AddSignal, Book!CommitReport,
           Book!ReviewForReport, Book!Reviewed, Book!LoseReport, Book!StartPeriodic,
           Book!ReadSignals, Book!ReadReports, Book!ReadPushes
  <2> QED BY <2>2, <2>3, <2>4
<1> QED BY <1>3, <1>4, <1>5, <1>6 DEF FiguresGrow

\* A report was begun at the end of its period and is made of what the tables had.
Begun(x) == /\ x.bounds = Book!_period_bounds(x.type, x.bounds.end) /\ x.bounds.end <= clock
SignalPart(x) ==
    /\ x.rows \subseteq DOMAIN signals /\ x.top = TopOf[x.rows]
    /\ \A v \in Book!Priorities : x.priorities[v] <= SignalCount[x.bounds][v]

\* What was made: nothing in it counts more than the tables do by now.
LastInv ==
    \A u \in Users, t \in Periods :
        LET x == last[u][t] IN
        x # Book!NoReport =>
            /\ x \in Reading /\ x.user = u /\ x.type = t /\ Begun(x) /\ SignalPart(x)
            /\ x.report_count <= ReportCount[u][x.bounds] /\ x.push_count <= PushCount[u][x.bounds]

\* What is in the making: of the same period it has counted no less than the last one.
Previous == last[reader.user][reader.type]
SamePeriod == Previous # Book!NoReport /\ Previous.bounds.start = reader.bounds.start
ReaderInv ==
    reader # Book!Idle =>
        /\ Begun(reader)
        /\ Previous # Book!NoReport => Previous.bounds.end <= reader.bounds.end
        /\ reader.pc \in {"reports", "pushes"} =>
              /\ SignalPart(reader)
              /\ SamePeriod => \A v \in Book!Priorities : Previous.priorities[v] <= reader.priorities[v]
        /\ reader.pc = "pushes" =>
              /\ reader.report_count <= ReportCount[reader.user][reader.bounds]
              /\ SamePeriod => Previous.report_count <= reader.report_count

PeriodicInv == PeriodicTypes /\ LastInv /\ ReaderInv

\* There is no periodic report at first.
LEMMA PeriodicInitInv == Book!Init => PeriodicInv
<1> SUFFICES ASSUME Book!Init PROVE PeriodicInv
  OBVIOUS
<1>1. reader = Book!Idle /\ last = [u \in Users |-> [t \in Periods |-> Book!NoReport]]
  BY DEF Book!Init
<1>2. PeriodicTypes
  BY <1>1 DEF PeriodicTypes
<1> QED BY <1>1, <1>2 DEF PeriodicInv, LastInv, ReaderInv

\* The clock only goes on.
LEMMA ClockGoesOn ==
    ASSUME BookInv, [Book!Next]_Book!vars
    PROVE  clock \in Nat /\ clock' \in Nat /\ clock <= clock'
<1>1. clock \in Nat /\ clock' \in Nat
  BY RequestsStay DEF BookInv, BookTypes
<1>2. clock' = clock \/ clock' = clock + 1
  BY DEF Book!Next, Book!vars, Book!Tick, Book!AddSignal, Book!AddPush, Book!CommitReport,
         Book!ReviewForReport, Book!Reviewed, Book!LoseReport, Book!StartPeriodic,
         Book!ReadSignals, Book!ReadReports, Book!ReadPushes
<1> QED BY <1>1, <1>2

\* What was made stays true of the tables.
LEMMA MadeStays ==
    ASSUME BookInv, [Book!Next]_Book!vars, PeriodicInv,
           NEW u \in Users, NEW t \in Periods, last'[u][t] = last[u][t],
           last[u][t] # Book!NoReport
    PROVE  /\ last[u][t] \in Reading /\ last[u][t].user = u /\ last[u][t].type = t
           /\ Begun(last[u][t])' /\ SignalPart(last[u][t])'
           /\ last[u][t].report_count <= ReportCount'[u][last[u][t].bounds]
           /\ last[u][t].push_count <= PushCount'[u][last[u][t].bounds]
<1> DEFINE x == last[u][t]
<1>1. FiguresGrow /\ FiguresAreNumbers /\ SignalsKept
  BY FiguresStay, FiguresCounted, SignalsStay DEF BookInv
<1>2. /\ x \in Reading /\ x.user = u /\ x.type = t /\ Begun(x) /\ SignalPart(x)
      /\ x.report_count <= ReportCount[u][x.bounds] /\ x.push_count <= PushCount[u][x.bounds]
  BY DEF PeriodicInv, LastInv
<1>3. /\ x.bounds \in Bounds /\ x.bounds.end \in Nat /\ x.rows \subseteq DOMAIN signals
      /\ x.report_count \in Nat /\ x.push_count \in Nat
      /\ \A v \in Book!Priorities : x.priorities[v] \in Nat
  BY <1>2 DEF Reading, Bounds, SignalPart
<1>4. clock \in Nat /\ clock' \in Nat /\ clock <= clock'
  BY ClockGoesOn
<1>5. last'[u][t] = x
  OBVIOUS
<1> HIDE DEF x
<1>6. Begun(x) => x.bounds = Book!_period_bounds(t, x.bounds.end) /\ x.bounds.end <= clock'
  BY <1>2, <1>3, <1>4 DEF Begun
<1>7. /\ x.rows \subseteq DOMAIN signals' /\ x.top = TopOf'[x.rows]
      /\ \A v \in Book!Priorities : x.priorities[v] <= SignalCount'[x.bounds][v]
  BY <1>1, <1>2, <1>3 DEF SignalPart, FiguresGrow, FiguresAreNumbers, SignalsKept, AtLeast
<1>8. x.report_count <= ReportCount'[u][x.bounds] /\ x.push_count <= PushCount'[u][x.bounds]
  BY <1>1, <1>2, <1>3 DEF FiguresGrow, FiguresAreNumbers, AtLeast
<1> QED
  BY <1>2, <1>5, <1>6, <1>7, <1>8 DEF x, Begun, SignalPart

\* LastInv of the reports that are not replaced.
LEMMA LastStays ==
    ASSUME BookInv, [Book!Next]_Book!vars, PeriodicInv, UNCHANGED last
    PROVE  LastInv'
<1> SUFFICES ASSUME NEW u \in Users, NEW t \in Periods, last'[u][t] # Book!NoReport
             PROVE  /\ last'[u][t] \in Reading /\ last'[u][t].user = u /\ last'[u][t].type = t
                    /\ Begun(last[u][t])' /\ SignalPart(last[u][t])'
                    /\ last'[u][t].report_count <= ReportCount'[u][last'[u][t].bounds]
                    /\ last'[u][t].push_count <= PushCount'[u][last'[u][t].bounds]
  BY DEF LastInv
<1> QED BY MadeStays

\* ReaderInv of a reader that nothing is read by.
LEMMA ReaderStays ==
    ASSUME BookInv, [Book!Next]_Book!vars, PeriodicInv, UNCHANGED <<last, reader>>
    PROVE  PeriodicInv'
<1>1. FiguresGrow /\ FiguresAreNumbers /\ SignalsKept
  BY FiguresStay, FiguresCounted, SignalsStay DEF BookInv
<1>2. PeriodicTypes' /\ LastInv'
  BY LastStays DEF PeriodicInv, PeriodicTypes
<1>3. CASE reader = Book!Idle
  BY <1>2, <1>3 DEF PeriodicInv, ReaderInv
<1>4. CASE reader # Book!Idle
  <2> DEFINE x == reader
  <2>1. /\ x \in Reading /\ x.bounds \in Bounds /\ x.bounds.end \in Nat /\ x.user \in Users
        /\ x.report_count \in Nat /\ \A v \in Book!Priorities : x.priorities[v] \in Nat
    BY <1>4 DEF PeriodicInv, PeriodicTypes, Reading, Bounds
  <2>2. clock \in Nat /\ clock' \in Nat /\ clock <= clock'
    BY ClockGoesOn
  <2>3. Begun(x) /\ (x.pc \in {"reports", "pushes"} => SignalPart(x))
        /\ (x.pc = "pushes" => x.report_count <= ReportCount[x.user][x.bounds])
    BY <1>4 DEF PeriodicInv, ReaderInv
  <2>4. x' = x /\ Previous' = Previous /\ (SamePeriod' <=> SamePeriod)
    BY DEF Previous, SamePeriod
  <2> HIDE DEF x
  <2>5. x.bounds = Book!_period_bounds(x.type, x.bounds.end) /\ x.bounds.end <= clock'
    BY <2>1, <2>2, <2>3 DEF Begun
  <2>6. x.pc \in {"reports", "pushes"} =>
          /\ x.rows \subseteq DOMAIN signals' /\ x.top = TopOf'[x.rows]
          /\ \A v \in Book!Priorities : x.priorities[v] <= SignalCount'[x.bounds][v]
    BY <1>1, <2>1, <2>3 DEF SignalPart, FiguresGrow, FiguresAreNumbers, SignalsKept, AtLeast
  <2>7. x.pc = "pushes" => x.report_count <= ReportCount'[x.user][x.bounds]
    BY <1>1, <2>1, <2>3 DEF FiguresGrow, FiguresAreNumbers, AtLeast
  <2>8. Begun(reader)' /\ (reader'.pc \in {"reports", "pushes"} => SignalPart(reader)')
    BY <2>4, <2>5, <2>6 DEF x, Begun, SignalPart
  <2>9. ReaderInv'
    BY <1>4, <2>4, <2>7, <2>8 DEF x, PeriodicInv, ReaderInv
  <2> QED BY <1>2, <2>9 DEF PeriodicInv
<1> QED BY <1>3, <1>4

\* A report is begun.
LEMMA StartKeeps ==
    ASSUME BookInv, PeriodicInv, Book!BookAssumption, NEW u \in Users, NEW t \in Periods,
           Book!StartPeriodic(u, t)
    PROVE  PeriodicInv'
<1>1. [Book!Next]_Book!vars
  BY DEF Book!Next
<1>2. LastInv'
  BY <1>1, LastStays DEF Book!StartPeriodic
<1>3. /\ reader' = [pc |-> "signals", user |-> u, type |-> t, bounds |-> Book!_period_bounds(t, clock),
            rows |-> {}, priorities |-> Book!_field_counts({}, "priority", Book!Priorities),
            reviews |-> Book!_field_counts({}, "status", Book!Statuses), top |-> {},
            report_count |-> 0, push_count |-> 0]
      /\ last' = last /\ clock' = clock
  BY DEF Book!StartPeriodic
<1>4. clock \in Nat /\ Book!_period_bounds(t, clock) \in Bounds
      /\ Book!_period_bounds(t, clock).end = clock
  <2>1. clock \in Nat /\ DAY \in Nat \ {0} /\ DAYS \in Nat \ {0} /\ OFFSET \in Nat
    BY DEF BookInv, BookTypes, Book!BookAssumption
  <2>2. (clock + OFFSET) % DAY \in Int
    BY <2>1
  <2> DEFINE day == (clock + OFFSET) - ((clock + OFFSET) % DAY)
  <2>3. day \in Int
    BY <2>1, <2>2
  <2> HIDE DEF day
  <2>4. (day \div DAY) % DAYS \in Int
    BY <2>1, <2>3
  <2>5. day - DAY * ((day \div DAY) % DAYS) \in Int
    BY <2>1, <2>3, <2>4
  <2> QED BY <2>1, <2>3, <2>5 DEF Book!_period_bounds, Bounds, day
<1>5. \A field, known : Book!_field_counts({}, field, known) = [v \in known |-> 0]
  <2>1. Book!Cardinality({}) = 0
    BY SameCardinality, FS_EmptySet
  <2>2. \A field, v : {i \in {} : signals[i][field] = v} = {}
    OBVIOUS
  <2> QED BY <2>1, <2>2 DEF Book!_field_counts
<1>6. reader' \in Reading
  BY <1>3, <1>4, <1>5 DEF Reading, Bounds
<1>7. PeriodicTypes'
  BY <1>3, <1>6 DEF PeriodicTypes, PeriodicInv
<1>8. Begun(reader)' /\ reader'.pc = "signals" /\ reader'.bounds.end = clock
      /\ reader'.user = u /\ reader'.type = t
  BY <1>3, <1>4 DEF Begun
<1>9. Previous' = last[u][t]
  BY <1>3, <1>8 DEF Previous
<1>10. last[u][t] # Book!NoReport => last[u][t].bounds.end <= clock
  BY DEF PeriodicInv, LastInv, Begun
<1>11. ReaderInv'
  BY <1>8, <1>9, <1>10 DEF ReaderInv
<1> QED BY <1>2, <1>7, <1>11 DEF PeriodicInv

\* What a report says of signals, reports and pushes is what their tables say now, and
\* a last report of the same period has not counted more.
LEMMA CountsOfLast ==
    ASSUME BookInv, PeriodicInv, reader \in Reading
    PROVE  /\ reader.bounds \in Bounds /\ reader.user \in Users /\ reader.type \in Periods
           /\ SamePeriod =>
                 /\ \A v \in Book!Priorities :
                       Previous.priorities[v] <= SignalCount[reader.bounds][v]
                 /\ Previous.report_count <= ReportCount[reader.user][reader.bounds]
                 /\ Previous.push_count <= PushCount[reader.user][reader.bounds]
<1> DEFINE x == Previous
           b == reader.bounds
<1>1. b \in Bounds /\ reader.user \in Users /\ reader.type \in Periods
  BY DEF Reading, Bounds
<1>2. CASE SamePeriod
  <2>1. reader # Book!Idle
    <3>1. reader.pc # "idle" /\ Book!Idle.pc = "idle"
      BY DEF Reading, Book!Idle
    <3> QED BY <3>1
  <2>2. /\ x \in Reading /\ x.bounds \in Bounds /\ x.bounds.start = b.start
        /\ x.bounds.end <= b.end /\ SignalPart(x)
        /\ x.report_count <= ReportCount[reader.user][x.bounds]
        /\ x.push_count <= PushCount[reader.user][x.bounds]
    BY <1>1, <1>2, <2>1 DEF SamePeriod, Previous, PeriodicInv, LastInv, ReaderInv, Reading, Bounds
  <2>3. /\ x.report_count \in Nat /\ x.push_count \in Nat
        /\ \A v \in Book!Priorities : x.priorities[v] \in Nat
    BY <2>2 DEF Reading
  <2> HIDE DEF x, b
  <2>4. FiguresAreNumbers
    BY FiguresCounted DEF BookInv
  <2>5. ASSUME NEW v \in Book!Priorities PROVE x.priorities[v] <= SignalCount[b][v]
    <3>1. SignalCount[x.bounds][v] <= SignalCount[b][v]
      BY <1>1, <2>2, SignalsCounted DEF BookInv, BookTypes
    <3> QED BY <1>1, <2>2, <2>3, <2>4, <3>1 DEF SignalPart, FiguresAreNumbers
  <2>6. /\ ReportCount[reader.user][x.bounds] <= ReportCount[reader.user][b]
        /\ PushCount[reader.user][x.bounds] <= PushCount[reader.user][b]
    BY <1>1, <2>2, OwnRowsCounted DEF BookInv, BookTypes, ReportCount, PushCount
  <2>7. x.report_count <= ReportCount[reader.user][b] /\ x.push_count <= PushCount[reader.user][b]
    BY <1>1, <2>2, <2>3, <2>4, <2>6 DEF FiguresAreNumbers
  <2> QED BY <1>1, <2>5, <2>7 DEF x, b
<1> QED BY <1>1, <1>2

\* Without a change of the tables there is none of their figures.
LEMMA TablesUnread ==
    ASSUME UNCHANGED <<signals, reports, pushes>>
    PROVE  UNCHANGED <<SignalCount, TopOf, ReportCount, PushCount>>
<1>1. SignalCount' = SignalCount /\ ReportCount' = ReportCount /\ PushCount' = PushCount
  BY DEF SignalCount, ReportCount, PushCount, Book!OwnRows
<1>2. \A i : Book!Rank(i)' = Book!Rank(i)
  BY DEF Book!Rank
<1>3. \A i, j : Book!Above(i, j)' <=> Book!Above(i, j)
  BY <1>2 DEF Book!Above
<1>4. \A x \in SUBSET Nat : \A i \in x :
        {j \in x : Book!Above(j, i)'} = {j \in x : Book!Above(j, i)}
  BY <1>3
<1>5. TopOf' = TopOf
  BY <1>4 DEF TopOf, Book!_periodic_top_subjects
<1> QED BY <1>1, <1>5

\* The signals of the period are read.
LEMMA ReadSignalsKeeps ==
    ASSUME BookInv, PeriodicInv, Book!ReadSignals
    PROVE  PeriodicInv'
<1> DEFINE rows == {i \in DOMAIN signals : Book!Within(signals[i], reader.bounds)}
           counted == Book!_field_counts(rows, "priority", Book!Priorities)
           reviewed == Book!_field_counts(rows, "status", Book!Statuses)
           top == Book!_periodic_top_subjects(rows)
<1>1. /\ LastInv' /\ UNCHANGED <<clock, signals, reports, pushes, last>>
      /\ reader \in Reading /\ reader # Book!Idle /\ reader.pc = "signals"
      /\ reader' = [reader EXCEPT !.pc = "reports", !.rows = rows, !.priorities = counted,
                                  !.reviews = reviewed, !.top = top]
  <2>1. [Book!Next]_Book!vars /\ UNCHANGED last
    BY DEF Book!Next, Book!ReadSignals
  <2>2. reader # Book!Idle
    BY DEF Book!ReadSignals, Book!Idle
  <2> QED BY <2>1, <2>2, LastStays DEF Book!ReadSignals, PeriodicInv, PeriodicTypes
<1>2. /\ rows \subseteq DOMAIN signals /\ rows \in SUBSET Nat /\ top \in SUBSET Nat
      /\ top = TopOf[rows]
  <2>1. DOMAIN signals \subseteq Nat
    BY DEF BookInv, BookTypes, SignalsTyped, DatedRows
  <2>2. rows \subseteq DOMAIN signals /\ rows \in SUBSET Nat
    BY <2>1
  <2>3. top \subseteq rows
    BY DEF Book!_periodic_top_subjects
  <2> HIDE DEF rows
  <2>4. top = TopOf[rows]
    BY <2>2 DEF TopOf
  <2> QED BY <2>2, <2>3, <2>4
<1>3. /\ counted \in [Book!Priorities -> Nat] /\ reviewed \in [Book!Statuses -> Nat]
      /\ \A v \in Book!Priorities : counted[v] = SignalCount[reader.bounds][v]
  <2>1. rows \subseteq 1 .. Len(signals) /\ Len(signals) \in Nat
    BY DEF BookInv, BookTypes, SignalsTyped, DatedRows
  <2>2. \A field, v : Cardinality({i \in rows : signals[i][field] = v}) \in Nat
    <3> TAKE field, v
    <3>1. {i \in rows : signals[i][field] = v} \subseteq 1 .. Len(signals)
      BY <2>1
    <3> QED BY <2>1, <3>1, PositionsCounted
  <2>3. /\ counted = [v \in Book!Priorities |->
                        Cardinality({i \in rows : signals[i]["priority"] = v})]
        /\ reviewed = [v \in Book!Statuses |->
                        Cardinality({i \in rows : signals[i]["status"] = v})]
    BY SameCardinality DEF Book!_field_counts
  <2>4. reader.bounds \in Bounds
    BY <1>1 DEF Reading, Bounds
  <2>5. ASSUME NEW v \in Book!Priorities
        PROVE  /\ SignalCount[reader.bounds][v] = counted[v]
    <3>1. {i \in rows : signals[i]["priority"] = v}
             = {i \in DOMAIN signals : Book!Within(signals[i], reader.bounds)
                                         /\ signals[i].priority = v}
      OBVIOUS
    <3> HIDE DEF counted, rows
    <3> QED BY <2>3, <2>4, <3>1 DEF SignalCount
  <2> HIDE DEF counted, reviewed, rows
  <2>6. counted \in [Book!Priorities -> Nat] /\ reviewed \in [Book!Statuses -> Nat]
    BY <2>2, <2>3
  <2> QED BY <2>5, <2>6
<1> HIDE DEF rows, counted, reviewed, top
<1>4. /\ reader' \in Reading /\ reader'.pc = "reports" /\ reader'.rows = rows
      /\ reader'.top = top /\ reader'.priorities = counted /\ reader'.bounds = reader.bounds
      /\ reader'.user = reader.user /\ reader'.type = reader.type
  BY <1>1, <1>2, <1>3 DEF Reading
<1>5. SignalCount' = SignalCount /\ TopOf' = TopOf
  BY <1>1, TablesUnread
<1>6. SignalPart(reader)' /\ Begun(reader)'
  <2>1. Begun(reader)
    BY <1>1 DEF PeriodicInv, ReaderInv
  <2>2. Begun(reader)'
    BY <1>1, <1>4, <2>1 DEF Begun
  <2>3. reader'.bounds \in Bounds /\ \A v \in Book!Priorities : counted[v] \in Nat
    BY <1>3, <1>4 DEF Reading, Bounds
  <2>4. \A v \in Book!Priorities : counted[v] <= SignalCount[reader.bounds][v]
    BY <1>3, <2>3
  <2> QED BY <1>1, <1>2, <1>4, <1>5, <2>2, <2>4 DEF SignalPart
<1>7. Previous' = Previous /\ (SamePeriod' <=> SamePeriod)
  BY <1>1, <1>4 DEF Previous, SamePeriod
<1>8. /\ Previous # Book!NoReport => Previous.bounds.end <= reader.bounds.end
      /\ SamePeriod => \A v \in Book!Priorities : Previous.priorities[v] <= counted[v]
  BY <1>1, <1>3, CountsOfLast DEF PeriodicInv, ReaderInv
<1>9. ReaderInv'
  BY <1>4, <1>6, <1>7, <1>8 DEF ReaderInv
<1> QED BY <1>1, <1>4, <1>9 DEF PeriodicInv, PeriodicTypes

\* The reports of the user in the period are counted.
LEMMA ReadReportsKeeps ==
    ASSUME BookInv, PeriodicInv, Book!ReadReports
    PROVE  PeriodicInv'
<1> DEFINE n == Book!OwnRows(reports, reader.user, reader.bounds)
<1>1. /\ LastInv' /\ UNCHANGED <<clock, signals, reports, pushes, last>>
      /\ reader \in Reading /\ reader # Book!Idle /\ reader.pc = "reports"
      /\ reader' = [reader EXCEPT !.pc = "pushes", !.report_count = n]
  <2>1. [Book!Next]_Book!vars /\ UNCHANGED last
    BY DEF Book!Next, Book!ReadReports
  <2>2. reader # Book!Idle
    BY DEF Book!ReadReports, Book!Idle
  <2> QED BY <2>1, <2>2, LastStays DEF Book!ReadReports, PeriodicInv, PeriodicTypes
<1>2. n = ReportCount[reader.user][reader.bounds] /\ n \in Nat
  <2>1. reader.user \in Users /\ reader.bounds \in Bounds
    BY <1>1 DEF Reading, Bounds
  <2>2. n = ReportCount[reader.user][reader.bounds]
    BY <2>1 DEF ReportCount
  <2> QED BY <2>1, <2>2, FiguresCounted DEF FiguresAreNumbers, BookInv
<1> HIDE DEF n
<1>3. /\ reader' \in Reading /\ reader'.pc = "pushes" /\ reader'.report_count = n
      /\ reader'.rows = reader.rows /\ reader'.top = reader.top
      /\ reader'.priorities = reader.priorities /\ reader'.bounds = reader.bounds
      /\ reader'.user = reader.user /\ reader'.type = reader.type
  BY <1>1, <1>2 DEF Reading
<1>4. SignalPart(reader)' /\ Begun(reader)'
  <2>1. Begun(reader) /\ SignalPart(reader)
    BY <1>1 DEF PeriodicInv, ReaderInv
  <2>2. UNCHANGED <<SignalCount, TopOf>>
    BY <1>1, TablesUnread
  <2> QED BY <1>1, <1>3, <2>1, <2>2 DEF Begun, SignalPart
<1>5. Previous' = Previous /\ (SamePeriod' <=> SamePeriod) /\ ReportCount' = ReportCount
  BY <1>1, <1>3, TablesUnread DEF Previous, SamePeriod
<1>6. n <= ReportCount[reader.user][reader.bounds]
  BY <1>2
<1>7. /\ Previous # Book!NoReport => Previous.bounds.end <= reader.bounds.end
      /\ SamePeriod => /\ \A v \in Book!Priorities : Previous.priorities[v] <= reader.priorities[v]
                       /\ Previous.report_count <= n
  BY <1>1, <1>2, CountsOfLast DEF PeriodicInv, ReaderInv
<1>8. ReaderInv'
  BY <1>3, <1>4, <1>5, <1>6, <1>7 DEF ReaderInv
<1> QED BY <1>1, <1>3, <1>8 DEF PeriodicInv, PeriodicTypes

\* The pushes are counted and the report is made.
LEMMA ReadPushesMakes ==
    ASSUME BookInv, PeriodicInv, Book!ReadPushes
    PROVE  LET new == last'[reader.user][reader.type]
           IN  /\ last' = [last EXCEPT ![reader.user] = [@ EXCEPT ![reader.type] = new]]
               /\ new \in Reading /\ new # Book!NoReport
               /\ reader.user \in Users /\ reader.type \in Periods
               /\ new.user = reader.user /\ new.type = reader.type /\ new.bounds = reader.bounds
               /\ new.rows = reader.rows /\ new.top = reader.top
               /\ new.priorities = reader.priorities /\ new.report_count = reader.report_count
               /\ new.push_count = PushCount[reader.user][reader.bounds]
<1> DEFINE n == Book!OwnRows(pushes, reader.user, reader.bounds)
           made == [reader EXCEPT !.pc = "done", !.push_count = n]
<1>1. /\ reader \in Reading /\ reader.user \in Users /\ reader.type \in Periods
      /\ reader.bounds \in Bounds
      /\ last' = [last EXCEPT ![reader.user] = [@ EXCEPT ![reader.type] = made]]
  <2>1. reader # Book!Idle
    BY DEF Book!ReadPushes, Book!Idle
  <2> QED BY <2>1 DEF Book!ReadPushes, PeriodicInv, PeriodicTypes, Reading, Bounds
<1>2. n = PushCount[reader.user][reader.bounds] /\ n \in Nat
  <2>1. n = PushCount[reader.user][reader.bounds]
    BY <1>1 DEF PushCount
  <2> QED BY <1>1, <2>1, FiguresCounted DEF FiguresAreNumbers, BookInv
<1> HIDE DEF n
<1>3. /\ made \in Reading /\ made.push_count = n /\ made.pc = "done"
      /\ made.rows = reader.rows /\ made.top = reader.top
      /\ made.priorities = reader.priorities /\ made.bounds = reader.bounds
      /\ made.user = reader.user /\ made.type = reader.type
      /\ made.report_count = reader.report_count
  BY <1>1, <1>2 DEF Reading
<1> HIDE DEF made
<1>4. made # Book!NoReport
  <2>1. DOMAIN made # {}
    BY <1>3 DEF Reading
  <2> QED BY <2>1 DEF Book!NoReport
<1>5. last'[reader.user][reader.type] = made
  BY <1>1 DEF PeriodicInv, PeriodicTypes
<1> QED BY <1>1, <1>2, <1>3, <1>4, <1>5

\* The last read makes the report, and no other report changes.
LEMMA ReadPushesKeeps ==
    ASSUME BookInv, PeriodicInv, Book!ReadPushes
    PROVE  PeriodicInv'
<1> DEFINE new == last'[reader.user][reader.type]
<1>1. /\ last' = [last EXCEPT ![reader.user] = [@ EXCEPT ![reader.type] = new]]
      /\ new \in Reading /\ new # Book!NoReport
      /\ reader.user \in Users /\ reader.type \in Periods
      /\ new.user = reader.user /\ new.type = reader.type /\ new.bounds = reader.bounds
      /\ new.rows = reader.rows /\ new.top = reader.top
      /\ new.priorities = reader.priorities /\ new.report_count = reader.report_count
      /\ new.push_count = PushCount[reader.user][reader.bounds]
  BY ReadPushesMakes
<1> HIDE DEF new
<1>2. /\ UNCHANGED <<clock, signals, reports, pushes>> /\ reader' = Book!Idle
      /\ reader # Book!Idle /\ reader.pc = "pushes" /\ [Book!Next]_Book!vars
  BY DEF Book!ReadPushes, Book!Idle, Book!Next
<1>3. UNCHANGED <<SignalCount, TopOf, ReportCount, PushCount>>
  BY <1>2, TablesUnread
<1>4. /\ Begun(reader) /\ SignalPart(reader)
      /\ reader.report_count <= ReportCount[reader.user][reader.bounds]
  BY <1>2 DEF PeriodicInv, ReaderInv
<1>5. PeriodicTypes'
  BY <1>1, <1>2 DEF PeriodicInv, PeriodicTypes
<1>6. ASSUME NEW u \in Users, NEW t \in Periods, last'[u][t] # Book!NoReport
      PROVE  /\ last'[u][t] \in Reading /\ last'[u][t].user = u /\ last'[u][t].type = t
             /\ Begun(last[u][t])' /\ SignalPart(last[u][t])'
             /\ last'[u][t].report_count <= ReportCount'[u][last'[u][t].bounds]
             /\ last'[u][t].push_count <= PushCount'[u][last'[u][t].bounds]
  <2>1. CASE u = reader.user /\ t = reader.type
    <3>1. last'[u][t] = new
      BY <2>1 DEF new
    <3>2. Begun(last[u][t])' /\ SignalPart(last[u][t])'
      BY <1>1, <1>2, <1>3, <1>4, <3>1 DEF Begun, SignalPart
    <3>3. new.push_count \in Nat /\ new.report_count \in Nat
      BY <1>1 DEF Reading
    <3>4. new.push_count <= PushCount'[u][new.bounds]
             /\ new.report_count <= ReportCount'[u][new.bounds]
      BY <1>1, <1>3, <1>4, <2>1, <3>3
    <3> QED BY <1>1, <2>1, <3>1, <3>2, <3>4
  <2>2. CASE ~(u = reader.user /\ t = reader.type)
    <3>1. last'[u][t] = last[u][t]
      BY <1>1, <2>2 DEF PeriodicInv, PeriodicTypes
    <3> QED BY <1>2, <1>6, <3>1, MadeStays
  <2> QED BY <2>1, <2>2
<1>7. LastInv'
  BY <1>6 DEF LastInv
<1> QED BY <1>2, <1>5, <1>7 DEF PeriodicInv, ReaderInv

\* Each step keeps what is known of periodic reports.
LEMMA PeriodicNextInv ==
    ASSUME Book!BookAssumption, BookInv, PeriodicInv, [Book!Next]_Book!vars
    PROVE  PeriodicInv'
<1>1. CASE UNCHANGED <<last, reader>>
  BY <1>1, ReaderStays
<1>2. \/ UNCHANGED <<last, reader>>
      \/ \E u \in Users, t \in Periods : Book!StartPeriodic(u, t)
      \/ Book!ReadSignals \/ Book!ReadReports \/ Book!ReadPushes
  BY DEF Book!Next, Book!vars, Book!Tick, Book!AddSignal, Book!AddPush, Book!CommitReport,
         Book!ReviewForReport, Book!Reviewed, Book!LoseReport
<1> QED BY <1>1, <1>2, StartKeeps, ReadSignalsKeeps, ReadReportsKeeps, ReadPushesKeeps

\* The two invariants of the book hold.
LEMMA BookAlways == ASSUME Book!BookAssumption PROVE Book!Spec => [](BookInv /\ PeriodicInv)
<1>1. Book!Init => BookInv /\ PeriodicInv
  BY BookInitInv, PeriodicInitInv
<1>2. BookInv /\ PeriodicInv /\ [Book!Next]_Book!vars => (BookInv /\ PeriodicInv)'
  BY RequestsStay, PeriodicNextInv
<1> QED BY <1>1, <1>2, PTL DEF Book!Spec

\* The rank of a signal is one of three.
LEMMA RankIs ==
    ASSUME NEW i, signals[i].priority \in {"P0", "P1", "P2"}
    PROVE  Book!Rank(i) \in 1 .. 3
<1>1. <<"P0", "P1", "P2">>[1] = "P0" /\ <<"P0", "P1", "P2">>[2] = "P1"
      /\ <<"P0", "P1", "P2">>[3] = "P2"
  OBVIOUS
<1>2. \E n \in 1 .. 3 : <<"P0", "P1", "P2">>[n] = signals[i].priority
  BY <1>1
<1> QED BY <1>2 DEF Book!Rank

\* Of two signals the more urgent one has fewer above it.
LEMMA TopLeads ==
    ASSUME Book!BookAssumption, SignalsTyped, NEW rows, rows \subseteq DOMAIN signals,
           NEW i \in rows, NEW j \in rows,
           i \notin Book!_periodic_top_subjects(rows), j \in Book!_periodic_top_subjects(rows)
    PROVE  Book!Rank(j) <= Book!Rank(i)
<1> DEFINE A(x) == {y \in rows : Book!Above(y, x)}
<1>1. \A x \in rows : Book!Rank(x) \in 1 .. 3
  <2> TAKE x \in rows
  <2>1. signals[x].priority \in {"P0", "P1", "P2"}
    BY DEF SignalsTyped, SignalRow, Book!Priorities
  <2> QED BY <2>1, RankIs
<1>2. SUFFICES ASSUME Book!Rank(i) < Book!Rank(j) PROVE FALSE
  BY <1>1
<1>3. \A y \in rows : Book!Above(y, i) => Book!Rank(y) <= Book!Rank(i)
  BY <1>1 DEF Book!Above
<1>4. \A y \in rows : Book!Rank(y) <= Book!Rank(i) => Book!Above(y, j)
  BY <1>1, <1>2 DEF Book!Above
<1>5. ~Book!Above(i, i)
  <2>1. i \in DOMAIN signals /\ i \in Nat /\ signals[i].at \in Nat
    BY DEF SignalsTyped, DatedRows
  <2>2. Book!Rank(i) \in Int
    BY <1>1
  <2> QED BY <2>1, <2>2 DEF Book!Above
<1>6. A(i) \cup {i} \subseteq A(j) /\ i \notin A(i)
  BY <1>1, <1>3, <1>4, <1>5
<1>7. A(j) \subseteq 1 .. Len(signals) /\ Len(signals) \in Nat
  BY DEF SignalsTyped, DatedRows
<1>8. /\ Cardinality(A(j)) < TopLimit /\ ~(Cardinality(A(i)) < TopLimit)
      /\ TopLimit \in Nat
  BY SameCardinality DEF Book!_periodic_top_subjects, Book!BookAssumption
<1> HIDE DEF A
<1>9. Cardinality(A(i) \cup {i}) \in Nat /\ Cardinality(A(i) \cup {i}) <= Cardinality(A(j))
      /\ Cardinality(A(j)) \in Nat
  BY <1>6, <1>7, PositionsCounted
<1>10. IsFiniteSet(A(i)) /\ Cardinality(A(i)) \in Nat
  <2>1. A(i) \subseteq A(j)
    BY <1>6
  <2> QED BY <1>7, <2>1, PositionsCounted
<1>11. Cardinality(A(i) \cup {i}) = Cardinality(A(i)) + 1
  BY <1>6, <1>10, FS_AddElement
<1> QED BY <1>8, <1>9, <1>10, <1>11

\* The subjects a periodic report names lead the others.
LEMMA TopsLead ==
    ASSUME Book!BookAssumption, BookInv, PeriodicInv
    PROVE  Book!TopSubjectsLead
<1>1. ASSUME NEW u \in Users, NEW t \in Periods, last[u][t] # Book!NoReport,
             NEW i \in last[u][t].rows, i \notin last[u][t].top, NEW j \in last[u][t].top
      PROVE  Book!Rank(j) <= Book!Rank(i)
  <2> DEFINE x == last[u][t]
  <2>1. x \in Reading /\ x.rows \subseteq DOMAIN signals /\ x.top = TopOf[x.rows]
    BY <1>1 DEF PeriodicInv, LastInv, SignalPart
  <2>2. x.rows \in SUBSET Nat
    BY <2>1 DEF Reading
  <2>3. x.top = Book!_periodic_top_subjects(x.rows)
    BY <2>1, <2>2 DEF TopOf
  <2>4. j \in x.rows
    BY <1>1, <2>3 DEF Book!_periodic_top_subjects
  <2> QED BY <1>1, <2>1, <2>3, <2>4, TopLeads DEF BookInv, BookTypes
<1>2. ASSUME NEW i, Book!Rank(i) = 1, NEW j, Book!Rank(j) <= Book!Rank(i), Book!Rank(j) \in 1 .. 3
      PROVE  Book!Rank(j) = 1
  BY <1>2
<1>3. ASSUME NEW u \in Users, NEW t \in Periods, last[u][t] # Book!NoReport, NEW j \in last[u][t].top
      PROVE  Book!Rank(j) \in 1 .. 3
  <2> DEFINE x == last[u][t]
  <2>1. x \in Reading /\ x.rows \subseteq DOMAIN signals /\ x.top = TopOf[x.rows]
    BY <1>3 DEF PeriodicInv, LastInv, SignalPart
  <2>2. x.rows \in SUBSET Nat
    BY <2>1 DEF Reading
  <2>3. j \in DOMAIN signals
    BY <1>3, <2>1, <2>2 DEF TopOf, Book!_periodic_top_subjects
  <2>4. signals[j].priority \in {"P0", "P1", "P2"}
    BY <2>3 DEF BookInv, BookTypes, SignalsTyped, SignalRow, Book!Priorities
  <2> QED BY <2>4, RankIs
<1> QED BY <1>1, <1>2, <1>3 DEF Book!TopSubjectsLead, Book!Periodics

\* A periodic report that is made again never counts less.
LEMMA MadeAgainGrows ==
    ASSUME Book!BookAssumption, BookInv, PeriodicInv, [Book!Next]_Book!vars
    PROVE  Book!CountsGrow
<1> SUFFICES ASSUME NEW u \in Users, NEW t \in Periods,
                    last[u][t] # Book!NoReport, last'[u][t] # last[u][t],
                    LET span == DAY * (IF t = "daily" THEN 1 ELSE DAYS)
                    IN  (last[u][t].bounds.end + OFFSET) \div span
                          = (last'[u][t].bounds.end + OFFSET) \div span
             PROVE  /\ \A v \in Book!Priorities :
                          last'[u][t].priorities[v] >= last[u][t].priorities[v]
                    /\ last'[u][t].report_count >= last[u][t].report_count
                    /\ last'[u][t].push_count >= last[u][t].push_count
  BY DEF Book!CountsGrow, Book!Periodics
<1>1. Book!ReadPushes
  BY DEF Book!Next, Book!vars, Book!Tick, Book!AddSignal, Book!AddPush, Book!CommitReport,
         Book!ReviewForReport, Book!Reviewed, Book!LoseReport, Book!StartPeriodic,
         Book!ReadSignals, Book!ReadReports
<1> DEFINE new == last'[reader.user][reader.type]
           old == last[u][t]
<1>2. /\ last' = [last EXCEPT ![reader.user] = [@ EXCEPT ![reader.type] = new]]
      /\ new \in Reading /\ new.bounds = reader.bounds
      /\ new.priorities = reader.priorities /\ new.report_count = reader.report_count
      /\ new.push_count = PushCount[reader.user][reader.bounds]
  BY <1>1, ReadPushesMakes
<1>3. reader \in Reading /\ reader # Book!Idle /\ reader.pc = "pushes"
  BY <1>1 DEF Book!ReadPushes, Book!Idle, PeriodicInv, PeriodicTypes
<1>4. u = reader.user /\ t = reader.type
  <2> HIDE DEF new
  <2> QED BY <1>2 DEF PeriodicInv, PeriodicTypes
<1>5. old = Previous /\ last'[u][t] = new
  BY <1>4 DEF Previous
<1> HIDE DEF new
<1>6. /\ old \in Reading /\ old.bounds = Book!_period_bounds(t, old.bounds.end)
      /\ new.bounds = Book!_period_bounds(t, new.bounds.end)
  BY <1>2, <1>3, <1>4 DEF PeriodicInv, LastInv, ReaderInv, Begun
<1>7. old.bounds.end \in Nat /\ new.bounds.end \in Nat
  BY <1>2, <1>6 DEF Reading
<1>8. old.bounds.start = new.bounds.start
  <2>1. Book!_period_bounds(t, old.bounds.end).start = Book!_period_bounds(t, new.bounds.end).start
    BY <1>5, <1>7, PeriodStart
  <2> QED BY <1>6, <2>1
<1> HIDE DEF old
<1>9. SamePeriod
  BY <1>2, <1>5, <1>8 DEF SamePeriod, old
<1>10. /\ \A v \in Book!Priorities : old.priorities[v] <= new.priorities[v]
       /\ old.report_count <= new.report_count
  BY <1>2, <1>3, <1>5, <1>9 DEF PeriodicInv, ReaderInv
<1>11. old.push_count <= new.push_count
  BY <1>2, <1>3, <1>5, <1>9, CountsOfLast
<1>12. /\ old.report_count \in Nat /\ new.report_count \in Nat
       /\ old.push_count \in Nat /\ new.push_count \in Nat
       /\ \A v \in Book!Priorities : old.priorities[v] \in Nat /\ new.priorities[v] \in Nat
  BY <1>2, <1>6 DEF Reading
<1> QED BY <1>5, <1>10, <1>11, <1>12 DEF old

\* All reports of a signal agree in status and label, whoever asks for them and when, and
\* none is of a blocked signal; a periodic report names its most urgent signals
\* (_create_signal_report_for_user, _periodic_top_subjects).
THEOREM BookCorrect ==
    ASSUME Book!BookAssumption
    PROVE  Book!Spec => [](Book!ReportsAgree /\ Book!TopSubjectsLead)
<1>1. BookInv /\ PeriodicInv => Book!ReportsAgree /\ Book!TopSubjectsLead
  BY ReportsOfSignalAgree, TopsLead
<1> QED BY <1>1, BookAlways, PTL

\* Made again within its local day or week, a periodic report never counts less, although
\* reports are dated before they are seen and the tables are read one after the other
\* (_period_bounds, generate_periodic_report).
THEOREM RecountsCorrect ==
    ASSUME Book!BookAssumption
    PROVE  Book!Spec => [][Book!CountsGrow]_Book!vars
<1>1. BookInv /\ PeriodicInv /\ [Book!Next]_Book!vars => [Book!CountsGrow]_Book!vars
  BY MadeAgainGrows
<1> QED BY <1>1, BookAlways, PTL DEF Book!Spec

-----------------------------------------------------------------------------
(* A scan gives the signal of a subject the stage that its change from the one
   before calls for. *)
\* The stages the rules give, and those the change from the signal before gives.
RuleStages == {"ignition", "developing", "climax"}

\* A result of the rules that is a signal.
RuleResult(result, pct, breadth) ==
    /\ result \in [priority : Priorities, stage : RuleStages, confidence : 50 .. 100]
    /\ result.priority = "P2" => result.stage = "ignition"
    /\ result.stage = "climax" => pct >= 65 /\ breadth >= 7500
    /\ source = "risk" => result.stage = "ignition"

\* The newest signal is as sure as a rule can be, and a risk event has no figures.
SubjectInv ==
    /\ SubjectTypeOK /\ StageFitsPriority /\ DropsAreReported
    /\ ReturnsFromWeakness
    /\ newest # NoSignal => newest \in SignalType /\ newest.confidence >= 50
    /\ source = "risk" => newest.pct = 0 /\ newest.breadth = 0

\* The fields of a signal.
LEMMA SignalFields ==
    ASSUME NEW P, NEW S, NEW C, NEW M, NEW B,
           NEW n \in [priority : P, stage : S, confidence : C, pct : M, breadth : B]
    PROVE  /\ n.priority \in P /\ n.stage \in S /\ n.confidence \in C /\ n.pct \in M
           /\ n.breadth \in B
OBVIOUS

\* The figures of a signal are numbers.
LEMMA SignalTyped ==
    ASSUME NEW n \in SignalType
    PROVE  n.pct \in Int /\ n.breadth \in Int /\ n.confidence \in Int /\ n.priority \in Priorities
<1>1. n.pct \in Int /\ n.breadth \in 0 .. 10000 /\ n.confidence \in 0 .. 100
      /\ n.priority \in Priorities
  BY SignalFields DEF SignalType
<1>2. \A x : x \in 0 .. 10000 => x \in Int
  OBVIOUS
<1>3. \A x : x \in 0 .. 100 => x \in Int
  OBVIOUS
<1> QED BY <1>1, <1>2, <1>3

\* Shares are in ten-thousandths.
Shares == 0 .. 10000

\* A share of the members is between none and all of them.
LEMMA BreadthIs ==
    ASSUME NEW rising \in Nat, NEW falling \in Nat
    PROVE  Breadth(rising, falling) \in Shares
<1>1. CASE rising + falling <= 0
  BY <1>1 DEF Breadth, Shares
<1>2. CASE rising + falling > 0
  <2> DEFINE s == rising + falling
             n == 20000 * rising + rising + falling
             q == n \div (2 * s)
  <2>1. s \in Nat \ {0} /\ n \in Nat /\ n <= 20001 * s /\ 2 * s \in Nat \ {0}
    BY <1>2
  <2>2. Breadth(rising, falling) = q
    BY <1>2 DEF Breadth
  <2> HIDE DEF s, n
  <2>3. q \in Int /\ (2 * s) * q <= n /\ n < (2 * s) * q + 2 * s
    BY <2>1
  <2> HIDE DEF q
  <2>4. q >= 0
    <3> SUFFICES ASSUME q <= -1 PROVE FALSE
      BY <2>3
    <3>1. (2 * s) * q <= (2 * s) * (-1)
      BY <2>1, <2>3
    <3> QED BY <2>1, <2>3, <3>1
  <2>5. q <= 10000
    <3> SUFFICES ASSUME q >= 10001 PROVE FALSE
      BY <2>3
    <3>1. (2 * s) * q >= (2 * s) * 10001
      BY <2>1, <2>3
    <3> QED BY <2>1, <2>3, <3>1
  <2> QED BY <2>2, <2>3, <2>4, <2>5 DEF Shares
<1> QED BY <1>1, <1>2

\* What the rules make of a row.
LEMMA SectorResult ==
    ASSUME NEW row \in [pct : Int, rising : Nat, falling : Nat, leader : Int],
           source = "sector", ClassifySectorMovement(row) # NoResult
    PROVE  RuleResult(ClassifySectorMovement(row), row.pct,
                      Breadth(row.rising, row.falling))
<1> DEFINE b == Breadth(row.rising, row.falling)
<1>1. b \in Int /\ row.pct \in Int
  <2>1. row.rising \in Nat /\ row.falling \in Nat /\ row.pct \in Int
    OBVIOUS
  <2>2. b \in Shares
    <3> DEFINE r == row.rising
               f == row.falling
    <3>1. r \in Nat /\ f \in Nat /\ b = Breadth(r, f)
      BY <2>1
    <3> HIDE DEF r, f, b
    <3> QED BY <3>1, BreadthIs
  <2> HIDE DEF b
  <2> QED BY <2>1, <2>2 DEF Shares
<1> HIDE DEF b
<1>2. /\ LifecycleFor(row.pct, b) \in RuleStages
      /\ LifecycleFor(row.pct, b) = "climax" => row.pct >= 65 /\ b >= 7500
  BY <1>1 DEF LifecycleFor, RuleStages
<1>3. ClassifySectorMovement(row) \in
        {Result("P0", LifecycleFor(row.pct, b), 82),
         Result("P1", LifecycleFor(row.pct, b), 68),
         Result("P2", "ignition", 52)}
  BY DEF ClassifySectorMovement, b
<1> QED
  BY <1>2, <1>3 DEF RuleResult, Result, Priorities, RuleStages, b

\* What the rules make of a risk event.
LEMMA RiskResult ==
    ASSUME NEW event, source = "risk", ClassifyRiskEvent(event) # NoResult
    PROVE  RuleResult(ClassifyRiskEvent(event), 0, 0)
<1>1. ClassifyRiskEvent(event) = Result("P0", "ignition", 78)
  BY DEF ClassifyRiskEvent
<1> QED BY <1>1 DEF RuleResult, Result, Priorities, RuleStages


\* A scan gives the signal the stage that the drop from the one before calls for.
LEMMA ScanDevelops ==
    ASSUME SubjectInv, NEW row, source \in {"sector", "risk"}, Scan(row),
           RuleResult(Classify(row), Pct(row), BreadthOf(row)),
           Pct(row) \in Int, BreadthOf(row) \in Shares,
           source = "risk" => Pct(row) = 0 /\ BreadthOf(row) = 0
    PROVE  SubjectInv'
<1> DEFINE result == Classify(row)
           p == Pct(row)
           b == BreadthOf(row)
           stage == StageAfter(result, row)
           new == [priority |-> result.priority, stage |-> stage,
                   confidence |-> result.confidence, pct |-> p, breadth |-> b]
<1>1. previous' = newest /\ newest' = new /\ source' = source
  BY DEF Scan
<1>2. /\ result \in [priority : Priorities, stage : RuleStages, confidence : 50 .. 100]
      /\ result.priority = "P2" => result.stage = "ignition"
      /\ result.stage = "climax" => p >= 65 /\ b >= 7500
      /\ source = "risk" => result.stage = "ignition"
      /\ p \in Int /\ b \in Shares
      /\ source = "risk" => p = 0 /\ b = 0
  BY DEF RuleResult
<1>3. /\ newest = NoSignal => stage = result.stage
      /\ newest # NoSignal =>
            stage = AdjustLifecycle(result, newest, p - newest.pct, b - newest.breadth)
  BY DEF StageAfter
<1> HIDE DEF result, p, b, stage
<1>4. newest.pct \in Int /\ newest.breadth \in Int
  <2>1. newest \in SignalType \/ newest = NoSignal
    BY DEF SubjectInv, SubjectTypeOK
  <2>2. newest \in SignalType => newest.pct \in Int /\ newest.breadth \in Int
    BY SignalTyped
  <2>3. newest = NoSignal => newest.pct \in Int /\ newest.breadth \in Int
    BY DEF NoSignal
  <2> QED BY <2>1, <2>2, <2>3
<1>5. stage \in RuleStages \cup {"returning", "fading", "divergence"}
  <2>1. result.stage \in RuleStages
    BY <1>2
  <2>2. \A d, f : AdjustLifecycle(result, newest, d, f)
                    \in {result.stage, "returning", "fading", "divergence", "developing"}
    BY DEF AdjustLifecycle
  <2> QED BY <1>3, <2>1, <2>2 DEF RuleStages
<1>6. /\ new.priority = result.priority /\ new.stage = stage
      /\ new.confidence = result.confidence /\ new.pct = p /\ new.breadth = b
      /\ new \in SignalType /\ new.confidence >= 50
  BY <1>2, <1>5 DEF SignalType, Stages, RuleStages, Shares
<1> HIDE DEF new
<1>7. new # NoSignal
  BY <1>6 DEF SignalType, NoSignal, Priorities
<1>8. SubjectTypeOK'
  BY <1>1, <1>6 DEF SubjectInv, SubjectTypeOK
<1>9. CASE newest = NoSignal
  <2>1. stage = result.stage
    BY <1>3, <1>9
  <2>2. StageFitsPriority'
    BY <1>1, <1>2, <1>6, <2>1 DEF StageFitsPriority, RuleStages
  <2>3. DropsAreReported' /\ ReturnsFromWeakness'
    BY <1>1, <1>2, <1>6, <1>9, <2>1
       DEF DropsAreReported, ReturnsFromWeakness, RuleStages
  <2> QED BY <1>1, <1>2, <1>6, <1>8, <2>2, <2>3 DEF SubjectInv
<1>10. CASE newest # NoSignal
  <2> DEFINE dp == p - newest.pct
             db == b - newest.breadth
  <2>1. dp \in Int /\ db \in Int
    BY <1>2, <1>4 DEF Shares
  <2>2. dp = new.pct - newest.pct /\ db = new.breadth - newest.breadth
    BY <1>6
  <2>3. source = "risk" => dp = 0 /\ db = 0 /\ newest.stage \in {"ignition", "none"}
    BY <1>2 DEF SubjectInv, StageFitsPriority
  <2>4. stage = AdjustLifecycle(result, newest, dp, db)
    BY <1>3, <1>10
  <2> HIDE DEF dp, db
  <2>5. CASE newest.stage \in {"divergence", "fading"} /\ dp >= 10 /\ db >= 500
    <3>1. stage = "returning" /\ source # "risk"
      BY <2>1, <2>3, <2>4, <2>5 DEF AdjustLifecycle
    <3>2. StageFitsPriority'
      BY <1>1, <1>6, <3>1 DEF StageFitsPriority
    <3>3. ~Dropped(newest, new) /\ new.pct > newest.pct /\ new.breadth > newest.breadth
      BY <1>2, <1>4, <1>6, <2>1, <2>2, <2>5 DEF Dropped, Shares
    <3>4. DropsAreReported'
      BY <1>1, <1>6, <3>1, <3>3 DEF DropsAreReported, Weak, Dropped
    <3>5. ReturnsFromWeakness'
      BY <1>1, <1>6, <2>5, <3>3 DEF ReturnsFromWeakness, Weak
    <3> QED BY <1>1, <1>2, <1>6, <1>8, <3>2, <3>4, <3>5 DEF SubjectInv
  <2>6. CASE ~(newest.stage \in {"divergence", "fading"} /\ dp >= 10 /\ db >= 500)
    <3>1. stage = IF dp <= -20 \/ db <= -2000
                  THEN IF result.priority = "P2" THEN "fading" ELSE "divergence"
                  ELSE IF dp >= 10 /\ result.priority # "P2" /\ result.stage = "ignition"
                  THEN "developing" ELSE result.stage
      BY <2>4, <2>6 DEF AdjustLifecycle
    <3>2. /\ stage # "returning" /\ (source = "risk" => stage = "ignition")
          /\ stage \in Weak <=> dp <= -20 \/ db <= -2000
          /\ stage = "climax" => result.stage = "climax"
          /\ stage = "fading" => result.priority = "P2"
          /\ stage \in {"divergence", "developing", "climax"} => result.priority # "P2"
      BY <1>2, <2>1, <2>3, <3>1 DEF RuleStages, Weak
    <3>3. StageFitsPriority'
      BY <1>1, <1>2, <1>6, <3>2 DEF StageFitsPriority
    <3>4. DropsAreReported'
      BY <1>1, <1>6, <2>2, <3>2 DEF DropsAreReported, Dropped, Weak
    <3>5. ReturnsFromWeakness'
      BY <1>1, <1>6, <3>2 DEF ReturnsFromWeakness
    <3> QED BY <1>1, <1>2, <1>6, <1>8, <3>3, <3>4, <3>5 DEF SubjectInv
  <2> QED BY <2>5, <2>6
<1> QED BY <1>9, <1>10

\* The invariant of a subject holds.
LEMMA SubjectAlways == ASSUME RowsAssumption PROVE SubjectSpec => []SubjectInv
<1>1. SubjectInit => SubjectInv
  BY DEF SubjectInit, SubjectInv, SubjectTypeOK, StageFitsPriority, NoSignal,
         DropsAreReported, ReturnsFromWeakness
<1>2. SubjectInv /\ [SubjectNext]_subjectVars => SubjectInv'
  <2> SUFFICES ASSUME SubjectInv, [SubjectNext]_subjectVars PROVE SubjectInv'
    OBVIOUS
  <2>1. CASE UNCHANGED subjectVars
    BY <2>1 DEF SubjectInv, subjectVars, SubjectTypeOK, StageFitsPriority,
                DropsAreReported, ReturnsFromWeakness
  <2>2. ASSUME NEW row \in Rows, source = "sector", Scan(row) PROVE SubjectInv'
    <3>1. /\ row \in [pct : Int, rising : Nat, falling : Nat, leader : Int]
          /\ row.rising \in Nat /\ row.falling \in Nat /\ row.pct \in Int
      BY DEF RowsAssumption
    <3>2. /\ Classify(row) = ClassifySectorMovement(row)
          /\ Pct(row) = row.pct
          /\ BreadthOf(row) = Breadth(row.rising, row.falling)
      BY <2>2 DEF Classify, Pct, BreadthOf
    <3>3. Classify(row) # NoResult
      BY <2>2 DEF Scan
    <3>4. BreadthOf(row) \in Shares
      <4> DEFINE r == row.rising
                 f == row.falling
      <4>1. r \in Nat /\ f \in Nat /\ BreadthOf(row) = Breadth(r, f)
        BY <3>1, <3>2
      <4> HIDE DEF r, f
      <4> QED BY <4>1, BreadthIs
    <3>5. RuleResult(Classify(row), Pct(row), BreadthOf(row))
      BY <2>2, <3>1, <3>2, <3>3, SectorResult
    <3>6. Pct(row) \in Int /\ source # "risk" /\ source \in {"sector", "risk"}
      BY <2>2, <3>1, <3>2
    <3> QED BY <2>2, <3>4, <3>5, <3>6, ScanDevelops
  <2>3. ASSUME NEW event \in Events, source = "risk", Scan(event) PROVE SubjectInv'
    <3>1. /\ Classify(event) = ClassifyRiskEvent(event)
          /\ Pct(event) = 0 /\ BreadthOf(event) = 0
      BY <2>3 DEF Classify, Pct, BreadthOf
    <3>2. Classify(event) # NoResult
      BY <2>3 DEF Scan
    <3>3. RuleResult(Classify(event), Pct(event), BreadthOf(event))
      BY <2>3, <3>1, <3>2, RiskResult
    <3>4. /\ Pct(event) \in Int /\ BreadthOf(event) \in Shares
          /\ source \in {"sector", "risk"}
      BY <2>3, <3>1 DEF Shares
    <3> QED BY <2>3, <3>1, <3>3, <3>4, ScanDevelops
  <2> QED BY <2>1, <2>2, <2>3 DEF SubjectNext
<1> QED BY <1>1, <1>2, PTL DEF SubjectSpec

\* What the rules find in sound data gives the review no reason to object.
LEMMA SoundIsApproved == ASSUME SubjectInv PROVE SoundSignalsAreApproved
<1> SUFFICES ASSUME newest # NoSignal
             PROVE  StoredReview!EvaluateSignal(Stored, <<Evidence>>) = "approved"
  BY DEF SoundSignalsAreApproved
<1> DEFINE s == Stored
           e == Evidence
           es == <<e>>
<1>1. /\ newest.pct \in Int /\ newest.breadth \in Int /\ newest.confidence \in Int
      /\ newest.confidence >= 50
  <2>1. newest \in SignalType /\ newest.confidence >= 50
    BY DEF SubjectInv
  <2> QED BY <2>1, SignalTyped
<1>2. /\ s.forbidden = FALSE /\ s.evidence_count = 1 /\ s.quality = "ok"
      /\ s.hints = <<"rule">> /\ s.metrics = [pct_change |-> newest.pct, breadth |-> newest.breadth]
  BY DEF Stored
<1>3. /\ e.forbidden = FALSE /\ e.confidence = newest.confidence /\ e.quality = "ok"
      /\ e.hints = <<"rule">> /\ e.conflict = FALSE /\ e.metrics = s.metrics
      /\ e.source_time = {} /\ e.freshness = {"latest"}
  BY DEF Evidence, Stored
<1> HIDE DEF s, e
<1>4. Len(es) = 1 /\ StoredReview!ToSet(es) = {e}
  BY DEF StoredReview!ToSet
<1> HIDE DEF es
<1>5. ~StoredReview!MissingEvidence(s, es) /\ ~StoredReview!CountMismatch(s, es)
  BY <1>2, <1>4 DEF StoredReview!MissingEvidence, StoredReview!CountMismatch
<1>6. StoredReview!QualityStatuses(s, es) = {"ok"}
  BY <1>2, <1>3, <1>4 DEF StoredReview!QualityStatuses
<1>7. ~StoredReview!LowConfidence(es) /\ ~StoredReview!StaleSource(es)
  BY <1>1, <1>3, <1>4
     DEF StoredReview!LowConfidence, StoredReview!LowConfidenceThreshold,
         StoredReview!StaleSource, StoredReview!SourceAgeIsStale,
         StoredReview!FreshnessIsStale, StoredReview!StaleMarkers
<1>8. ~StoredReview!EvidenceConflict(s, es)
  <2>1. DOMAIN s.metrics = {"pct_change", "breadth"}
        /\ \A f \in DOMAIN s.metrics : s.metrics[f] \in Int
    BY <1>1, <1>2
  <2>2. \A f \in DOMAIN s.metrics : ~StoredReview!ValuesConflict(s.metrics[f], e.metrics[f])
    BY <1>3, <2>1 DEF StoredReview!ValuesConflict, StoredReview!Distance,
                      StoredReview!NumericTolerance
  <2> QED BY <1>3, <1>4, <2>2 DEF StoredReview!EvidenceConflict
<1>9. ~StoredReview!DuplicateHints(s, es)
  <2>1. StoredReview!IsInjective(<<"rule">>)
    BY DEF StoredReview!IsInjective
  <2> QED BY <1>2, <1>3, <1>4, <2>1 DEF StoredReview!DuplicateHints
<1>10. StoredReview!ReviewReasons(s, es) = {}
  BY <1>2, <1>3, <1>4, <1>5, <1>6, <1>7, <1>8, <1>9 DEF StoredReview!ReviewReasons
<1> QED BY <1>10 DEF StoredReview!EvaluateSignal, s, e, es

\* Over any series of scans of a subject the stage of a signal fits its priority, every drop
\* between two signals shows and nothing else does, a return is one from weakness, and the
\* review approves what the rules found in sound data (radar/rules.py, radar/service.py).
THEOREM SubjectCorrect ==
    ASSUME RowsAssumption
    PROVE  SubjectSpec => []SubjectsDevelop
<1>1. SubjectInv => SubjectsDevelop
  BY SoundIsApproved DEF SubjectInv, SubjectsDevelop
<1> QED BY <1>1, SubjectAlways, PTL

-----------------------------------------------------------------------------
(* A draft is on its way through calls and logs of which each step knows how many
   there are; settings do not change meanwhile. *)
\* A call reaches a provider when nothing stands against it.
Callable(s) ==
    Enabled(s) /\ s.primary # NoModel /\ ~ConfigError(s)

LogRow == [status : {"degraded", "fallback"}, draft : {"none", "degraded", "blocked"},
           previous : {0, 1}]

CallsInv ==
    /\ settings \in SettingsSpace
    /\ calls \in Seq({settings.primary, settings.fallback})
    /\ pc = "start" => calls = <<>>
    /\ pc = "primary_failed" => Enabled(settings) /\ settings.primary # NoModel
    /\ pc # "start" => (calls # <<>> <=> Callable(settings))
    /\ calls # <<>> => calls[1] = settings.primary

LogsInv ==
    /\ logs \in Seq(LogRow)
    /\ pc \in {"start", "primary_failed", "degraded", "fallback_ok", "ok"} => logs = <<>>
    /\ pc = "fallback" => Len(logs) = 1 /\ logs[1].status = "fallback"

DraftInv ==
    /\ CallsInv /\ LogsInv /\ OutcomesAreAudited /\ DraftsAreClean
    /\ pc \in {"start", "primary_failed", "degraded", "fallback_ok", "ok", "fallback", "done"}

\* A log of one more row.
LEMMA LogAppended ==
    ASSUME logs \in Seq(LogRow), NEW row \in LogRow, logs' = Append(logs, row)
    PROVE  /\ logs' \in Seq(LogRow) /\ Len(logs') = Len(logs) + 1 /\ Len(logs) \in Nat
           /\ logs' # <<>> /\ logs'[Len(logs')] = row /\ Last(logs') = row
           /\ \A i \in 1 .. Len(logs) : logs'[i] = logs[i]
<1>1. /\ logs' \in Seq(LogRow) /\ Len(logs') = Len(logs) + 1 /\ Len(logs) \in Nat
      /\ logs'[Len(logs')] = row /\ \A i \in 1 .. Len(logs) : logs'[i] = logs[i]
  OBVIOUS
<1> QED BY <1>1 DEF Last

\* What a draft shows of a text without unsafe terms is clean.
LEMMA ShownIsClean ==
    ASSUME NEW p, p.kind = "object", "terms" \notin PayloadText(p)
    PROVE  Shown(p) \cap {"terms", "link"} = {}
<1>1. ASSUME NEW t, t # "terms" PROVE BoundedText(t) \notin {"terms", "link"}
  BY <1>1 DEF BoundedText
<1>2. p.summary # "terms" /\ \A i \in DOMAIN p.items : p.items[i] # "terms"
  BY DEF PayloadText, ToSet
<1>3. \A t \in BoundedTextList(p.items) : t \notin {"terms", "link"}
  BY <1>1, <1>2 DEF BoundedTextList
<1> QED BY <1>1, <1>2, <1>3 DEF Shown

\* The calls that are made are made with the primary model first.
LEMMA CallsGoOn ==
    ASSUME UrlsAssumption, DraftInv, [DraftNext]_draftVars
    PROVE  CallsInv'
<1>1. settings' = settings
  BY DEF DraftNext, draftVars, CallDisabled, NoPrimaryModel, CallPrimary,
         CallFallback, SkipFallback, RecordDegraded, RecordFallback,
         AuditFails, ReplyWithDraft, RecordBadDraft
<1>2. CASE CallPrimary
  <2>1. /\ pc = "start" /\ Enabled(settings) /\ settings.primary # NoModel
        /\ Call(settings.primary, "ok", "primary_failed")
    BY <1>2 DEF CallPrimary
  <2>2. CASE ConfigError(settings)
    BY <1>1, <2>1, <2>2 DEF Call, DraftInv, CallsInv, Callable
  <2>3. CASE ~ConfigError(settings)
    <3>1. calls' = Append(calls, settings.primary) /\ calls = <<>> /\ pc' \in {"ok", "primary_failed"}
      BY <2>1, <2>3 DEF Call, DraftInv, CallsInv
    <3>2. calls' = <<settings.primary>>
      BY <3>1
    <3> QED BY <1>1, <2>1, <2>3, <3>1, <3>2 DEF DraftInv, CallsInv, Callable
  <2> QED BY <2>2, <2>3
<1>3. CASE CallFallback
  <2>1. pc = "primary_failed" /\ Call(settings.fallback, "fallback_ok", "degraded")
    BY <1>3 DEF CallFallback
  <2>2. CASE ConfigError(settings)
    BY <1>1, <2>1, <2>2 DEF Call, DraftInv, CallsInv, Callable
  <2>3. CASE ~ConfigError(settings)
    <3>1. calls' = Append(calls, settings.fallback) /\ pc' \in {"fallback_ok", "degraded"}
      BY <2>1, <2>3 DEF Call
    <3>2. Callable(settings) => calls # <<>> /\ calls[1] = settings.primary
      BY <2>1 DEF DraftInv, CallsInv
    <3>3. Callable(settings) <=> calls # <<>>
      BY <2>1 DEF DraftInv, CallsInv
    <3>4. Callable(settings)
      BY <2>1, <2>3 DEF DraftInv, CallsInv, Callable
    <3>5. calls \in Seq({settings.primary, settings.fallback})
      BY DEF DraftInv, CallsInv
    <3>6. /\ calls' \in Seq({settings.primary, settings.fallback}) /\ calls' # <<>>
          /\ calls'[1] = settings.primary
      BY <3>1, <3>2, <3>4, <3>5
    <3>7. settings \in SettingsSpace
      BY DEF DraftInv, CallsInv
    <3> QED BY <1>1, <3>1, <3>4, <3>6, <3>7 DEF CallsInv
  <2> QED BY <2>2, <2>3
<1>4. CASE calls' = calls /\ pc # "start" /\ pc' \notin {"start", "primary_failed"}
  BY <1>1, <1>4 DEF DraftInv, CallsInv
<1>5. CASE CallDisabled \/ NoPrimaryModel
  BY <1>1, <1>5 DEF CallDisabled, NoPrimaryModel, Finish, DraftInv, CallsInv,
                    Callable
<1>6. CASE UNCHANGED draftVars
  BY <1>6 DEF draftVars, DraftInv, CallsInv
<1>7. \/ CallPrimary \/ CallFallback \/ CallDisabled \/ NoPrimaryModel
      \/ UNCHANGED draftVars
      \/ (calls' = calls /\ pc # "start" /\ pc' \notin {"start", "primary_failed"})
  BY DEF DraftNext, SkipFallback, RecordDegraded, RecordFallback,
         AuditFails, ReplyWithDraft, RecordBadDraft, Finish
<1> QED BY <1>2, <1>3, <1>4, <1>5, <1>6, <1>7

\* With analysis enabled the readiness check fails exactly for what a call fails for.
LEMMA ReadinessIs ==
    ASSUME UrlsAssumption, NEW s \in SettingsSpace
    PROVE  /\ s.enabled => (Readiness(s) # "fail" <=> Callable(s))
           /\ ConnectionTestCalls(s) => Callable(s)
<1>1. ToSet(ReadinessChecks(s))
        = {ProviderCheck(s), EnablementCheck(s), PrimaryModelCheck(s),
           FallbackModelCheck(s), CredentialCheck(s), CustomBaseUrlCheck(s),
           RawPromptStorageCheck(s)}
  <2>1. \A a, b, c, d, e, f, g : ToSet(<<a, b, c, d, e, f, g>>) = {a, b, c, d, e, f, g}
    BY DEF ToSet
  <2> QED BY <2>1 DEF ReadinessChecks
<1>2. /\ FallbackModelCheck(s) # "fail" /\ RawPromptStorageCheck(s) # "fail"
      /\ ProviderCheck(s) = "fail" <=> s.provider \notin {"disabled", "openai", "custom"}
      /\ s.enabled => (EnablementCheck(s) = "fail" <=> s.provider = "disabled")
      /\ PrimaryModelCheck(s) = "fail" <=> Enabled(s) /\ s.primary = NoModel
      /\ CredentialCheck(s) = "fail" <=>
            /\ Enabled(s) /\ ~(s.provider = "openai" /\ s.openaiKey)
            /\ ~(s.provider = "custom" /\ s.modelKey)
      /\ CustomBaseUrlCheck(s) = "fail" <=> s.enabled /\ s.provider = "custom" /\ s.url # "good"
  BY DEF FallbackModelCheck, RawPromptStorageCheck, ProviderCheck,
         EnablementCheck, PrimaryModelCheck, CredentialCheck,
         CustomBaseUrlCheck
<1>3. Readiness(s) = "fail" <=>
        \/ ProviderCheck(s) = "fail" \/ EnablementCheck(s) = "fail"
        \/ PrimaryModelCheck(s) = "fail" \/ CredentialCheck(s) = "fail"
        \/ CustomBaseUrlCheck(s) = "fail"
  BY <1>1, <1>2 DEF Readiness, OverallStatus
<1>4. ValidBaseUrl(s.url) <=> s.url = "good"
  BY DEF UrlsAssumption, ValidBaseUrl
<1>5. s.enabled => (Readiness(s) # "fail" <=> Callable(s))
  BY <1>2, <1>3, <1>4 DEF Callable, Enabled, ConfigError
<1>6. ConnectionTestCalls(s) => Callable(s)
  BY <1>5 DEF ConnectionTestCalls, Enabled
<1> QED BY <1>5, <1>6

\* A log is written before the reply that names it.
LEMMA LogsGoOn ==
    ASSUME DraftInv, [DraftNext]_draftVars
    PROVE  LogsInv' /\ OutcomesAreAudited'
<1>1. logs \in Seq(LogRow)
  BY DEF DraftInv, LogsInv
<1>2. ASSUME logs' = logs, pc' # "done", pc' = "fallback" => pc = "fallback",
             pc' # pc => pc \in {"start", "primary_failed"}
      PROVE  LogsInv' /\ OutcomesAreAudited'
  BY <1>2 DEF DraftInv, LogsInv, OutcomesAreAudited, Answered
<1>3. CASE NoPrimaryModel \/ CallPrimary \/ CallFallback \/ SkipFallback
  <2>1. /\ logs' = logs /\ pc' \in {"degraded", "ok", "primary_failed", "fallback_ok"}
        /\ pc \in {"start", "primary_failed"}
    BY <1>3 DEF NoPrimaryModel, CallPrimary, CallFallback, SkipFallback,
                Call
  <2> QED BY <1>2, <2>1
<1>4. CASE CallDisabled
  BY <1>4 DEF CallDisabled, Finish, Unavailable, NoReply, DraftInv, LogsInv,
              OutcomesAreAudited, Answered
<1>5. CASE RecordDegraded
  <2> DEFINE row == [status |-> "degraded", draft |-> "none", previous |-> 0]
  <2>1. logs' = Append(logs, row) /\ row \in LogRow
    BY <1>5 DEF RecordDegraded, Log, LogRow
  <2>2. /\ pc' = "done" /\ reply'.model = "degraded" /\ reply'.draft = "not_available"
        /\ reply'.log = Len(logs')
    BY <1>5 DEF RecordDegraded, Finish, Unavailable, NoReply
  <2>3. row.status = "degraded"
    OBVIOUS
  <2> HIDE DEF row
  <2>4. logs' \in Seq(LogRow) /\ logs' # <<>> /\ Last(logs') = row
    BY <1>1, <2>1, LogAppended
  <2> QED BY <2>2, <2>3, <2>4 DEF LogsInv, OutcomesAreAudited, Answered
<1>6. CASE RecordFallback
  <2> DEFINE row == [status |-> "fallback", draft |-> "none", previous |-> 0]
  <2>1. logs' = Append(logs, row) /\ row \in LogRow /\ pc' = "fallback" /\ logs = <<>>
    BY <1>6 DEF RecordFallback, Log, LogRow, DraftInv, LogsInv
  <2>2. row.status = "fallback"
    OBVIOUS
  <2> HIDE DEF row
  <2>3. logs' \in Seq(LogRow) /\ Len(logs') = 1 /\ logs'[1] = row
    BY <1>1, <2>1, LogAppended
  <2> QED BY <2>1, <2>2, <2>3 DEF LogsInv, OutcomesAreAudited, Answered
<1>7. CASE ReplyWithDraft
  <2>1. /\ pc \in {"ok", "fallback"} /\ pc' = "done" /\ logs' = logs
        /\ reply'.model = pc /\ reply'.draft = "ok" /\ reply'.log = Len(logs)
    BY <1>7 DEF ReplyWithDraft, Finish
  <2>2. /\ pc = "ok" => logs = <<>> /\ Len(logs) = 0
        /\ pc = "fallback" => Len(logs) = 1 /\ logs[1].status = "fallback" /\ logs # <<>>
                               /\ Last(logs) = logs[1]
    BY <1>1 DEF DraftInv, LogsInv, Last
  <2> QED BY <1>1, <2>1, <2>2 DEF LogsInv, OutcomesAreAudited, Answered
<1>8. CASE RecordBadDraft
  <2> DEFINE status == DraftStatus(content)
             row == [status |-> "degraded", draft |-> status, previous |-> Len(logs)]
  <2>1. /\ pc \in {"ok", "fallback"} /\ pc' = "done" /\ status \in {"degraded", "blocked"}
        /\ reply'.model = pc /\ reply'.draft = status /\ reply'.log = Len(logs')
        /\ logs' = Append(logs, row)
    BY <1>8 DEF RecordBadDraft, Finish, Log, NoReply, DraftStatus
  <2>2. /\ pc = "ok" => Len(logs) = 0
        /\ pc = "fallback" => Len(logs) = 1 /\ logs[1].status = "fallback"
    BY <2>1 DEF DraftInv, LogsInv
  <2>3. row \in LogRow /\ row.status = "degraded" /\ row.previous = Len(logs)
    BY <2>1, <2>2 DEF LogRow
  <2> HIDE DEF row, status
  <2>4. /\ logs' \in Seq(LogRow) /\ logs' # <<>> /\ Last(logs') = row
        /\ Len(logs) = 1 => logs'[1] = logs[1]
    BY <1>1, <2>1, <2>3, LogAppended
  <2> QED BY <2>1, <2>2, <2>3, <2>4 DEF LogsInv, OutcomesAreAudited, Answered
<1>9. CASE AuditFails
  BY <1>1, <1>9 DEF AuditFails, Finish, NoReply, LogsInv,
                    OutcomesAreAudited, Answered
<1>10. CASE UNCHANGED draftVars
  BY <1>10 DEF draftVars, DraftInv, LogsInv, OutcomesAreAudited, Answered
<1> QED
  BY <1>3, <1>4, <1>5, <1>6, <1>7, <1>8, <1>9, <1>10 DEF DraftNext

\* Every step keeps the invariant of a draft.
LEMMA DraftStays ==
    ASSUME UrlsAssumption, DraftInv, [DraftNext]_draftVars
    PROVE  DraftInv'
<1>1. CallsInv' /\ LogsInv' /\ OutcomesAreAudited'
  BY CallsGoOn, LogsGoOn
<1>2. pc' \in {"start", "primary_failed", "degraded", "fallback_ok", "ok", "fallback", "done"}
  BY DEF DraftInv, DraftNext, draftVars, CallDisabled, NoPrimaryModel,
         CallPrimary, CallFallback, Call, SkipFallback,
         RecordDegraded, RecordFallback, AuditFails, ReplyWithDraft,
         RecordBadDraft, Finish
<1>3. DraftsAreClean'
  <2>1. CASE ReplyWithDraft
    <3>1. /\ content' = content /\ DraftStatus(content) = "ok"
          /\ reply'.shown = Shown(content) /\ reply'.model # "error"
      BY <2>1 DEF ReplyWithDraft, Finish
    <3>2. content.kind = "object" /\ "terms" \notin PayloadText(content)
      BY <3>1 DEF DraftStatus
    <3> QED
      BY <3>1, <3>2, ShownIsClean DEF DraftsAreClean, PayloadText
  <2>2. CASE RecordBadDraft
    BY <2>2 DEF RecordBadDraft, Finish, NoReply, DraftsAreClean,
                DraftStatus, PayloadText
  <2>3. CASE CallDisabled \/ RecordDegraded \/ AuditFails
    BY <2>3 DEF CallDisabled, RecordDegraded, AuditFails, Finish,
                Unavailable, NoReply, DraftsAreClean, Answered
  <2>4. CASE pc' # "done"
    BY <2>4 DEF DraftsAreClean, Answered
  <2>5. CASE UNCHANGED draftVars
    BY <2>5 DEF draftVars, DraftInv, DraftsAreClean, Answered
  <2> QED
    BY <2>1, <2>2, <2>3, <2>4, <2>5
       DEF DraftNext, NoPrimaryModel, CallPrimary, CallFallback, Call,
           SkipFallback, RecordFallback
<1> QED BY <1>1, <1>2, <1>3 DEF DraftInv

\* Whatever the models answer and whichever call fails, the reply names the log that says
\* why, shows nothing unsafe, and the readiness check foretold whether a call was made
\* (ai/model_client.py, ai/analysis_output.py, audit/model_provider_readiness.py).
THEOREM DraftsCorrect ==
    ASSUME UrlsAssumption
    PROVE  DraftSpec => []DraftsAreAudited
<1>1. DraftInit => DraftInv
  BY DEF DraftInit, DraftInv, CallsInv, LogsInv, OutcomesAreAudited, DraftsAreClean,
         Answered
<1>2. DraftInv /\ [DraftNext]_draftVars => DraftInv'
  BY DraftStays
<1>3. DraftInv => ReadinessPredictsCalls
  BY ReadinessIs DEF DraftInv, CallsInv, ReadinessPredictsCalls
<1>4. DraftInv => DraftsAreAudited
  BY <1>3 DEF DraftInv, DraftsAreAudited
<1> QED BY <1>1, <1>2, <1>4, PTL DEF DraftSpec

-----------------------------------------------------------------------------
(* A scan that has ended never changes, and the reader takes the last to start of
   those it finds. *)
CONSTANTS Contents, Readers, P2Window, Limit, MaxBatches
VARIABLES now, batches, viewer
View == INSTANCE RadarView WITH reader <- viewer

\* A scan with its signals, and how far a reader is.
FoundSignal == [key : View!SubjectKeys, priority : {"P0", "P1", "P2"}, id : Nat \X Nat, created : Int]
ScanStatuses == {"running", "success", "no_data", "failure"}
ScanRow == [status : ScanStatuses, started : Int, signals : Seq(FoundSignal)]
View_ == [pc : {"idle", "batch_read", "done"}, batch : Nat, status : ScanStatuses \cup {"none"},
          known : Nat, signals : Seq(FoundSignal), readAt : Nat]

\* Only a scan that has succeeded has signals, and none starts in the future.
ScansInv ==
    /\ now \in Nat /\ batches \in Seq(ScanRow)
    /\ \A b \in 1 .. Len(batches) :
          /\ -1 <= batches[b].started /\ batches[b].started <= now
          /\ batches[b].status = "success" <=> batches[b].signals # <<>>

\* The scan of a reader is the last to start of those it knew of, and it has read what
\* the scan has come to be unless it was running.
ViewerInv(x) ==
    /\ x \in View_
    /\ x.pc # "idle" =>
          /\ x.batch \in 1 .. Len(batches) /\ x.known <= Len(batches)
          /\ \A b \in 1 .. x.known : batches[b].started <= batches[x.batch].started
          /\ x.status # "running" => x.status = batches[x.batch].status
    /\ x.pc = "done" /\ x.status # "running" => x.signals = View!OfBatch(x.batch)

ViewInv ==
    ScansInv /\ viewer \in [Readers -> View_] /\ \A r \in Readers : ViewerInv(viewer[r])

\* The parts of a scan.
LEMMA ScanParts ==
    ASSUME ScansInv
    PROVE  /\ Len(batches) \in Nat /\ DOMAIN batches = 1 .. Len(batches) /\ now \in Nat
           /\ \A b \in 1 .. Len(batches) :
                 /\ batches[b] \in ScanRow /\ batches[b].status \in ScanStatuses
                 /\ batches[b].started \in Int /\ batches[b].signals \in Seq(FoundSignal)
<1>1. Len(batches) \in Nat /\ DOMAIN batches = 1 .. Len(batches) /\ now \in Nat
      /\ \A b \in 1 .. Len(batches) : batches[b] \in ScanRow
  BY DEF ScansInv
<1>2. \A x \in ScanRow : x.status \in ScanStatuses /\ x.started \in Int
                         /\ x.signals \in Seq(FoundSignal)
  BY DEF ScanRow
<1> QED BY <1>1, <1>2

\* Of a list of scans there is one that was the last to start.
LEMMA LatestIs ==
    ASSUME ScansInv, batches # <<>>
    PROVE  /\ View!LatestBatch(batches) \in 1 .. Len(batches)
           /\ \A b \in 1 .. Len(batches) :
                 batches[b].started <= batches[View!LatestBatch(batches)].started
<1> DEFINE n == Len(batches)
           starts == {batches[b].started + 1 : b \in 1 .. n}
<1>1. /\ n \in Nat \ {0} /\ DOMAIN batches = 1 .. n /\ now \in Nat
      /\ \A b \in 1 .. n : /\ batches[b].started \in Int
                           /\ -1 <= batches[b].started /\ batches[b].started <= now
  <2>1. n # 0
    BY DEF ScansInv
  <2> QED BY <2>1, ScanParts DEF ScansInv
<1>2. starts \in SUBSET Nat /\ starts # {} /\ \A x \in starts : x <= now + 1
  BY <1>1
<1>3. PICK top \in starts : \A x \in starts : x <= top
  <2> DEFINE most == now + 1
  <2>1. most \in Nat /\ \A x \in starts : x <= most
    BY <1>1, <1>2
  <2> HIDE DEF starts, n, most
  <2> QED BY <1>2, <2>1, GreatestNumber
<1> DEFINE last_ == {b \in 1 .. n : batches[b].started + 1 = top}
<1>4. last_ \in SUBSET Nat /\ last_ # {} /\ \A b \in last_ : b <= n
  BY <1>1, <1>3
<1>5. PICK m \in last_ : \A b \in last_ : b <= m
  <2> HIDE DEF last_, n
  <2> QED BY <1>1, <1>4, GreatestNumber
<1>6. ASSUME NEW c \in 1 .. n
      PROVE  \/ batches[m].started > batches[c].started
             \/ batches[m].started = batches[c].started /\ m >= c
  <2>1. batches[c].started + 1 <= batches[m].started + 1
    BY <1>3, <1>5
  <2>2. batches[c].started + 1 = batches[m].started + 1 => c <= m
    BY <1>5
  <2> QED BY <1>1, <1>5, <2>1, <2>2
<1> DEFINE L(b) == /\ b \in 1 .. n
                   /\ \A c \in 1 .. n : \/ batches[b].started > batches[c].started
                                        \/ batches[b].started = batches[c].started /\ b >= c
<1>7. L(m)
  BY <1>5, <1>6
<1>8. View!LatestBatch(batches) = CHOOSE b \in 1 .. n :
          \A c \in 1 .. n : \/ batches[b].started > batches[c].started
                            \/ batches[b].started = batches[c].started /\ b >= c
  BY <1>1 DEF View!LatestBatch
<1>9. L(View!LatestBatch(batches))
  BY <1>7, <1>8
<1> QED BY <1>1, <1>9

\* A list is none that has nothing in it.
LEMMA OfBatchIs ==
    ASSUME ScansInv, NEW b \in 1 .. Len(batches)
    PROVE  /\ View!OfBatch(b) \in Seq(FoundSignal)
           /\ View!OfBatch(b) # <<>> <=> batches[b].signals # <<>>
<1> DEFINE s == batches[b].signals
<1>1. s \in Seq(FoundSignal)
  BY ScanParts
<1>2. View!OfBatch(b) = [i \in 1 .. Len(s) |-> s[(Len(s) - i) + 1]]
  BY DEF View!OfBatch, View!Reverse
<1> HIDE DEF s
<1>3. \A i \in 1 .. Len(s) : s[(Len(s) - i) + 1] \in FoundSignal
  BY <1>1
<1>4. View!OfBatch(b) \in Seq(FoundSignal) /\ Len(View!OfBatch(b)) = Len(s)
  BY <1>1, <1>2, <1>3
<1> QED BY <1>1, <1>4 DEF s

\* A function of the first numbers is a list.
LEMMA ListTyped ==
    ASSUME NEW S, NEW n \in Nat, NEW f, f = [i \in 1 .. n |-> f[i]],
           \A i \in 1 .. n : f[i] \in S
    PROVE  f \in Seq(S) /\ Len(f) = n
  OBVIOUS

\* The scans when scan b has ended with what it found, and when it has failed.
ScansWith(b, found, created) ==
    [batches EXCEPT
        ![b].status = IF found = <<>> THEN "no_data" ELSE "success",
        ![b].signals = [i \in DOMAIN found |->
            [key |-> found[i].key, priority |-> found[i].priority,
             id |-> <<b, i>>, created |-> created]]]
ScansWithout(b) == [batches EXCEPT ![b].status = "failure"]

\* No scan but one under way becomes another.
LEMMA ScansGoOn ==
    ASSUME View!ContentsAssumption, ViewInv, [View!Next]_View!vars
    PROVE  /\ ScansInv' /\ Len(batches) <= Len(batches') /\ Len(batches) \in Nat
           /\ \A b \in 1 .. Len(batches) :
                 /\ batches'[b].started = batches[b].started
                 /\ batches[b].status # "running" => batches'[b] = batches[b]
<1>1. /\ now \in Nat /\ batches \in Seq(ScanRow) /\ Len(batches) \in Nat
      /\ \A b \in 1 .. Len(batches) : batches[b] \in ScanRow
  BY DEF ViewInv, ScansInv
<1>2. CASE View!OpenBatch
  <2>1. PICK started \in {now - 1, now} :
           batches' = Append(batches, [status |-> "running", started |-> started, signals |-> <<>>])
    BY <1>2 DEF View!OpenBatch
  <2> DEFINE row == [status |-> "running", started |-> started, signals |-> <<>>]
  <2>2. /\ row \in ScanRow /\ -1 <= row.started /\ row.started <= now
        /\ row.status = "running" /\ row.signals = <<>>
    BY <1>1 DEF ScanRow, ScanStatuses
  <2> HIDE DEF row
  <2>3. /\ batches' \in Seq(ScanRow) /\ Len(batches') = Len(batches) + 1
        /\ batches'[Len(batches')] = row
        /\ \A b \in 1 .. Len(batches) : batches'[b] = batches[b]
    BY <1>1, <2>1, <2>2 DEF row
  <2>4. now' = now
    BY <1>2 DEF View!OpenBatch
  <2>5. ASSUME NEW b \in 1 .. Len(batches')
        PROVE  /\ -1 <= batches'[b].started /\ batches'[b].started <= now'
               /\ batches'[b].status = "success" <=> batches'[b].signals # <<>>
    <3>1. b = Len(batches') \/ b \in 1 .. Len(batches)
      BY <1>1, <2>3
    <3> QED BY <2>2, <2>3, <2>4, <3>1 DEF ViewInv, ScansInv
  <2> QED BY <1>1, <2>3, <2>4, <2>5 DEF ScansInv
<1>3. ASSUME NEW b \in DOMAIN batches, View!EndBatch(b)
      PROVE  /\ ScansInv' /\ Len(batches) <= Len(batches')
             /\ \A c \in 1 .. Len(batches) :
                   /\ batches'[c].started = batches[c].started
                   /\ batches[c].status # "running" => batches'[c] = batches[c]
  <2>1. b \in 1 .. Len(batches) /\ batches[b].status = "running" /\ now' = now
    BY <1>1, <1>3 DEF View!EndBatch
  <2>2. ASSUME NEW row \in ScanRow, batches' = [batches EXCEPT ![b] = row],
               row.started = batches[b].started, row.status = "success" <=> row.signals # <<>>
        PROVE  /\ ScansInv' /\ Len(batches) <= Len(batches')
               /\ \A c \in 1 .. Len(batches) :
                     /\ batches'[c].started = batches[c].started
                     /\ batches[c].status # "running" => batches'[c] = batches[c]
    <3>1. /\ batches' \in Seq(ScanRow) /\ Len(batches') = Len(batches)
          /\ \A c \in 1 .. Len(batches) : batches'[c] = IF c = b THEN row ELSE batches[c]
      BY <1>1, <2>1, <2>2
    <3>2. \A c \in 1 .. Len(batches) : batches'[c].started = batches[c].started
      BY <2>2, <3>1
    <3> QED BY <1>1, <2>1, <2>2, <3>1, <3>2 DEF ViewInv, ScansInv
  <2>3. CASE batches' = ScansWithout(b)
    <3> DEFINE row == [batches[b] EXCEPT !.status = "failure"]
    <3>1. row \in ScanRow /\ row.started = batches[b].started /\ row.status = "failure"
          /\ row.signals = batches[b].signals
      BY <1>1, <2>1 DEF ScanRow, ScanStatuses
    <3>2. row.signals = <<>>
      BY <2>1, <3>1 DEF ViewInv, ScansInv
    <3>3. batches' = [batches EXCEPT ![b] = row]
      BY <2>3 DEF ScansWithout
    <3> HIDE DEF row
    <3> QED BY <2>2, <3>1, <3>2, <3>3
  <2>4. ASSUME NEW found \in Contents, NEW created \in {now - 1, now},
               batches' = ScansWith(b, found, created)
        PROVE  /\ ScansInv' /\ Len(batches) <= Len(batches')
               /\ \A c \in 1 .. Len(batches) :
                     /\ batches'[c].started = batches[c].started
                     /\ batches[c].status # "running" => batches'[c] = batches[c]
    <3> DEFINE status_ == IF found = <<>> THEN "no_data" ELSE "success"
               list == [i \in DOMAIN found |->
                          [key |-> found[i].key, priority |-> found[i].priority,
                           id |-> <<b, i>>, created |-> created]]
               row == [batches[b] EXCEPT !.status = status_, !.signals = list]
    <3>1. found \in Seq(View!Candidates)
      BY DEF View!ContentsAssumption
    <3>2. list \in Seq(FoundSignal) /\ Len(list) = Len(found)
      <4>1. /\ DOMAIN found = 1 .. Len(found) /\ Len(found) \in Nat /\ b \in Nat /\ created \in Int
            /\ \A i \in 1 .. Len(found) :
                  found[i].key \in View!SubjectKeys /\ found[i].priority \in {"P0", "P1", "P2"}
        <5>1. /\ DOMAIN found = 1 .. Len(found) /\ Len(found) \in Nat /\ b \in Nat
              /\ created \in Int
              /\ \A i \in 1 .. Len(found) :
                    found[i] \in View!Candidates
          <6>1. created \in Int
            BY <1>1
          <6>2. b \in Nat
            BY <1>1, <2>1
          <6>3. /\ DOMAIN found = 1 .. Len(found) /\ Len(found) \in Nat
                /\ \A i \in 1 .. Len(found) :
                      found[i] \in View!Candidates
            BY <3>1
          <6> QED BY <6>1, <6>2, <6>3
        <5>2. \A x \in View!Candidates : x.key \in View!SubjectKeys /\ x.priority \in {"P0", "P1", "P2"}
          BY DEF View!Candidates
        <5> QED BY <5>1, <5>2
      <4>2. list = [i \in 1 .. Len(found) |-> list[i]]
        BY <4>1
      <4>3. \A i \in 1 .. Len(found) : list[i] \in FoundSignal
        BY <4>1 DEF FoundSignal
      <4> HIDE DEF list
      <4> QED BY <4>1, <4>2, <4>3, ListTyped
    <3>3. status_ \in ScanStatuses /\ (status_ = "success" <=> found # <<>>)
      BY DEF ScanStatuses
    <3>4. list # <<>> <=> found # <<>>
      <4> HIDE DEF list
      <4> QED BY <3>1, <3>2
    <3>5. batches' = [batches EXCEPT ![b] = row]
      BY <2>4 DEF ScansWith
    <3> HIDE DEF list, status_
    <3>6. /\ row \in ScanRow /\ row.started = batches[b].started
          /\ row.status = status_ /\ row.signals = list
      BY <1>1, <2>1, <3>2, <3>3 DEF ScanRow
    <3> HIDE DEF row
    <3> QED BY <2>2, <3>3, <3>4, <3>5, <3>6
  <2>5. \/ batches' = ScansWithout(b)
        \/ \E found \in Contents, created \in {now - 1, now} :
              batches' = ScansWith(b, found, created)
    BY <1>3 DEF View!EndBatch, ScansWith, ScansWithout
  <2> QED BY <2>3, <2>4, <2>5
<1>4. CASE batches' = batches /\ now' \in Nat /\ now <= now'
  <2>1. ScansInv
    BY DEF ViewInv
  <2>2. \A b \in 1 .. Len(batches) : batches[b].started \in Int /\ batches[b].started <= now'
    BY <1>4, <2>1, ScanParts DEF ScansInv
  <2> QED BY <1>1, <1>4, <2>1, <2>2 DEF ScansInv
<1>5. \/ View!OpenBatch \/ \E b \in DOMAIN batches : View!EndBatch(b)
      \/ batches' = batches /\ now' \in Nat /\ now <= now'
  <2>1. View!Tick => batches' = batches /\ now' = now + 1
    BY DEF View!Tick
  <2>2. (\E r \in Readers : View!ReadBatch(r) \/ View!ReadSignals(r) \/ View!ReadAgain(r))
          => batches' = batches /\ now' = now
    BY DEF View!ReadBatch, View!ReadSignals, View!ReadAgain
  <2>3. UNCHANGED View!vars => batches' = batches /\ now' = now
    BY DEF View!vars
  <2>4. now + 1 \in Nat /\ now <= now + 1 /\ now <= now
    BY <1>1
  <2> QED BY <1>1, <2>1, <2>2, <2>3, <2>4 DEF View!Next
<1>6. CASE View!OpenBatch
  BY <1>2, <1>6, <1>1
<1> QED BY <1>1, <1>2, <1>3, <1>4, <1>5

\* What a reader has read stays true, wherever the scan ends.
LEMMA ViewerStays ==
    ASSUME View!ContentsAssumption, ViewInv, [View!Next]_View!vars, NEW r \in Readers,
           viewer'[r] = viewer[r]
    PROVE  ViewerInv(viewer[r])'
<1> DEFINE x == viewer[r]
<1>1. ViewerInv(x) /\ x \in View_
  BY DEF ViewInv
<1>2. /\ Len(batches) <= Len(batches') /\ Len(batches) \in Nat
      /\ \A b \in 1 .. Len(batches) :
            /\ batches'[b].started = batches[b].started
            /\ batches[b].status # "running" => batches'[b] = batches[b]
      /\ Len(batches') \in Nat
  BY ScansGoOn DEF ScansInv
<1>3. /\ x.pc \in {"idle", "batch_read", "done"} /\ x.batch \in Nat /\ x.known \in Nat
  BY <1>1 DEF View_
<1> HIDE DEF x
<1>4. ASSUME x.pc # "idle"
      PROVE  /\ x.batch \in 1 .. Len(batches') /\ x.known <= Len(batches')
             /\ \A b \in 1 .. x.known : batches'[b].started <= batches'[x.batch].started
             /\ x.status # "running" => x.status = batches'[x.batch].status
  <2>1. /\ x.batch \in 1 .. Len(batches) /\ x.known <= Len(batches)
        /\ \A b \in 1 .. x.known : batches[b].started <= batches[x.batch].started
        /\ x.status # "running" => x.status = batches[x.batch].status
    BY <1>1, <1>4 DEF ViewerInv
  <2>2. \A b \in 1 .. x.known : b \in 1 .. Len(batches)
    BY <1>2, <1>3, <2>1
  <2>3. x.batch \in 1 .. Len(batches') /\ x.known <= Len(batches')
    BY <1>2, <1>3, <2>1
  <2>4. /\ batches'[x.batch].started = batches[x.batch].started
        /\ \A b \in 1 .. x.known : batches'[b].started = batches[b].started
    BY <1>2, <2>1, <2>2
  <2>5. \A b \in 1 .. x.known : batches'[b].started <= batches'[x.batch].started
    BY <2>1, <2>4
  <2>6. x.status # "running" => x.status = batches'[x.batch].status
    BY <1>2, <2>1
  <2> QED BY <2>3, <2>5, <2>6
<1>5. ASSUME x.pc = "done", x.status # "running"
      PROVE  x.signals = View!Reverse(batches'[x.batch].signals)
  <2>1. /\ x.batch \in 1 .. Len(batches) /\ x.status = batches[x.batch].status
        /\ x.signals = View!OfBatch(x.batch)
    BY <1>1, <1>5 DEF ViewerInv
  <2> QED BY <1>2, <1>5, <2>1 DEF View!OfBatch
<1>6. viewer'[r] = x
  BY DEF x
<1> QED BY <1>1, <1>4, <1>5, <1>6 DEF ViewerInv, View!OfBatch

\* The fields of a reader.
ViewerOf(pc_, batch, status, known, list, time) ==
    [pc |-> pc_, batch |-> batch, status |-> status, known |-> known, signals |-> list,
     readAt |-> time]

\* Whatever a reader reads, it reads of one scan.
LEMMA ViewStays ==
    ASSUME View!ContentsAssumption, ViewInv, [View!Next]_View!vars
    PROVE  ViewInv'
<1>1. ScansInv' /\ ScansInv
  BY ScansGoOn DEF ViewInv
<1>2. ASSUME viewer' = viewer PROVE ViewInv'
  BY <1>1, <1>2, ViewerStays DEF ViewInv
<1>3. ASSUME NEW r \in Readers, NEW x \in View_, viewer' = [viewer EXCEPT ![r] = x],
             ViewerInv(x), batches' = batches
      PROVE  ViewInv'
  <2>1. /\ viewer' \in [Readers -> View_] /\ viewer'[r] = x
        /\ \A s \in Readers : s # r => viewer'[s] = viewer[s]
    BY <1>3 DEF ViewInv
  <2>2. ViewerInv(viewer[r])'
    BY <1>3, <2>1 DEF ViewerInv, View!OfBatch
  <2> QED BY <1>1, <2>1, <2>2, ViewerStays DEF ViewInv
<1>4. ASSUME NEW r \in Readers, View!ReadBatch(r) PROVE ViewInv'
  <2> DEFINE b == View!LatestBatch(batches)
             s == batches[b].status
             n == Len(batches)
             x == ViewerOf("batch_read", b, s, n, <<>>, 0)
  <2>1. /\ batches # <<>> /\ batches' = batches
        /\ viewer' = [viewer EXCEPT ![r] = [View!Idle EXCEPT !.pc = "batch_read", !.batch = b,
                                               !.known = n, !.status = s]]
    BY <1>4 DEF View!ReadBatch
  <2>2. /\ b \in 1 .. Len(batches) /\ \A c \in 1 .. Len(batches) : batches[c].started <= batches[b].started
        /\ Len(batches) \in Nat /\ batches[b].status \in ScanStatuses
    BY <1>1, <2>1, LatestIs, ScanParts
  <2>3. viewer' = [viewer EXCEPT ![r] = x]
    <3> HIDE DEF b, s, n
    <3>1. View!Idle = ViewerOf("idle", 0, "none", 0, <<>>, 0)
      BY DEF View!Idle, ViewerOf
    <3>2. [ViewerOf("idle", 0, "none", 0, <<>>, 0) EXCEPT !.pc = "batch_read"]
            = ViewerOf("batch_read", 0, "none", 0, <<>>, 0)
      BY DEF ViewerOf
    <3>3. [ViewerOf("batch_read", 0, "none", 0, <<>>, 0) EXCEPT !.batch = b]
            = ViewerOf("batch_read", b, "none", 0, <<>>, 0)
      BY DEF ViewerOf
    <3>4. [ViewerOf("batch_read", b, "none", 0, <<>>, 0) EXCEPT !.known = n]
            = ViewerOf("batch_read", b, "none", n, <<>>, 0)
      BY DEF ViewerOf
    <3>5. [ViewerOf("batch_read", b, "none", n, <<>>, 0) EXCEPT !.status = s] = x
      BY DEF ViewerOf
    <3>6. [View!Idle EXCEPT !.pc = "batch_read", !.batch = b, !.known = n, !.status = s] = x
      BY <3>1, <3>2, <3>3, <3>4, <3>5
    <3> HIDE DEF x
    <3> QED BY <2>1, <3>6 DEF b, n, s
  <2>4. x \in View_ /\ ViewerInv(x)
    <3> HIDE DEF b
    <3> QED BY <2>2 DEF View_, ViewerInv, ViewerOf
  <2> HIDE DEF x
  <2> QED BY <1>3, <2>1, <2>3, <2>4
<1>5. ASSUME NEW r \in Readers, View!ReadSignals(r) PROVE ViewInv'
  <2> DEFINE y == viewer[r]
             list == View!OfBatch(y.batch)
             x == [y EXCEPT !.pc = "done", !.readAt = now, !.signals = list]
  <2>1. y.pc = "batch_read" /\ batches' = batches /\ viewer' = [viewer EXCEPT ![r] = x]
    BY <1>5 DEF View!ReadSignals
  <2>2. y \in View_ /\ ViewerInv(y)
    BY DEF ViewInv
  <2>3. list \in Seq(FoundSignal) /\ now \in Nat
    BY <1>1, <2>1, <2>2, OfBatchIs, ScanParts DEF ViewerInv
  <2> HIDE DEF y, list
  <2>0. y = ViewerOf(y.pc, y.batch, y.status, y.known, y.signals, y.readAt)
    BY <2>2 DEF View_, ViewerOf
  <2>4. x = ViewerOf("done", y.batch, y.status, y.known, list, now)
    <3> DEFINE p == y.pc
               c == y.batch
               s == y.status
               n == y.known
               l == y.signals
               t == y.readAt
    <3>1. y = ViewerOf(p, c, s, n, l, t)
      BY <2>0
    <3> HIDE DEF p, c, s, n, l, t
    <3>2. [ViewerOf(p, c, s, n, l, t) EXCEPT !.pc = "done"] = ViewerOf("done", c, s, n, l, t)
      BY DEF ViewerOf
    <3>3. [ViewerOf("done", c, s, n, l, t) EXCEPT !.readAt = now] = ViewerOf("done", c, s, n, l, now)
      BY DEF ViewerOf
    <3>4. [ViewerOf("done", c, s, n, l, now) EXCEPT !.signals = list]
            = ViewerOf("done", c, s, n, list, now)
      BY DEF ViewerOf
    <3>5. x = ViewerOf("done", c, s, n, list, now)
      BY <3>1, <3>2, <3>3, <3>4
    <3> QED BY <3>5 DEF c, s, n
  <2>5. x \in View_
    BY <2>2, <2>3, <2>4 DEF View_, ViewerOf
  <2>6. /\ x.pc = "done" /\ x.batch = y.batch /\ x.status = y.status /\ x.known = y.known
        /\ x.signals = View!OfBatch(y.batch)
    BY <2>4 DEF list, ViewerOf
  <2> HIDE DEF x
  <2>7. ViewerInv(x)
    BY <2>1, <2>2, <2>5, <2>6 DEF ViewerInv
  <2> QED BY <1>3, <2>1, <2>5, <2>7
<1>6. ASSUME NEW r \in Readers, View!ReadAgain(r) PROVE ViewInv'
  <2>1. viewer' = [viewer EXCEPT ![r] = View!Idle] /\ batches' = batches
    BY <1>6 DEF View!ReadAgain
  <2>2. View!Idle \in View_ /\ View!Idle.pc = "idle"
    BY DEF View!Idle, View_
  <2>3. ViewerInv(View!Idle)
    BY <2>2 DEF ViewerInv
  <2> QED BY <1>3, <2>1, <2>2, <2>3
<1>7. (View!OpenBatch \/ View!Tick \/ (\E b \in DOMAIN batches : View!EndBatch(b))
          \/ UNCHANGED View!vars) => viewer' = viewer
  BY DEF View!OpenBatch, View!Tick, View!EndBatch, View!vars
<1> QED BY <1>2, <1>4, <1>5, <1>6, <1>7 DEF View!Next

\* A reply that does not say "running" has all signals of its scan or rightly none, wherever
\* the scan ends between the two reads, and signals are hidden behind a newer scan only
\* (_scan_read, get_radar_overview).
THEOREM ViewCorrect ==
    ASSUME View!ContentsAssumption
    PROVE  View!Spec => [](View!RepliesAreWhole /\ View!HiddenByNewerScan)
<1>1. View!Init => ViewInv
  <2>1. View!Idle \in View_ /\ View!Idle.pc = "idle"
    BY DEF View!Idle, View_
  <2>2. ASSUME View!Init PROVE ScansInv
    BY <2>2 DEF View!Init, ScansInv
  <2>3. ASSUME View!Init PROVE viewer \in [Readers -> View_] /\ \A r \in Readers : ViewerInv(viewer[r])
    BY <2>1, <2>3 DEF View!Init, ViewerInv
  <2> QED BY <2>2, <2>3 DEF ViewInv
<1>2. ViewInv /\ [View!Next]_View!vars => ViewInv'
  BY ViewStays
<1>3. ViewInv => View!RepliesAreWhole
  <2> SUFFICES ASSUME ViewInv, NEW r \in Readers, View!Done(r), viewer[r].status # "running"
               PROVE  /\ viewer[r].signals = View!OfBatch(viewer[r].batch)
                      /\ viewer[r].status = "success" <=> viewer[r].signals # <<>>
    BY DEF View!RepliesAreWhole
  <2>1. /\ viewer[r].batch \in 1 .. Len(batches)
        /\ viewer[r].status = batches[viewer[r].batch].status
        /\ viewer[r].signals = View!OfBatch(viewer[r].batch)
    BY DEF ViewInv, ViewerInv, View!Done
  <2>2. batches[viewer[r].batch].status = "success" <=> batches[viewer[r].batch].signals # <<>>
    BY <2>1 DEF ViewInv, ScansInv
  <2> QED BY <2>1, <2>2, OfBatchIs DEF ViewInv
<1>4. ViewInv => View!HiddenByNewerScan
  BY DEF ViewInv, ViewerInv, View!HiddenByNewerScan
<1> QED BY <1>1, <1>2, <1>3, <1>4, PTL DEF View!Spec

-----------------------------------------------------------------------------
(* Every verdict on a signal is the one the rules give it, and is written with its
   review, which stays; what a reader finds later is never less. *)
CONSTANTS Terms, SafePhrases, Negations, Separators, Cases, MaxReviews
VARIABLES case, status, reviews, asker
Governance == INSTANCE SignalGovernance WITH reader <- asker

\* What the rules say of the signal, a review of it, and what a reader has read.
Verdict == Governance!EvaluateSignal(case.signal, case.evidences)
ReviewRow ==
    [verdict : {Verdict},
     reasons : {Governance!ContextualReviewReasons(context, case.signal, case.evidences) :
                    context \in {"signal_candidate", "report_publication"}}]
Asker == [pc : {"idle", "signal_read", "done"}, status : {"candidate", Verdict},
          latest : ReviewRow \cup {Governance!NoReviewRow}, payload : BOOLEAN]

\* A reader that found a verdict finds its review.
AskerInv(x) ==
    /\ x.pc = "signal_read" /\ x.status # "candidate" => reviews # <<>>
    /\ x.pc = "done" /\ x.status # "candidate" => x.latest.verdict = x.status
    /\ x.payload =>
          /\ x.pc = "done"
          /\ Governance!ShareBlockedReasons(x.status, case.evidences, x.latest.verdict) = {}

GovernanceInv ==
    /\ case \in Cases /\ reviews \in Seq(ReviewRow) /\ status \in {"candidate", Verdict}
    /\ status # "candidate" => reviews # <<>>
    /\ asker \in [Readers -> Asker] /\ \A r \in Readers : AskerInv(asker[r])

\* The rules say one of three things, none of them a candidate's status.
LEMMA VerdictIs ==
    Verdict \in {"approved", "needs_human_review", "blocked"} /\ Governance!NoReview = "no_review"
  BY DEF Verdict, Governance!EvaluateSignal, Governance!NoReview

\* A signal has no review at first.
LEMMA GovernanceInit == Governance!Init => GovernanceInv
<1> SUFFICES ASSUME Governance!Init PROVE GovernanceInv
  OBVIOUS
<1>1. Governance!Idle \in Asker /\ AskerInv(Governance!Idle)
  BY DEF Governance!Idle, Asker, AskerInv
<1>2. reviews \in Seq(ReviewRow)
  BY DEF Governance!Init
<1>3. asker \in [Readers -> Asker] /\ \A r \in Readers : asker[r] = Governance!Idle
  BY <1>1 DEF Governance!Init
<1> QED BY <1>1, <1>2, <1>3 DEF Governance!Init, GovernanceInv

\* A review gives the verdict of the rules and goes behind the others.
LEMMA ReviewKeeps ==
    ASSUME GovernanceInv, NEW context \in {"signal_candidate", "report_publication"},
           Governance!Review(context)
    PROVE  GovernanceInv'
<1> DEFINE row == [verdict |-> Verdict,
                   reasons |-> Governance!ContextualReviewReasons(context, case.signal, case.evidences)]
<1>1. row \in ReviewRow
  BY DEF ReviewRow
<1>2. /\ case' = case /\ asker' = asker /\ status' = Verdict
      /\ reviews' = Append(reviews, row)
  BY DEF Governance!Review, Verdict
<1> HIDE DEF row
<1>3. reviews' \in Seq(ReviewRow) /\ reviews' # <<>>
  BY <1>1, <1>2 DEF GovernanceInv
<1>4. Verdict' = Verdict /\ ReviewRow' = ReviewRow /\ Asker' = Asker
  BY <1>2 DEF Verdict, ReviewRow, Asker
<1>5. ASSUME NEW r \in Readers PROVE AskerInv(asker[r])'
  BY <1>2, <1>3 DEF GovernanceInv, AskerInv
<1> QED BY <1>2, <1>3, <1>4, <1>5 DEF GovernanceInv

\* The fields of a reader.
AskerOf(pc_, status_, latest, payload) ==
    [pc |-> pc_, status |-> status_, latest |-> latest, payload |-> payload]

\* A reader changes nothing but what it has read.
LEMMA AskerKeeps ==
    ASSUME GovernanceInv, NEW r \in Readers, NEW x \in Asker, AskerInv(x),
           asker' = [asker EXCEPT ![r] = x], UNCHANGED <<case, status, reviews>>
    PROVE  GovernanceInv'
<1>1. Verdict' = Verdict /\ ReviewRow' = ReviewRow /\ Asker' = Asker
  BY DEF Verdict, ReviewRow, Asker
<1>2. asker' \in [Readers -> Asker] /\ \A q \in Readers : asker'[q] = x \/ asker'[q] = asker[q]
  BY DEF GovernanceInv
<1>3. ASSUME NEW q \in Readers PROVE AskerInv(asker[q])'
  BY <1>2 DEF GovernanceInv, AskerInv
<1> QED BY <1>1, <1>2, <1>3 DEF GovernanceInv

\* Each step keeps what is known of verdicts and of what was read.
LEMMA GovernanceNext == GovernanceInv /\ [Governance!Next]_Governance!vars => GovernanceInv'
<1> SUFFICES ASSUME GovernanceInv, [Governance!Next]_Governance!vars PROVE GovernanceInv'
  OBVIOUS
<1>1. CASE Governance!ReviewCandidate
  BY <1>1, ReviewKeeps DEF Governance!ReviewCandidate
<1>2. CASE Governance!ReviewForReport
  BY <1>2, ReviewKeeps DEF Governance!ReviewForReport
<1>3. ASSUME NEW r \in Readers, Governance!ReadSignal(r) PROVE GovernanceInv'
  <2> DEFINE x == [asker[r] EXCEPT !.pc = "signal_read", !.status = status]
  <2>1. /\ asker' = [asker EXCEPT ![r] = x] /\ UNCHANGED <<case, status, reviews>>
        /\ asker[r].pc = "idle"
    BY <1>3 DEF Governance!ReadSignal
  <2>2. asker[r] \in Asker /\ AskerInv(asker[r]) /\ status \in {"candidate", Verdict}
        /\ (status # "candidate" => reviews # <<>>)
    BY DEF GovernanceInv
  <2>3. ~asker[r].payload
    BY <2>1, <2>2 DEF AskerInv
  <2>4. x \in Asker /\ x.pc = "signal_read" /\ x.status = status /\ x.payload = asker[r].payload
    BY <2>2 DEF Asker
  <2> HIDE DEF x
  <2>5. AskerInv(x)
    BY <2>2, <2>3, <2>4 DEF AskerInv
  <2> QED BY <2>1, <2>4, <2>5, AskerKeeps
<1>4. ASSUME NEW r \in Readers, Governance!ReadLatestReview(r) PROVE GovernanceInv'
  <2> DEFINE latest == IF reviews = <<>> THEN Governance!NoReviewRow ELSE Governance!Last(reviews)
             payload == Governance!ShareBlockedReasons(asker[r].status, case.evidences,
                                                       latest.verdict) = {}
             x == [asker[r] EXCEPT !.pc = "done", !.latest = latest, !.payload = payload]
  <2>1. /\ asker' = [asker EXCEPT ![r] = x] /\ UNCHANGED <<case, status, reviews>>
        /\ asker[r].pc = "signal_read"
    BY <1>4 DEF Governance!ReadLatestReview
  <2>2. /\ asker[r] \in Asker /\ AskerInv(asker[r]) /\ reviews \in Seq(ReviewRow)
    BY DEF GovernanceInv
  <2>3. ASSUME reviews # <<>> PROVE latest \in ReviewRow /\ latest.verdict = Verdict
    <3>1. Governance!Last(reviews) \in ReviewRow
      BY <2>2, <2>3 DEF Governance!Last
    <3> QED BY <2>3, <3>1 DEF ReviewRow
  <2>4. latest \in ReviewRow \cup {Governance!NoReviewRow} /\ payload \in BOOLEAN
    BY <2>3
  <2> HIDE DEF latest
  <2> HIDE DEF payload
  <2>5. x \in Asker /\ x.pc = "done" /\ x.status = asker[r].status /\ x.latest = latest
        /\ x.payload = payload /\ asker[r].status \in {"candidate", Verdict}
    BY <2>2, <2>4 DEF Asker
  <2> HIDE DEF x
  <2>6. x.status # "candidate" => x.latest.verdict = x.status
    BY <2>1, <2>2, <2>3, <2>5 DEF AskerInv
  <2>7. x.payload =>
            Governance!ShareBlockedReasons(x.status, case.evidences, x.latest.verdict) = {}
    BY <2>5 DEF payload
  <2> QED BY <2>1, <2>5, <2>6, <2>7, AskerKeeps DEF AskerInv
<1>5. ASSUME NEW r \in Readers, Governance!AskAgain(r) PROVE GovernanceInv'
  <2>1. Governance!Idle \in Asker /\ AskerInv(Governance!Idle)
    BY DEF Governance!Idle, Asker, AskerInv
  <2> QED BY <1>5, <2>1, AskerKeeps DEF Governance!AskAgain
<1>6. CASE UNCHANGED Governance!vars
  <2>1. /\ case' = case /\ status' = status /\ reviews' = reviews /\ asker' = asker
    BY <1>6 DEF Governance!vars
  <2>2. Verdict' = Verdict /\ ReviewRow' = ReviewRow /\ Asker' = Asker
    BY <2>1 DEF Verdict, ReviewRow, Asker
  <2> QED BY <2>1, <2>2 DEF GovernanceInv, AskerInv
<1> QED BY <1>1, <1>2, <1>3, <1>4, <1>5, <1>6 DEF Governance!Next

\* Evidence that the rules approve carries no label that warns of it.
LEMMA ApprovedIsSound ==
    ASSUME Governance!ConfidenceAssumption, case \in Cases, Verdict = "approved",
           NEW e \in Governance!ToSet(case.evidences)
    PROVE  /\ Governance!ShareEvidence(e).confidence # "low"
           /\ Governance!ShareEvidence(e).freshness # "may_be_expired"
<1>1. Governance!ReviewReasons(case.signal, case.evidences) = {}
  BY DEF Verdict, Governance!EvaluateSignal
<1>2. ~Governance!LowConfidence(case.evidences) /\ ~Governance!StaleSource(case.evidences)
  BY <1>1 DEF Governance!ReviewReasons
<1>3. e.confidence \in Int /\ e.confidence >= 50
  BY <1>2 DEF Governance!LowConfidence, Governance!LowConfidenceThreshold,
              Governance!ConfidenceAssumption
<1>4. Governance!ConfidenceLabel(e.confidence) # "low"
  <2>1. CASE e.confidence >= 80
    BY <2>1, <1>3 DEF Governance!ConfidenceLabel
  <2>2. CASE e.confidence \in 50 .. 79
    BY <2>2 DEF Governance!ConfidenceLabel
  <2> QED BY <1>3, <2>1, <2>2
<1>5. e.freshness \cap Governance!StaleMarkers = {}
  BY <1>2 DEF Governance!StaleSource, Governance!FreshnessIsStale
<1>6. e.freshness \cap {"stale", "expired", "outdated", "too_old"} = {}
  BY <1>5 DEF Governance!StaleMarkers
<1>7. Governance!FreshnessLabel(e.freshness) # "may_be_expired"
  BY <1>6 DEF Governance!FreshnessLabel
<1> QED BY <1>4, <1>7 DEF Governance!ShareEvidence

\* A signal that is shared is approved by the rules and labelled without a warning, a
\* preview shows the review of the verdict it shows, and a brief opens its report gate
\* only for what the rules approve, wherever reviews fall between the reads (_share_preview
\* in governance/share.py, get_radar_signal_analysis in radar/service.py).
THEOREM GovernanceCorrect ==
    ASSUME Governance!ConfidenceAssumption
    PROVE  Governance!Spec => [](/\ Governance!SharedIsSound
                                 /\ Governance!PreviewsHaveTheirReview
                                 /\ Governance!ReportGateIsSound)
<1>1. GovernanceInv => Governance!PreviewsHaveTheirReview
  BY DEF GovernanceInv, AskerInv, Governance!PreviewsHaveTheirReview
<1>2. GovernanceInv => Governance!SharedIsSound
  <2> SUFFICES ASSUME GovernanceInv, NEW r \in Readers, asker[r].payload
               PROVE  /\ Verdict = "approved"
                      /\ \A e \in Governance!ToSet(case.evidences) :
                            /\ e.policy \in Governance!SafeSharePolicies
                            /\ Governance!ShareEvidence(e).confidence # "low"
                            /\ Governance!ShareEvidence(e).freshness # "may_be_expired"
    BY DEF Governance!SharedIsSound, Verdict
  <2>1. /\ Governance!ShareBlockedReasons(asker[r].status, case.evidences, asker[r].latest.verdict) = {}
        /\ asker[r] \in Asker /\ case \in Cases
    BY DEF GovernanceInv, AskerInv
  <2>2. /\ asker[r].status = "approved"
        /\ \A e \in Governance!ToSet(case.evidences) : e.policy \in Governance!SafeSharePolicies
    BY <2>1 DEF Governance!ShareBlockedReasons
  <2>3. Verdict = "approved"
    BY <2>1, <2>2 DEF Asker
  <2> QED BY <2>1, <2>2, <2>3, ApprovedIsSound
<1>3. GovernanceInv => Governance!ReportGateIsSound
  <2> SUFFICES ASSUME GovernanceInv, NEW r \in Readers, Governance!Brief(r).report = "ok"
               PROVE  Verdict = "approved"
    BY DEF Governance!ReportGateIsSound, Verdict
  <2> DEFINE shown == Governance!ReviewStatus(asker[r].status, asker[r].latest)
  <2>1. asker[r].status \in {"candidate", Verdict}
        /\ asker[r].latest \in ReviewRow \cup {Governance!NoReviewRow}
    BY DEF GovernanceInv, Asker
  <2>2. asker[r].latest.verdict \in {Governance!NoReview, Verdict}
    BY <2>1 DEF ReviewRow, Governance!NoReviewRow
  <2>3. shown \in {"candidate", Verdict}
    BY <2>1, <2>2 DEF Governance!ReviewStatus
  <2>4. Governance!Brief(r).report = Governance!ReportAgent(shown)
    BY DEF Governance!Brief, Governance!SignalBrief
  <2> HIDE DEF shown
  <2>5. shown \notin {"blocked", "needs_human_review", "candidate"}
    BY <2>4 DEF Governance!ReportAgent, Governance!BlockedOr, Governance!WarnsIf,
                Governance!HumanReviewRequired
  <2> QED BY <2>3, <2>5, VerdictIs
<1>4. Governance!Spec => []GovernanceInv
  BY GovernanceInit, GovernanceNext, PTL DEF Governance!Spec
<1> QED BY <1>1, <1>2, <1>3, <1>4, PTL
=============================================================================
