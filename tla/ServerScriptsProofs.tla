-------------------------- MODULE ServerScriptsProofs --------------------------
(***************************************************************************)
(* Theorems about the scripts that run beside the service.  Of             *)
(* AlertDelivery, for every number of runs, every env file, command line   *)
(* and dedupe window: AlertsAreTrue, and that a recorded delivery is not   *)
(* forgotten while runs do not overlap.  Of BackupFiles, for every number  *)
(* of tables, retention and use of the scripts: BackupsHold.               *)
(***************************************************************************)
EXTENDS AlertDelivery, BackupFiles, FiniteSetTheorems, NaturalsInduction, WellFoundedInduction, TLAPS

\* The phases of a run: once it has read an alert, while it sends, while it writes the
\* state, and both.
Phases == {"idle", "preflight", "load", "state", "send", "open", "write", "replace", "report"}
Writing == {"open", "write", "replace"}
Late == {"send"} \cup Writing
Reading == {"preflight", "load", "state"}
Statuses == {"none", "skipped", "config_error", "preview", "deduped", "sent", "failed",
             "state_error"}

StateEntry == {NoEntry} \cup [at : Nat, chats : Seq(STRING)]
StateMap == [AlertKeys -> StateEntry]
Sent == [chat : STRING, key : AlertKeys, at : Nat]
RunState ==
    [pc : Phases, opt : Option, env : EnvFile, alert : Payloads \cup {Torn},
     chats : Seq(STRING), results : Seq(BOOLEAN), now : Nat, status : Statuses,
     updated : BOOLEAN, base : StateMap, matched : StateEntry, ino : Inodes \cup {NoInode}]
SendReport ==
    [status : Statuses, mode : {"send", "preview"}, chats : Seq(STRING), results : Seq(BOOLEAN),
     enabled : BOOLEAN, updated : BOOLEAN, key : AlertKeys]
Evidence == [env : {"missing", "ok", "fail"}, send : {NoReport} \cup SendReport]

TypeInv ==
    /\ clock \in 0 .. MaxClock /\ payload \in Payloads \cup {Torn}
    /\ content \in [Inodes -> {Torn} \cup {Entries(f) : f \in StateMap}]
    /\ stateIno \in Inodes \cup {NoInode} /\ tempIno \in Inodes \cup {NoInode}
    /\ stateIno # NoInode => stateIno # tempIno
    /\ run \in [Slots -> RunState]
    /\ evidence \in Evidence
    /\ delivered \in SUBSET Sent

\* An entry of the key stands for messages that every chat of it was sent.
Truthful(key, e, sent) ==
    \A chat \in ToSet(e.chats) : [chat |-> chat, key |-> key, at |-> e.at] \in sent
TruthfulMap(f, sent) == \A k \in AlertKeys : f[k] # NoEntry => Truthful(k, f[k], sent)

\* What a run knows: every result that is TRUE is a message sent, and what it has read
\* from the state was sent.
HonestRun(t, sent) ==
    /\ t.pc # "idle" => t.opt \in Options
    /\ t.pc \notin {"idle", "preflight", "load"} => t.alert \in Payloads
    /\ t.pc \in {"state"} \cup Late => t.opt.send
    /\ t.pc \in Reading \cup {"idle"} => t.results = <<>>
    /\ t.pc = "state" => Len(t.chats) > 0
    /\ t.pc = "send" => Len(t.results) < Len(t.chats)
    /\ t.pc \in Writing => Len(t.results) = Len(t.chats) /\ AllSent(t.results) /\ t.opt.dedupe
    /\ \A i \in DOMAIN t.results : t.results[i] =>
         i \in DOMAIN t.chats /\ [chat |-> t.chats[i], key |-> t.alert.key, at |-> t.now] \in sent
    /\ TruthfulMap(t.base, sent)
    /\ t.status = "deduped" =>
         /\ t.pc = "report" /\ t.matched # NoEntry
         /\ Truthful(t.alert.key, t.matched, sent) /\ t.now < t.matched.at + Ttl
    /\ t.opt.service /\ t.pc \notin {"idle", "preflight"} => evaluate_env_file(t.env) = "ok"
    /\ t.status = "config_error" => ~TokenFound(t.opt, t.env) \/ IdsFound(t.opt, t.env) = <<>>
    /\ t.updated => t.pc = "report"
HonestRuns == \A r \in Slots : HonestRun(run[r], delivered)
HonestFiles == \A i \in Inodes : content[i] # Torn => TruthfulMap(content[i].entry, delivered)
Honest == TypeInv /\ HonestRuns /\ HonestFiles

\* The entry of the key in the state.
Recorded(key) == ReadState.entry[key]
\* A report of a delivery or of a suppressed alert is of a key that the state has.
ReportIsRecorded(report) ==
    report # NoReport /\ (report.updated \/ report.status = "deduped") => Recorded(report.key) # NoEntry

\* Runs that do not overlap: the run that is busy has read what the state still is.
SerialRun(r) ==
    LET t == run[r] IN
    /\ t.now <= clock
    /\ t.pc \in {"state"} \cup Late => \A k \in AlertKeys : Recorded(k) # NoEntry => Recorded(k).at <= t.now
    /\ t.pc \in Late /\ t.opt.dedupe => t.base = ReadState.entry
    /\ t.pc = "write" => t.ino = tempIno /\ t.ino # NoInode /\ content[t.ino] = Torn
    /\ t.pc = "replace" => tempIno # NoInode /\ content[tempIno] = Entries(update_dedupe_state(r))
    /\ t.updated \/ t.status = "deduped" => Recorded(t.alert.key) # NoEntry
Ordered ==
    /\ \A q, r \in Slots : run[q].pc # "idle" /\ run[r].pc # "idle" => q = r
    /\ stateIno # NoInode => content[stateIno] # Torn
    /\ \A k \in AlertKeys : Recorded(k) # NoEntry => Recorded(k).at <= clock
    /\ \A r \in Slots : SerialRun(r)
    /\ ReportIsRecorded(evidence.send)

\* While nothing fails as well: every message is on record or of the run that is busy, and
\* what that run sends is due.
OnRecord(m) == Recorded(m.key) # NoEntry /\ m.at <= Recorded(m.key).at
Underway(t, m) == t.pc \in Late /\ m.key = t.alert.key /\ m.at = t.now
Due(t) ==
    /\ t.opt.dedupe /\ AllSent(t.results)
    /\ t.base[t.alert.key] # NoEntry => t.base[t.alert.key].at + Ttl <= t.now
NoneRepeated ==
    /\ \A m \in delivered : OnRecord(m) \/ \E r \in Slots : Underway(run[r], m)
    /\ \A r \in Slots : run[r].pc \in Late => Due(run[r])
    /\ NoRepeatWithinTtl

\* Nothing fails: runs do not overlap, all of them look at the state, and none dies.
Calm == Serial /\ ~MayFail /\ ~MayCrash /\ AllDedupe

AlertInv ==
    /\ Honest
    /\ Serial => Ordered
    /\ Calm => NoneRepeated

-----------------------------------------------------------------------------
\* A set of numbers that is not empty has a least one.
LEMMA LeastIndex ==
    ASSUME NEW S \in SUBSET Nat, S # {}
    PROVE  \E m \in S : \A n \in S : m <= n
<1> DEFINE R == {pair \in Nat \X Nat : pair[1] < pair[2]}
<1>1. IsWellFoundedOn(R, Nat)
  BY NatLessThanWellFounded DEF OpToRel
<1>2. \A m, n \in Nat : m < n => <<m, n>> \in R
  OBVIOUS
<1> HIDE DEF R
<1>3. PICK m \in S : \A n \in S : ~(<<n, m>> \in R)
  BY <1>1, WFMin
<1>4. ASSUME NEW n \in S PROVE m <= n
  <2>1. m \in Nat /\ n \in Nat /\ ~(<<n, m>> \in R)
    BY <1>3
  <2> QED BY <1>2, <2>1
<1> QED BY <1>4

\* A set of numbers with at least n members has one that is the n-th: the least number
\* that n members do not exceed.
LEMMA RankIsTaken ==
    ASSUME NEW limit \in Nat, NEW S \in SUBSET (1 .. limit), NEW n \in 1 .. Cardinality(S)
    PROVE  \E i \in S : Cardinality({j \in S : j <= i}) = n
<1> DEFINE Upto(i) == {j \in S : j <= i}
           Enough == {i \in Nat : Cardinality(Upto(i)) >= n}
<1>0. \A j \in S : j \in Nat /\ j >= 1 /\ j <= limit
  OBVIOUS
<1>1. IsFiniteSet(S) /\ Cardinality(S) \in Nat
  <2>1. IsFiniteSet(1 .. limit)
    BY FS_Interval
  <2> QED BY <2>1, FS_Subset, FS_CardinalityType
<1>2. \A i \in Nat : IsFiniteSet(Upto(i)) /\ Cardinality(Upto(i)) \in Nat
  <2>1. \A i \in Nat : Upto(i) \in SUBSET S
    OBVIOUS
  <2> QED BY <1>1, <2>1, FS_Subset, FS_CardinalityType
<1>3. limit \in Enough
  <2>1. Upto(limit) = S
    BY <1>0
  <2>2. Cardinality(Upto(limit)) >= n
    BY <1>1, <2>1
  <2> QED BY <2>2
<1>4. PICK k \in Nat : k \in Enough /\ \A i \in Enough : k <= i
  BY <1>3, LeastIndex
<1>5. Cardinality(Upto(k)) >= n /\ n \in Nat /\ n >= 1
  BY <1>1, <1>4
<1>6. k # 0
  <2>1. \A j \in Upto(0) : FALSE
    BY <1>0
  <2>2. Cardinality(Upto(0)) = 0
    BY <2>1, FS_EmptySet
  <2> QED BY <1>5, <2>2
<1>7. k - 1 \in Nat /\ Cardinality(Upto(k - 1)) \in Nat /\ Cardinality(Upto(k - 1)) < n
  <2>1. k - 1 \in Nat /\ ~(k <= k - 1)
    BY <1>5, <1>6
  <2>2. k - 1 \notin Enough
    BY <1>4, <2>1
  <2>3. ~(Cardinality(Upto(k - 1)) >= n)
    BY <2>1, <2>2
  <2>4. Cardinality(Upto(k - 1)) \in Nat
    BY <1>2, <2>1
  <2> HIDE DEF Upto
  <2> QED BY <1>5, <2>1, <2>3, <2>4
<1>8. k \in S
  <2>1. SUFFICES ASSUME k \notin S PROVE FALSE
    OBVIOUS
  <2>2. \A j \in S : j <= k <=> j <= k - 1
    BY <1>0, <1>5, <1>7, <2>1
  <2>3. Upto(k) = Upto(k - 1)
    BY <2>2
  <2> QED BY <1>5, <1>7, <2>3
<1>9. Cardinality(Upto(k)) = Cardinality(Upto(k - 1)) + 1
  <2>1. \A j \in S : j <= k <=> j <= k - 1 \/ j = k
    BY <1>0, <1>5, <1>7
  <2>2. Upto(k) = Upto(k - 1) \cup {k}
    BY <1>8, <2>1
  <2>4. k \notin Upto(k - 1)
    BY <1>7
  <2>3. IsFiniteSet(Upto(k - 1))
    BY <1>2, <1>7
  <2> HIDE DEF Upto
  <2> QED BY <2>2, <2>3, <2>4, FS_AddElement
<1>10. Cardinality(Upto(k)) = n
  BY <1>5, <1>7, <1>9
<1> QED BY <1>8, <1>10

\* What is kept of the chat ids are ids of the list, and one of them if there are any.
LEMMA DistinctIds ==
    ASSUME NEW ids \in Seq(STRING)
    PROVE  /\ Distinct(ids) \in Seq(STRING)
           /\ ids # <<>> => Len(Distinct(ids)) > 0
<1> DEFINE S == FirstOnes(ids)
<1>1. Len(ids) \in Nat /\ DOMAIN ids = 1 .. Len(ids) /\ \A i \in 1 .. Len(ids) : ids[i] \in STRING
  OBVIOUS
<1>2. S \in SUBSET (1 .. Len(ids))
  BY <1>1 DEF FirstOnes
<1>3. IsFiniteSet(S) /\ Cardinality(S) \in Nat
  <2>1. IsFiniteSet(1 .. Len(ids))
    BY <1>1, FS_Interval
  <2> QED BY <1>2, <2>1, FS_Subset, FS_CardinalityType
<1>4. ASSUME NEW n \in 1 .. Cardinality(S)
      PROVE  ids[CHOOSE i \in S : Cardinality({j \in S : j <= i}) = n] \in STRING
  <2>1. \E i \in S : Cardinality({j \in S : j <= i}) = n
    BY <1>1, <1>2, RankIsTaken
  <2> DEFINE c == CHOOSE i \in S : Cardinality({j \in S : j <= i}) = n
  <2>2. c \in S
    BY <2>1
  <2> HIDE DEF c
  <2> QED BY <1>1, <1>2, <2>2 DEF c
<1>5. Distinct(ids) \in [1 .. Cardinality(S) -> STRING]
  BY <1>4 DEF Distinct
<1>6. Distinct(ids) \in Seq(STRING) /\ Len(Distinct(ids)) = Cardinality(S)
  <2> HIDE DEF S
  <2> QED BY <1>3, <1>5
<1>7. ASSUME ids # <<>> PROVE Cardinality(S) > 0
  <2>1. 1 \in S
    BY <1>1, <1>7 DEF FirstOnes
  <2>2. Cardinality(S) # 0
    BY <1>3, <2>1, FS_EmptySet
  <2> QED BY <1>3, <2>2
<1> QED BY <1>6, <1>7

-----------------------------------------------------------------------------
\* The files, entries and payloads of a kind are no others.
LEMMA Kinds ==
    ASSUME DeliveryAssumption
    PROVE  /\ Inodes \subseteq Nat \ {0} /\ NoInode \notin Inodes
           /\ \A f : Torn # Entries(f) /\ Entries(f).entry = f
           /\ \A at, chats : [at |-> at, chats |-> chats] # NoEntry
           /\ Torn \notin Payloads
           /\ \A p \in Payloads : p.notify \in BOOLEAN /\ p.key \in AlertKeys
           /\ new_dedupe_state \in StateMap /\ \A k \in AlertKeys : new_dedupe_state[k] = NoEntry
<1>1. Cardinality(Slots) + 2 \in Nat
  BY FS_CardinalityType DEF DeliveryAssumption
<1>2. Inodes \subseteq Nat \ {0} /\ NoInode \notin Inodes
  BY <1>1 DEF Inodes, NoInode
<1>3. \A f : Torn # Entries(f) /\ Entries(f).entry = f
  BY DEF Torn, Entries
<1>4. \A at, chats : [at |-> at, chats |-> chats] # NoEntry
  <2>1. SUFFICES ASSUME NEW at, NEW chats, [at |-> at, chats |-> chats] = <<>> PROVE FALSE
    BY DEF NoEntry
  <2>2. DOMAIN [at |-> at, chats |-> chats] = {"at", "chats"}
    OBVIOUS
  <2>3. "at" \notin DOMAIN <<>>
    OBVIOUS
  <2> QED BY <2>1, <2>2, <2>3
<1>5. Torn \notin Payloads /\ \A p \in Payloads : p.notify \in BOOLEAN /\ p.key \in AlertKeys
  <2>1. \A p \in Payloads : p.kind = "alert" /\ p.notify \in BOOLEAN /\ p.key \in AlertKeys
    BY DEF Payloads
  <2>2. Torn.kind = "torn"
    BY DEF Torn
  <2> QED BY <2>1, <2>2
<1>6. new_dedupe_state \in StateMap /\ \A k \in AlertKeys : new_dedupe_state[k] = NoEntry
  BY DEF new_dedupe_state, StateMap, StateEntry
<1> QED BY <1>2, <1>3, <1>4, <1>5, <1>6

\* A slot without a run.
LEMMA NoRunIsState ==
    ASSUME DeliveryAssumption
    PROVE  NoRun \in RunState /\ NoRun.pc = "idle" /\ NoRun.now = 0 /\ HonestRun(NoRun, delivered')
<1>1. new_dedupe_state \in StateMap /\ \A k \in AlertKeys : new_dedupe_state[k] = NoEntry
  BY Kinds
<1> DEFINE opt == [service |-> FALSE, send |-> FALSE, dedupe |-> FALSE, ignore |-> FALSE]
           env == [file |-> "missing", exposed |-> FALSE, readable |-> FALSE,
                   malformed |-> FALSE, token |-> FALSE, ids |-> <<>>, exported |-> {}]
<1>2. opt \in Option /\ env \in EnvFile
  BY DEF Option, EnvFile
<1>3. NoRun \in RunState
  <2>1. NoEntry \in StateEntry /\ Torn \in Payloads \cup {Torn}
    BY DEF StateEntry
  <2>2. <<>> \in Seq(STRING) /\ <<>> \in Seq(BOOLEAN)
    OBVIOUS
  <2>3. \A o \in Option, e \in EnvFile, b \in StateMap :
          [pc |-> "idle", opt |-> o, env |-> e, alert |-> Torn, chats |-> <<>>, results |-> <<>>,
           now |-> 0, status |-> "none", updated |-> FALSE, base |-> b, matched |-> NoEntry,
           ino |-> NoInode] \in RunState
    BY <2>1, <2>2 DEF RunState, Phases, Statuses
  <2> QED BY <1>1, <1>2, <2>3 DEF NoRun
<1>4. HonestRun(NoRun, delivered')
  BY <1>1 DEF NoRun, HonestRun, Writing, Late, Reading, TruthfulMap, AllSent
<1> QED BY <1>3, <1>4 DEF NoRun

\* One run goes on.
Becomes(r, t) == run' = [run EXCEPT ![r] = t]
LEMMA OneRunMoves ==
    ASSUME run \in [Slots -> RunState], NEW r \in Slots, NEW t \in RunState, Becomes(r, t)
    PROVE  /\ run' \in [Slots -> RunState] /\ run'[r] = t
           /\ \A q \in Slots \ {r} : run'[q] = run[q]
BY DEF Becomes

\* What was sent stays sent.
LEMMA SentStays ==
    ASSUME NEW sent, NEW more, sent \subseteq more
    PROVE  /\ \A key, e : Truthful(key, e, sent) => Truthful(key, e, more)
           /\ \A f : TruthfulMap(f, sent) => TruthfulMap(f, more)
           /\ \A t : HonestRun(t, sent) => HonestRun(t, more)
<1>1. \A key, e : Truthful(key, e, sent) => Truthful(key, e, more)
  BY DEF Truthful
<1>2. \A f : TruthfulMap(f, sent) => TruthfulMap(f, more)
  BY <1>1 DEF TruthfulMap
<1>3. \A t : HonestRun(t, sent) => HonestRun(t, more)
  BY <1>1, <1>2 DEF HonestRun
<1> QED BY <1>1, <1>2, <1>3

\* A step of one run that sends nothing false and writes nothing false.
LEMMA HonestStep ==
    ASSUME DeliveryAssumption, Honest, NEW r \in Slots, NEW t \in RunState, Becomes(r, t),
           delivered \subseteq delivered', delivered' \in SUBSET Sent, HonestRun(t, delivered'),
           UNCHANGED <<clock, payload>>,
           content' \in [Inodes -> {Torn} \cup {Entries(f) : f \in StateMap}],
           stateIno' \in Inodes \cup {NoInode}, tempIno' \in Inodes \cup {NoInode},
           stateIno' # NoInode => stateIno' # tempIno', HonestFiles',
           evidence' \in Evidence
    PROVE  Honest'
<1>1. /\ run' \in [Slots -> RunState] /\ run'[r] = t
      /\ \A q \in Slots \ {r} : run'[q] = run[q]
  BY OneRunMoves DEF Honest, TypeInv
<1>2. TypeInv'
  BY <1>1 DEF Honest, TypeInv
<1>3. HonestRuns'
  BY <1>1, SentStays DEF Honest, HonestRuns
<1> QED BY <1>2, <1>3 DEF Honest

\* A step of one run that leaves the files of the state alone.
LEMMA HonestRunStep ==
    ASSUME DeliveryAssumption, Honest, NEW r \in Slots, NEW t \in RunState, Becomes(r, t),
           delivered \subseteq delivered', delivered' \in SUBSET Sent, HonestRun(t, delivered'),
           UNCHANGED <<clock, payload, content, stateIno, tempIno>>,
           evidence' \in Evidence
    PROVE  Honest'
<1>1. HonestFiles'
  BY SentStays DEF Honest, HonestFiles
<1>2. /\ content' \in [Inodes -> {Torn} \cup {Entries(f) : f \in StateMap}]
      /\ stateIno' \in Inodes \cup {NoInode} /\ tempIno' \in Inodes \cup {NoInode}
      /\ stateIno' # NoInode => stateIno' # tempIno'
  BY DEF Honest, TypeInv
<1> QED BY <1>1, <1>2, HonestStep

\* What a run is.
LEMMA RunFields ==
    ASSUME NEW t \in RunState
    PROVE  /\ t.pc \in Phases /\ t.opt \in Option /\ t.env \in EnvFile
           /\ t.alert \in Payloads \cup {Torn} /\ t.chats \in Seq(STRING)
           /\ t.results \in Seq(BOOLEAN) /\ t.now \in Nat /\ t.status \in Statuses
           /\ t.updated \in BOOLEAN /\ t.base \in StateMap /\ t.matched \in StateEntry
           /\ t.ino \in Inodes \cup {NoInode}
BY DEF RunState

\* What a run reads from the state, if it can be read.
LEMMA ReadFacts ==
    ASSUME DeliveryAssumption, Honest
    PROVE  /\ ReadState \in {Torn} \cup {Entries(f) : f \in StateMap}
           /\ ReadState # Torn => /\ ReadState.entry \in StateMap
                                  /\ TruthfulMap(ReadState.entry, delivered)
<1>1. CASE stateIno = NoInode
  <2>1. ReadState = Entries(new_dedupe_state)
    BY <1>1 DEF ReadState
  <2> QED BY <2>1, Kinds DEF TruthfulMap
<1>2. CASE stateIno # NoInode
  <2>1. ReadState = content[stateIno] /\ stateIno \in Inodes
    BY <1>2 DEF ReadState, Honest, TypeInv
  <2>2. content[stateIno] \in {Torn} \cup {Entries(f) : f \in StateMap}
    BY <2>1 DEF Honest, TypeInv
  <2>3. content[stateIno] # Torn => content[stateIno].entry \in StateMap
    BY <2>2, Kinds
  <2> QED BY <2>1, <2>2, <2>3 DEF Honest, HonestFiles
<1> QED BY <1>1, <1>2

\* A run that starts.
LEMMA HonestStart ==
    ASSUME DeliveryAssumption, Honest, NEW r \in Slots, NEW opt \in Options, NEW env \in EnvFiles,
           Start(r, opt, env)
    PROVE  Honest'
<1> DEFINE phase == IF opt.service THEN "preflight" ELSE "load"
           t == [NoRun EXCEPT !.pc = phase, !.opt = opt, !.env = env]
<1>1. opt \in Option /\ env \in EnvFile /\ phase \in {"preflight", "load"}
  BY DEF DeliveryAssumption
<1>2. NoRun \in RunState /\ HonestRun(NoRun, delivered')
  BY NoRunIsState
<1>3. /\ t \in RunState /\ t.pc = phase /\ t.opt = opt /\ t.env = env
      /\ t.results = NoRun.results /\ t.chats = NoRun.chats /\ t.alert = NoRun.alert
      /\ t.base = NoRun.base /\ t.status = NoRun.status /\ t.updated = NoRun.updated
      /\ t.matched = NoRun.matched /\ t.now = NoRun.now
  BY <1>1, <1>2 DEF RunState, Phases
<1>4. NoRun.status = "none" /\ NoRun.updated = FALSE /\ NoRun.results = <<>>
  BY DEF NoRun
<1>5. Becomes(r, t)
  BY DEF Start, Becomes
<1> HIDE DEF t
<1>6. HonestRun(t, delivered')
  BY <1>1, <1>2, <1>3, <1>4 DEF HonestRun, Late, Writing, Reading
<1>7. UNCHANGED <<clock, payload, content, stateIno, tempIno, evidence, delivered>>
  BY DEF Start
<1> QED BY <1>3, <1>5, <1>6, <1>7, HonestRunStep DEF Honest, TypeInv

\* A run that ends.
LEMMA HonestEnd ==
    ASSUME DeliveryAssumption, Honest, NEW r \in Slots, Refuse(r),
           UNCHANGED <<clock, payload, content, stateIno, tempIno, delivered>>,
           evidence' \in Evidence
    PROVE  Honest'
<1>1. NoRun \in RunState /\ HonestRun(NoRun, delivered') /\ Becomes(r, NoRun)
  BY NoRunIsState DEF Refuse, Becomes
<1> QED BY <1>1, HonestRunStep DEF Honest, TypeInv

\* The preflight of the service.
LEMMA HonestPreflight ==
    ASSUME DeliveryAssumption, Honest, NEW r \in Slots, Preflight(r)
    PROVE  Honest'
<1> DEFINE t == [run[r] EXCEPT !.pc = "load"]
<1>1. run[r] \in RunState /\ HonestRun(run[r], delivered) /\ run[r].pc = "preflight"
  BY DEF Honest, TypeInv, HonestRuns, Preflight
<1>2. evidence' \in Evidence
  <2>1. evidence' = [evidence EXCEPT !.env = evaluate_env_file(run[r].env)]
    BY DEF Preflight
  <2>2. evaluate_env_file(run[r].env) \in {"ok", "fail"}
    BY DEF evaluate_env_file
  <2> HIDE DEF evaluate_env_file
  <2> QED BY <2>1, <2>2 DEF Honest, TypeInv, Evidence
<1>3. CASE evaluate_env_file(run[r].env) = "ok"
  <2>1. Becomes(r, t)
    BY <1>3 DEF Preflight, Becomes
  <2>2. /\ t \in RunState /\ t.pc = "load" /\ t.opt = run[r].opt /\ t.env = run[r].env
        /\ t.results = run[r].results /\ t.base = run[r].base /\ t.status = run[r].status
        /\ t.updated = run[r].updated
    BY <1>1 DEF RunState, Phases
  <2> HIDE DEF t
  <2>3. HonestRun(t, delivered)
    BY <1>1, <1>3, <2>2 DEF HonestRun, Late, Writing, Reading
  <2> QED BY <1>2, <2>1, <2>2, <2>3, HonestRunStep DEF Preflight, Honest, TypeInv
<1>4. CASE evaluate_env_file(run[r].env) # "ok"
  BY <1>2, <1>4, HonestEnd DEF Preflight
<1> QED BY <1>3, <1>4

\* How the command line and the payload end a run early.
LEMMA EarlyFacts ==
    ASSUME NEW p \in Payloads, DeliveryAssumption, NEW opt \in Option, NEW env \in EnvFile
    PROVE  /\ EarlyStatus(p, opt, env) \in {"skipped", "config_error", "preview", "none"}
           /\ EarlyStatus(p, opt, env) = "config_error"
                => ~TokenFound(opt, env) \/ IdsFound(opt, env) = <<>>
           /\ EarlyStatus(p, opt, env) = "none"
                => opt.send /\ TokenFound(opt, env) /\ IdsFound(opt, env) # <<>>
           /\ IdsFound(opt, env) \in Seq(STRING)
<1>1. p.notify \in BOOLEAN /\ opt.send \in BOOLEAN /\ TokenFound(opt, env) \in BOOLEAN
  BY Kinds DEF Option, EnvFile, TokenFound
<1>2. <<>> \in Seq(STRING) /\ env.ids \in Seq(STRING)
  BY DEF EnvFile
<1>3. IdsFound(opt, env) \in Seq(STRING)
  BY <1>2 DEF IdsFound
<1> QED BY <1>1, <1>3 DEF EarlyStatus

\* A run that reads its alert.
LEMMA HonestLoad ==
    ASSUME DeliveryAssumption, Honest, NEW r \in Slots, load_alert_payload(r)
    PROVE  Honest'
<1> DEFINE early == EarlyStatus(payload, run[r].opt, run[r].env)
           ids == IdsFound(run[r].opt, run[r].env)
           phase == IF early # "none" THEN "report" ELSE IF run[r].opt.dedupe THEN "state" ELSE "send"
           t == [run[r] EXCEPT !.alert = payload, !.chats = Distinct(ids),
                               !.now = clock, !.status = early, !.pc = phase]
<1>1. run[r] \in RunState /\ HonestRun(run[r], delivered) /\ run[r].pc = "load"
  BY DEF Honest, TypeInv, HonestRuns, load_alert_payload
<1>2. UNCHANGED <<clock, payload, content, stateIno, tempIno, evidence, delivered>>
  BY DEF load_alert_payload
<1>3. CASE payload = Torn \/ ChatsRefused(ids)
  BY <1>2, <1>3, HonestEnd DEF load_alert_payload, Honest, TypeInv
<1>4. CASE ~(payload = Torn \/ ChatsRefused(ids))
  <2>1. Becomes(r, t)
    BY <1>4 DEF load_alert_payload, Becomes
  <2>2. payload \in Payloads /\ clock \in Nat
    BY <1>4 DEF Honest, TypeInv, DeliveryAssumption
  <2>3. /\ early \in {"skipped", "config_error", "preview", "none"}
        /\ early = "config_error" => ~TokenFound(run[r].opt, run[r].env) \/ ids = <<>>
        /\ early = "none" => run[r].opt.send /\ ids # <<>>
        /\ ids \in Seq(STRING)
    BY <1>1, <2>2, RunFields, EarlyFacts
  <2>4. /\ Distinct(ids) \in Seq(STRING)
        /\ early = "none" => Len(Distinct(ids)) > 0
    <3> HIDE DEF ids, early
    <3> QED BY <2>3, DistinctIds
  <2>5. phase \in {"report", "state", "send"} /\ (phase # "report" => early = "none")
    OBVIOUS
  <2> HIDE DEF phase, early, ids
  <2>6. /\ t \in RunState /\ t.pc = phase /\ t.opt = run[r].opt /\ t.env = run[r].env
        /\ t.results = run[r].results /\ t.base = run[r].base /\ t.status = early
        /\ t.updated = run[r].updated /\ t.alert = payload /\ t.now = clock
        /\ t.chats = Distinct(ids)
    BY <1>1, <2>2, <2>3, <2>4, <2>5 DEF RunState, Phases, Statuses
  <2> HIDE DEF t
  <2>7. HonestRun(t, delivered)
    <3>1. /\ run[r].opt \in Options /\ run[r].results = <<>> /\ TruthfulMap(run[r].base, delivered)
          /\ run[r].opt.service => evaluate_env_file(run[r].env) = "ok"
          /\ run[r].updated = FALSE
      BY <1>1, RunFields DEF HonestRun, Reading
    <3> QED BY <2>2, <2>3, <2>4, <2>5, <2>6, <3>1 DEF HonestRun, ids, Late, Writing, Reading
  <2> QED BY <1>2, <2>1, <2>6, <2>7, HonestRunStep DEF Honest, TypeInv
<1> QED BY <1>3, <1>4

\* A run that reads the dedupe state.
LEMMA HonestReads ==
    ASSUME DeliveryAssumption, Honest, NEW r \in Slots, load_dedupe_state(r)
    PROVE  Honest'
<1> DEFINE s == ReadState
           key == run[r].alert.key
           active == ~run[r].opt.ignore /\ find_active_dedupe_entry(s.entry, key, run[r].now)
           t == [run[r] EXCEPT !.pc = "report", !.status = "deduped", !.matched = s.entry[key]]
           u == [run[r] EXCEPT !.pc = "send", !.base = s.entry]
<1>1. run[r] \in RunState /\ HonestRun(run[r], delivered) /\ run[r].pc = "state"
  BY DEF Honest, TypeInv, HonestRuns, load_dedupe_state
<1>2. UNCHANGED <<clock, payload, content, stateIno, tempIno, evidence, delivered>>
  BY DEF load_dedupe_state
<1>3. /\ run[r].opt \in Options /\ run[r].results = <<>> /\ TruthfulMap(run[r].base, delivered)
      /\ run[r].opt.service => evaluate_env_file(run[r].env) = "ok"
      /\ run[r].opt.send /\ run[r].alert \in Payloads /\ Len(run[r].chats) > 0
      /\ run[r].updated = FALSE /\ run[r].status # "deduped"
      /\ run[r].status = "config_error" => ~TokenFound(run[r].opt, run[r].env)
                                            \/ IdsFound(run[r].opt, run[r].env) = <<>>
  BY <1>1, RunFields DEF HonestRun, Reading, Late
<1>4. CASE s = Torn
  BY <1>2, <1>4, HonestEnd DEF load_dedupe_state, Honest, TypeInv
<1>5. ASSUME s # Torn PROVE s.entry \in StateMap /\ TruthfulMap(s.entry, delivered)
  BY <1>5, ReadFacts
<1>6. key \in AlertKeys
  BY <1>3, Kinds
<1>7. CASE s # Torn /\ active
  <2>1. Becomes(r, t)
    BY <1>7 DEF load_dedupe_state, Becomes
  <2>2. s.entry[key] \in StateEntry
    BY <1>5, <1>6, <1>7 DEF StateMap
  <2>3. s.entry[key] # NoEntry /\ run[r].now < s.entry[key].at + Ttl
    <3>1. s.entry[key] # NoEntry
      BY <1>7 DEF find_active_dedupe_entry
    <3>2. s.entry[key].at \in Nat /\ run[r].now \in Nat /\ Ttl \in Nat \ {0}
      BY <1>1, <2>2, <3>1, RunFields DEF StateEntry, DeliveryAssumption
    <3>3. (IF run[r].now < s.entry[key].at THEN 0 ELSE run[r].now - s.entry[key].at) < Ttl
      BY <1>7 DEF find_active_dedupe_entry
    <3> HIDE DEF s, key
    <3> QED BY <3>1, <3>2, <3>3
  <2>4. Truthful(key, s.entry[key], delivered)
    BY <1>5, <1>6, <1>7, <2>3 DEF TruthfulMap
  <2> HIDE DEF s
  <2>5. /\ t \in RunState /\ t.pc = "report" /\ t.opt = run[r].opt /\ t.env = run[r].env
        /\ t.results = run[r].results /\ t.base = run[r].base /\ t.status = "deduped"
        /\ t.updated = run[r].updated /\ t.alert = run[r].alert /\ t.now = run[r].now
        /\ t.chats = run[r].chats /\ t.matched = s.entry[key]
    BY <1>1, <2>2 DEF RunState, Phases, Statuses
  <2> HIDE DEF t
  <2>6. HonestRun(t, delivered)
    BY <1>3, <2>3, <2>4, <2>5 DEF HonestRun, Late, Writing, Reading
  <2> QED BY <1>2, <2>1, <2>5, <2>6, HonestRunStep DEF Honest, TypeInv
<1>8. CASE s # Torn /\ ~active
  <2>1. Becomes(r, u)
    BY <1>8 DEF load_dedupe_state, Becomes
  <2>2. s.entry \in StateMap /\ TruthfulMap(s.entry, delivered)
    BY <1>5, <1>8
  <2> HIDE DEF s
  <2>3. /\ u \in RunState /\ u.pc = "send" /\ u.opt = run[r].opt /\ u.env = run[r].env
        /\ u.results = run[r].results /\ u.base = s.entry /\ u.status = run[r].status
        /\ u.updated = run[r].updated /\ u.alert = run[r].alert /\ u.now = run[r].now
        /\ u.chats = run[r].chats
    BY <1>1, <2>2 DEF RunState, Phases
  <2> HIDE DEF u
  <2>4. HonestRun(u, delivered)
    BY <1>3, <2>2, <2>3 DEF HonestRun, Late, Writing, Reading
  <2> QED BY <1>2, <2>1, <2>3, <2>4, HonestRunStep DEF Honest, TypeInv
<1> QED BY <1>4, <1>7, <1>8

\* A message that Telegram accepts or refuses.
LEMMA HonestSend ==
    ASSUME DeliveryAssumption, Honest, NEW r \in Slots, NEW ok \in BOOLEAN, send_message(r, ok)
    PROVE  Honest'
<1> DEFINE results == Append(run[r].results, ok)
           last == Len(results) = Len(run[r].chats)
           all == AllSent(results)
           status == IF ~last THEN "none" ELSE IF all THEN "sent" ELSE "failed"
           phase == IF ~last THEN "send" ELSE IF all /\ run[r].opt.dedupe THEN "open" ELSE "report"
           t == [run[r] EXCEPT !.results = results, !.status = status, !.pc = phase]
<1>1. run[r] \in RunState /\ HonestRun(run[r], delivered) /\ run[r].pc = "send"
  BY DEF Honest, TypeInv, HonestRuns, send_message
<1>2. UNCHANGED <<clock, payload, content, stateIno, tempIno, evidence>> /\ Becomes(r, t)
  BY DEF send_message, Becomes
<1>3. /\ run[r].opt \in Options /\ TruthfulMap(run[r].base, delivered)
      /\ run[r].opt.service => evaluate_env_file(run[r].env) = "ok"
      /\ run[r].opt.send /\ run[r].alert \in Payloads
      /\ Len(run[r].results) < Len(run[r].chats)
      /\ run[r].updated = FALSE
      /\ \A i \in DOMAIN run[r].results : run[r].results[i] =>
           /\ i \in DOMAIN run[r].chats
           /\ [chat |-> run[r].chats[i], key |-> run[r].alert.key, at |-> run[r].now] \in delivered
  BY <1>1, RunFields DEF HonestRun, Reading, Late, Writing
<1>4. run[r].alert.key \in AlertKeys /\ run[r].now \in Nat /\ run[r].chats \in Seq(STRING)
      /\ run[r].results \in Seq(BOOLEAN)
  BY <1>1, <1>3, RunFields, Kinds
<1> DEFINE n == Len(run[r].results) + 1
<1>5. /\ n \in DOMAIN run[r].chats /\ run[r].chats[n] \in STRING
      /\ Message(r) = [chat |-> run[r].chats[n], key |-> run[r].alert.key, at |-> run[r].now]
  <2>1. n \in DOMAIN run[r].chats /\ run[r].chats[n] \in STRING
    BY <1>3, <1>4
  <2> QED BY <1>1, <2>1 DEF Message, NextChat
<1>6. /\ delivered \subseteq delivered' /\ delivered' \in SUBSET Sent
      /\ ok => Message(r) \in delivered'
  <2>1. Message(r) \in Sent
    BY <1>4, <1>5 DEF Sent
  <2>2. delivered' = IF ok THEN delivered \cup {Message(r)} ELSE delivered
    BY DEF send_message
  <2> QED BY <2>1, <2>2 DEF Honest, TypeInv
<1>7. /\ results \in Seq(BOOLEAN) /\ Len(results) = n /\ DOMAIN results = 1 .. n
      /\ results[n] = ok /\ \A i \in DOMAIN run[r].results : results[i] = run[r].results[i]
      /\ \A i \in DOMAIN results : i \in DOMAIN run[r].results \/ i = n
  BY <1>4
<1>8. /\ status \in Statuses \ {"deduped", "config_error"}
      /\ phase = "send" => n < Len(run[r].chats)
      /\ phase \in {"send", "open", "report"}
      /\ phase = "open" => n = Len(run[r].chats) /\ AllSent(results) /\ run[r].opt.dedupe
  <2>1. n <= Len(run[r].chats) /\ n \in Nat /\ Len(run[r].chats) \in Nat
    BY <1>3, <1>4
  <2> HIDE DEF n, results
  <2> QED BY <1>7, <2>1 DEF Statuses
<1> HIDE DEF results, status, phase, n
<1>9. /\ t \in RunState /\ t.pc = phase /\ t.opt = run[r].opt /\ t.env = run[r].env
      /\ t.results = results /\ t.base = run[r].base /\ t.status = status
      /\ t.updated = run[r].updated /\ t.alert = run[r].alert /\ t.now = run[r].now
      /\ t.chats = run[r].chats
  BY <1>1, <1>7, <1>8 DEF RunState, Phases
<1> HIDE DEF t
<1>10. \A i \in DOMAIN results : results[i] =>
         /\ i \in DOMAIN run[r].chats
         /\ [chat |-> run[r].chats[i], key |-> run[r].alert.key, at |-> run[r].now] \in delivered'
  BY <1>3, <1>5, <1>6, <1>7
<1>11. TruthfulMap(run[r].base, delivered')
  BY <1>3, <1>6, SentStays
<1>12. HonestRun(t, delivered')
  BY <1>3, <1>7, <1>8, <1>9, <1>10, <1>11 DEF HonestRun, Late, Writing, Reading
<1> QED BY <1>2, <1>6, <1>9, <1>12, HonestRunStep DEF Honest, TypeInv

\* What a run that writes the state knows: every chat of the alert was sent it.
LEMMA WritingFacts ==
    ASSUME DeliveryAssumption, Honest, NEW r \in Slots, run[r].pc \in Writing
    PROVE  /\ run[r] \in RunState /\ HonestRun(run[r], delivered)
           /\ run[r].alert.key \in AlertKeys
           /\ update_dedupe_state(r) \in StateMap /\ TruthfulMap(update_dedupe_state(r), delivered)
           /\ \A k \in AlertKeys : update_dedupe_state(r)[k] =
                IF k = run[r].alert.key THEN [at |-> run[r].now, chats |-> run[r].chats]
                ELSE run[r].base[k]
<1> DEFINE t == run[r]
           e == [at |-> t.now, chats |-> t.chats]
<1>1. t \in RunState /\ HonestRun(t, delivered)
  BY DEF Honest, TypeInv, HonestRuns
<1>2. /\ t.alert.key \in AlertKeys /\ t.now \in Nat /\ t.chats \in Seq(STRING)
      /\ t.base \in StateMap /\ TruthfulMap(t.base, delivered)
  BY <1>1, RunFields, Kinds DEF HonestRun, Writing
<1>3. Truthful(t.alert.key, e, delivered)
  <2>1. /\ Len(t.results) = Len(t.chats) /\ AllSent(t.results)
        /\ \A i \in DOMAIN t.results : t.results[i] =>
             [chat |-> t.chats[i], key |-> t.alert.key, at |-> t.now] \in delivered
    BY <1>1 DEF HonestRun
  <2>2. DOMAIN t.results = DOMAIN t.chats
    <3>1. t.results \in Seq(BOOLEAN)
      BY <1>1, RunFields
    <3> HIDE DEF t
    <3> QED BY <1>2, <2>1, <3>1
  <2>3. \A i \in DOMAIN t.chats : [chat |-> t.chats[i], key |-> t.alert.key, at |-> t.now] \in delivered
    BY <2>1, <2>2 DEF AllSent
  <2> HIDE DEF t
  <2>4. e.chats = t.chats /\ e.at = t.now
    OBVIOUS
  <2> QED BY <2>3, <2>4 DEF Truthful, ToSet
<1>4. e \in StateEntry
  BY <1>2 DEF StateEntry
<1>5. update_dedupe_state(r) = [t.base EXCEPT ![t.alert.key] = e]
  BY DEF update_dedupe_state
<1> HIDE DEF t, e
<1>6. /\ update_dedupe_state(r) \in StateMap
      /\ \A k \in AlertKeys : update_dedupe_state(r)[k] = IF k = t.alert.key THEN e ELSE t.base[k]
  BY <1>2, <1>4, <1>5 DEF StateMap
<1>7. TruthfulMap(update_dedupe_state(r), delivered)
  BY <1>2, <1>3, <1>6 DEF TruthfulMap
<1> QED BY <1>1, <1>2, <1>6, <1>7 DEF t, e

\* A run that has written goes on as it is.
LEMMA HonestMoved ==
    ASSUME DeliveryAssumption, Honest, NEW r \in Slots, run[r].pc \in Writing,
           NEW phase \in Writing \cup {"report"}, NEW t \in RunState,
           t.pc = phase, t.opt = run[r].opt, t.env = run[r].env, t.results = run[r].results,
           t.base = run[r].base, t.alert = run[r].alert, t.now = run[r].now,
           t.chats = run[r].chats, t.updated => phase = "report",
           t.status \in {run[r].status, "state_error"}
    PROVE  HonestRun(t, delivered)
<1>1. run[r] \in RunState /\ HonestRun(run[r], delivered)
  BY WritingFacts
<1> QED BY <1>1 DEF HonestRun, Late, Writing, Reading

\* The temporary file is opened: it is empty now.
LEMMA HonestOpens ==
    ASSUME DeliveryAssumption, Honest, NEW r \in Slots, OpenTemp(r)
    PROVE  Honest'
<1>1. run[r] \in RunState /\ run[r].pc = "open" /\ run[r].pc \in Writing
  BY DEF Honest, TypeInv, OpenTemp, Writing
<1>2. PICK i \in Inodes :
         /\ IF tempIno # NoInode THEN i = tempIno
            ELSE i # stateIno /\ ~Open(i) /\ \A j \in Inodes : j < i => j = stateIno \/ Open(j)
         /\ tempIno' = i /\ content' = [content EXCEPT ![i] = Torn]
         /\ run' = [run EXCEPT ![r] = [@ EXCEPT !.pc = "write", !.ino = i]]
  BY DEF OpenTemp
<1> DEFINE t == [run[r] EXCEPT !.pc = "write", !.ino = i]
<1>3. UNCHANGED <<clock, payload, stateIno, evidence, delivered>> /\ Becomes(r, t)
  BY <1>2 DEF OpenTemp, Becomes
<1>4. /\ t \in RunState /\ t.pc = "write" /\ t.opt = run[r].opt /\ t.env = run[r].env
      /\ t.results = run[r].results /\ t.base = run[r].base /\ t.status = run[r].status
      /\ t.updated = run[r].updated /\ t.alert = run[r].alert /\ t.now = run[r].now
      /\ t.chats = run[r].chats
  BY <1>1 DEF RunState, Phases
<1> HIDE DEF t
<1>5. HonestRun(t, delivered)
  <2>1. ~run[r].updated
    BY <1>1, WritingFacts DEF HonestRun
  <2> QED BY <1>1, <1>4, <2>1, HonestMoved DEF Writing
<1>6. /\ content' \in [Inodes -> {Torn} \cup {Entries(f) : f \in StateMap}]
      /\ \A j \in Inodes : content'[j] # Torn => content'[j] = content[j]
  BY <1>2 DEF Honest, TypeInv
<1>7. HonestFiles'
  BY <1>3, <1>6 DEF Honest, HonestFiles
<1>8. /\ tempIno' \in Inodes \cup {NoInode} /\ stateIno' \in Inodes \cup {NoInode}
      /\ stateIno' # NoInode => stateIno' # tempIno'
  BY <1>2, <1>3 DEF Honest, TypeInv
<1> QED BY <1>3, <1>4, <1>5, <1>6, <1>7, <1>8, HonestStep DEF Honest, TypeInv

\* The new state is written.
LEMMA HonestWrites ==
    ASSUME DeliveryAssumption, Honest, NEW r \in Slots, WriteTemp(r)
    PROVE  Honest'
<1>1. run[r] \in RunState /\ run[r].pc = "write" /\ run[r].pc \in Writing
  BY DEF Honest, TypeInv, WriteTemp, Writing
<1> DEFINE t == [run[r] EXCEPT !.pc = "replace"]
<1>2. UNCHANGED <<clock, payload, stateIno, tempIno, evidence, delivered>> /\ Becomes(r, t)
  BY DEF WriteTemp, Becomes
<1>3. /\ t \in RunState /\ t.pc = "replace" /\ t.opt = run[r].opt /\ t.env = run[r].env
      /\ t.results = run[r].results /\ t.base = run[r].base /\ t.status = run[r].status
      /\ t.updated = run[r].updated /\ t.alert = run[r].alert /\ t.now = run[r].now
      /\ t.chats = run[r].chats
  BY <1>1 DEF RunState, Phases
<1> HIDE DEF t
<1>4. HonestRun(t, delivered)
  <2>1. ~run[r].updated
    BY <1>1, WritingFacts DEF HonestRun
  <2> QED BY <1>1, <1>3, <2>1, HonestMoved DEF Writing
<1>5. PICK c \in {Entries(update_dedupe_state(r)), Torn} : content' = [content EXCEPT ![run[r].ino] = c]
  BY DEF WriteTemp
<1>6. c \in {Torn} \cup {Entries(f) : f \in StateMap} /\ (c # Torn => TruthfulMap(c.entry, delivered))
  <2>1. CASE c = Torn
    BY <2>1
  <2>2. CASE c = Entries(update_dedupe_state(r))
    <3> DEFINE f == update_dedupe_state(r)
    <3>1. f \in StateMap /\ TruthfulMap(f, delivered)
      BY <1>1, WritingFacts
    <3> HIDE DEF f
    <3>2. c = Entries(f)
      BY <2>2 DEF f
    <3> QED BY <3>1, <3>2, Kinds
  <2> QED BY <1>5, <2>1, <2>2
<1>7. /\ content' \in [Inodes -> {Torn} \cup {Entries(f) : f \in StateMap}]
      /\ \A j \in Inodes : content'[j] \in {content[j], c}
  BY <1>5, <1>6 DEF Honest, TypeInv
<1>8. HonestFiles'
  BY <1>2, <1>6, <1>7 DEF Honest, HonestFiles
<1> QED BY <1>2, <1>3, <1>4, <1>7, <1>8, HonestStep DEF Honest, TypeInv

\* A run that ends its writing with a report, whether it has replaced the state or not.
LEMMA ReportMade ==
    ASSUME DeliveryAssumption, Honest, NEW r \in Slots, run[r].pc \in Writing,
           NEW t, t \in {[run[r] EXCEPT !.pc = "report", !.status = "state_error"],
                         [run[r] EXCEPT !.pc = "report", !.updated = TRUE]}
    PROVE  t \in RunState /\ HonestRun(t, delivered)
<1>1. run[r] \in RunState
  BY WritingFacts
<1>2. /\ t \in RunState /\ t.pc = "report" /\ t.opt = run[r].opt /\ t.env = run[r].env
      /\ t.results = run[r].results /\ t.base = run[r].base /\ t.alert = run[r].alert
      /\ t.now = run[r].now /\ t.chats = run[r].chats /\ t.status \in {run[r].status, "state_error"}
  <2>1. CASE t = [run[r] EXCEPT !.pc = "report", !.status = "state_error"]
    BY <1>1, <2>1 DEF RunState, Phases, Statuses
  <2>2. CASE t = [run[r] EXCEPT !.pc = "report", !.updated = TRUE]
    BY <1>1, <2>2 DEF RunState, Phases, Statuses
  <2> QED BY <2>1, <2>2
<1> QED BY <1>2, HonestMoved

\* The temporary file becomes the state.
LEMMA HonestReplaces ==
    ASSUME DeliveryAssumption, Honest, NEW r \in Slots, Replace(r)
    PROVE  Honest'
<1>1. run[r].pc \in Writing
  BY DEF Replace, Writing
<1>2. UNCHANGED <<clock, payload, evidence, delivered>>
  BY DEF Replace
<1>3. CASE tempIno = NoInode
  <2> DEFINE t == [run[r] EXCEPT !.pc = "report", !.status = "state_error"]
  <2>1. UNCHANGED <<stateIno, tempIno, content>> /\ Becomes(r, t)
    BY <1>3 DEF Replace, Becomes
  <2>2. t \in RunState /\ HonestRun(t, delivered)
    BY <1>1, ReportMade
  <2> QED BY <1>2, <2>1, <2>2, HonestRunStep DEF Honest, TypeInv
<1>4. CASE tempIno # NoInode
  <2> DEFINE t == [run[r] EXCEPT !.pc = "report", !.updated = TRUE]
  <2>1. /\ stateIno' = tempIno /\ tempIno' = NoInode /\ Becomes(r, t)
        /\ content' = [i \in Inodes |-> IF i = stateIno /\ ~Open(i) THEN Torn ELSE content[i]]
    BY <1>4 DEF Replace, Becomes
  <2>2. t \in RunState /\ HonestRun(t, delivered)
    BY <1>1, ReportMade
  <2> HIDE DEF t
  <2>3. /\ content' \in [Inodes -> {Torn} \cup {Entries(f) : f \in StateMap}]
        /\ \A j \in Inodes : content'[j] # Torn => content'[j] = content[j]
    BY <2>1 DEF Honest, TypeInv
  <2>4. HonestFiles'
    BY <1>2, <2>3 DEF Honest, HonestFiles
  <2>5. /\ stateIno' \in Inodes \cup {NoInode} /\ tempIno' \in Inodes \cup {NoInode}
        /\ stateIno' # tempIno'
    BY <1>4, <2>1 DEF Honest, TypeInv
  <2> QED BY <1>2, <2>1, <2>2, <2>3, <2>4, <2>5, HonestStep DEF Honest, TypeInv
<1> QED BY <1>3, <1>4

\* Writing the state fails.
LEMMA HonestFails ==
    ASSUME DeliveryAssumption, Honest, NEW r \in Slots, StateError(r)
    PROVE  Honest'
<1> DEFINE t == [run[r] EXCEPT !.pc = "report", !.status = "state_error"]
<1>1. run[r].pc \in Writing /\ Becomes(r, t)
      /\ UNCHANGED <<clock, payload, content, stateIno, tempIno, evidence, delivered>>
  BY DEF StateError, Writing, Becomes
<1>2. t \in RunState /\ HonestRun(t, delivered)
  BY <1>1, ReportMade
<1> QED BY <1>1, <1>2, HonestRunStep DEF Honest, TypeInv

\* The report of a run.
LEMMA HonestReports ==
    ASSUME DeliveryAssumption, Honest, NEW r \in Slots, write_json_report(r)
    PROVE  Honest'
<1>1. run[r] \in RunState /\ HonestRun(run[r], delivered) /\ run[r].pc = "report"
  BY DEF Honest, TypeInv, HonestRuns, write_json_report
<1>2. Report(r, run[r].status, run[r].updated) \in SendReport
  <2>1. run[r].alert.key \in AlertKeys /\ run[r].opt.dedupe \in BOOLEAN
    BY <1>1, RunFields, Kinds DEF HonestRun, Option
  <2> QED BY <1>1, <2>1, RunFields DEF Report, SendReport
<1>3. evidence' \in Evidence
  BY <1>2 DEF write_json_report, Honest, TypeInv, Evidence
<1> QED BY <1>3, HonestEnd DEF write_json_report, Refuse

\* What no run does: the payload is written, time passes.
LEMMA HonestOthers ==
    ASSUME DeliveryAssumption, Honest,
           TruncatePayload \/ (\E p \in Payloads : WritePayload(p)) \/ Tick
    PROVE  Honest'
<1>1. UNCHANGED <<content, stateIno, tempIno, run, evidence, delivered>>
  BY DEF TruncatePayload, WritePayload, Tick
<1>2. payload' \in Payloads \cup {Torn} /\ clock' \in 0 .. MaxClock
  <2>1. payload \in Payloads \cup {Torn} /\ clock \in 0 .. MaxClock /\ MaxClock \in Nat
    BY DEF Honest, TypeInv, DeliveryAssumption
  <2> QED BY <2>1 DEF TruncatePayload, WritePayload, Tick
<1>3. TypeInv'
  BY <1>1, <1>2 DEF Honest, TypeInv
<1> QED BY <1>1, <1>3 DEF Honest, HonestRuns, HonestFiles

\* Every step keeps what runs and files say true.
LEMMA HonestKept ==
    ASSUME DeliveryAssumption, Honest, [AlertNext]_alertVars
    PROVE  Honest'
<1>1. CASE TruncatePayload \/ (\E p \in Payloads : WritePayload(p)) \/ Tick
  BY <1>1, HonestOthers
<1>2. ASSUME NEW r \in Slots, NEW opt \in Options, NEW env \in EnvFiles, Start(r, opt, env)
      PROVE  Honest'
  BY <1>2, HonestStart
<1>3. ASSUME NEW r \in Slots, RunStep(r) PROVE Honest'
  BY <1>3, HonestPreflight, HonestLoad, HonestReads, HonestSend, HonestOpens, HonestWrites,
     HonestReplaces, HonestReports DEF RunStep
<1>4. ASSUME NEW r \in Slots, StateError(r) PROVE Honest'
  BY <1>4, HonestFails
<1>5. ASSUME NEW r \in Slots, Crash(r) PROVE Honest'
  BY <1>5, HonestEnd DEF Crash, Honest, TypeInv
<1>6. CASE UNCHANGED alertVars
  BY <1>6 DEF alertVars, Honest, TypeInv, HonestRuns, HonestFiles
<1> QED BY <1>1, <1>2, <1>3, <1>4, <1>5, <1>6 DEF AlertNext

\* What holds of the runs and files shows the first part of AlertsAreTrue.
LEMMA HonestIsEnough ==
    ASSUME DeliveryAssumption, Honest
    PROVE  TypeOK /\ SuppressedWasDelivered /\ CheckedEnvIsUsable
<1>1. \A r \in Slots : run[r] \in RunState /\ HonestRun(run[r], delivered)
  BY DEF Honest, TypeInv, HonestRuns
<1>2. TypeOK
  BY <1>1, RunFields DEF Honest, TypeInv, TypeOK, Phases, Evidence
<1>3. SuppressedWasDelivered
  <2>1. SUFFICES ASSUME NEW r \in Slots, run[r].pc = "report", run[r].status = "deduped",
                        NEW chat \in ToSet(run[r].matched.chats)
                 PROVE  \E m \in delivered :
                          m.chat = chat /\ m.key = run[r].alert.key /\ run[r].now < m.at + Ttl
    BY DEF SuppressedWasDelivered
  <2> DEFINE m == [chat |-> chat, key |-> run[r].alert.key, at |-> run[r].matched.at]
  <2>2. m \in delivered /\ run[r].now < run[r].matched.at + Ttl
    BY <1>1, <2>1 DEF HonestRun, Truthful
  <2> QED BY <2>2
<1>4. CheckedEnvIsUsable
  <2>1. SUFFICES ASSUME NEW r \in Slots, run[r].opt.service, run[r].pc \notin {"idle", "preflight"},
                        run[r].env.exported = {},
                        Len(Distinct(run[r].env.ids)) <= DEFAULT_MAX_RECIPIENTS
                 PROVE  /\ ~ChatsRefused(IdsFound(run[r].opt, run[r].env))
                        /\ run[r].status # "config_error"
    BY DEF CheckedEnvIsUsable
  <2>2. /\ evaluate_env_file(run[r].env) = "ok"
        /\ run[r].status = "config_error" => ~TokenFound(run[r].opt, run[r].env)
                                            \/ IdsFound(run[r].opt, run[r].env) = <<>>
    BY <1>1, <2>1 DEF HonestRun
  <2>3. run[r].env.token /\ BadId \notin ToSet(run[r].env.ids) /\ run[r].env.ids # <<>>
    BY <2>2 DEF evaluate_env_file
  <2>4. IdsFound(run[r].opt, run[r].env) = run[r].env.ids /\ TokenFound(run[r].opt, run[r].env)
    BY <2>1, <2>3 DEF IdsFound, TokenFound
  <2>5. ~(Len(Distinct(run[r].env.ids)) > DEFAULT_MAX_RECIPIENTS)
    <3>1. run[r].env.ids \in Seq(STRING)
      BY <1>1, RunFields DEF EnvFile
    <3>2. Len(Distinct(run[r].env.ids)) \in Nat /\ DEFAULT_MAX_RECIPIENTS \in Nat
      BY <3>1, DistinctIds DEF DeliveryAssumption
    <3> QED BY <2>1, <3>2
  <2> QED BY <2>2, <2>3, <2>4, <2>5 DEF ChatsRefused
<1> QED BY <1>2, <1>3, <1>4

-----------------------------------------------------------------------------
\* Without overlap: a slot that is not the busy one is idle.
LEMMA OthersIdle ==
    ASSUME Ordered, NEW r \in Slots, run[r].pc # "idle"
    PROVE  \A q \in Slots \ {r} : run[q].pc = "idle"
BY DEF Ordered

\* A step of the one busy run that leaves the state as it is.
LEMMA OrderedStep ==
    ASSUME DeliveryAssumption, Honest, Ordered, NEW r \in Slots, NEW t \in RunState, Becomes(r, t),
           \A q \in Slots \ {r} : run[q].pc = "idle",
           ReadState' = ReadState, UNCHANGED <<clock, stateIno>>,
           stateIno # NoInode => content'[stateIno] = content[stateIno],
           evidence'.send = evidence.send \/ ReportIsRecorded(evidence'.send),
           SerialRun(r)'
    PROVE  Ordered'
<1>1. /\ run' \in [Slots -> RunState] /\ run'[r] = t
      /\ \A q \in Slots \ {r} : run'[q] = run[q]
  BY OneRunMoves DEF Honest, TypeInv
<1>2. \A q, p \in Slots : run'[q].pc # "idle" /\ run'[p].pc # "idle" => q = p
  BY <1>1
<1>3. stateIno' # NoInode => content'[stateIno'] # Torn
  BY DEF Ordered
<1>4. \A k \in AlertKeys : Recorded(k)' # NoEntry => Recorded(k)'.at <= clock'
  BY DEF Ordered, Recorded
<1>5. ASSUME NEW q \in Slots \ {r} PROVE SerialRun(q)'
  <2>1. run'[q] = run[q] /\ run[q].pc = "idle" /\ HonestRun(run[q], delivered) /\ SerialRun(q)
    BY <1>1 DEF Honest, HonestRuns, Ordered
  <2> QED BY <2>1 DEF SerialRun, HonestRun, Late, Writing
<1>6. ReportIsRecorded(evidence.send)'
  BY DEF Ordered, ReportIsRecorded, Recorded
<1> QED BY <1>2, <1>3, <1>4, <1>5, <1>6 DEF Ordered

\* Nothing is asked of a run that has just begun, or ended.
LEMMA OrderedIdle ==
    ASSUME DeliveryAssumption, Honest, Ordered, NEW r \in Slots, NEW t \in RunState, Becomes(r, t),
           t.pc \in {"idle", "preflight", "load"}, t.now <= clock, t.status # "deduped", ~t.updated,
           \A q \in Slots \ {r} : run[q].pc = "idle",
           UNCHANGED <<clock, content, stateIno, tempIno>>,
           evidence'.send = evidence.send \/ ReportIsRecorded(evidence'.send)
    PROVE  Ordered' /\ ReadState' = ReadState
<1>1. ReadState' = ReadState
  BY DEF ReadState
<1>2. run'[r] = t
  BY OneRunMoves DEF Honest, TypeInv
<1>3. SerialRun(r)'
  BY <1>2 DEF SerialRun, Late, Writing
<1> QED BY <1>1, <1>3, OrderedStep

\* A run that starts.
LEMMA OrderedStart ==
    ASSUME DeliveryAssumption, Serial, Honest, Ordered, NEW r \in Slots, NEW opt \in Options,
           NEW env \in EnvFiles, Start(r, opt, env)
    PROVE  Ordered' /\ ReadState' = ReadState
<1> DEFINE phase == IF opt.service THEN "preflight" ELSE "load"
           t == [NoRun EXCEPT !.pc = phase, !.opt = opt, !.env = env]
<1>1. opt \in Option /\ env \in EnvFile /\ phase \in {"preflight", "load"}
  BY DEF DeliveryAssumption
<1>2. NoRun \in RunState /\ NoRun.now = 0
  BY NoRunIsState
<1>3. NoRun.status = "none" /\ NoRun.updated = FALSE
  BY DEF NoRun
<1>4. /\ t \in RunState /\ t.pc = phase /\ t.status = NoRun.status /\ t.updated = NoRun.updated
      /\ t.now = NoRun.now
  BY <1>1, <1>2 DEF RunState, Phases
<1>5. Becomes(r, t) /\ UNCHANGED <<clock, content, stateIno, tempIno, evidence>>
      /\ \A q \in Slots : run[q].pc = "idle"
  BY DEF Start, Becomes
<1>6. 0 <= clock
  BY DEF Honest, TypeInv, DeliveryAssumption
<1> HIDE DEF t
<1> QED BY <1>1, <1>2, <1>3, <1>4, <1>5, <1>6, OrderedIdle

\* A run that ends, without a report or with one.
LEMMA OrderedEnd ==
    ASSUME DeliveryAssumption, Honest, Ordered, NEW r \in Slots, Refuse(r), run[r].pc # "idle",
           UNCHANGED <<clock, content, stateIno, tempIno>>,
           evidence'.send = evidence.send \/ ReportIsRecorded(evidence'.send)
    PROVE  Ordered' /\ ReadState' = ReadState
<1>1. /\ NoRun \in RunState /\ Becomes(r, NoRun) /\ NoRun.pc = "idle" /\ NoRun.now = 0
      /\ NoRun.status # "deduped" /\ ~NoRun.updated
  BY NoRunIsState DEF Refuse, Becomes, NoRun
<1>2. 0 <= clock
  BY DEF Honest, TypeInv, DeliveryAssumption
<1> QED BY <1>1, <1>2, OthersIdle, OrderedIdle

\* The preflight.
LEMMA OrderedPreflight ==
    ASSUME DeliveryAssumption, Honest, Ordered, NEW r \in Slots, Preflight(r)
    PROVE  Ordered' /\ ReadState' = ReadState
<1> DEFINE t == [run[r] EXCEPT !.pc = "load"]
<1>1. /\ UNCHANGED <<clock, content, stateIno, tempIno>> /\ run[r].pc = "preflight"
      /\ run[r] \in RunState /\ HonestRun(run[r], delivered) /\ SerialRun(r)
  BY DEF Preflight, Honest, TypeInv, HonestRuns, Ordered
<1>2. evidence'.send = evidence.send
  BY DEF Preflight, Honest, TypeInv, Evidence
<1>3. CASE evaluate_env_file(run[r].env) = "ok"
  <2>1. Becomes(r, t)
    BY <1>3 DEF Preflight, Becomes
  <2>2. /\ t \in RunState /\ t.pc = "load" /\ t.now = run[r].now
        /\ t.status = run[r].status /\ t.updated = run[r].updated
    BY <1>1 DEF RunState, Phases
  <2> HIDE DEF t
  <2>3. t.now <= clock /\ t.status # "deduped" /\ ~t.updated
    BY <1>1, <2>2 DEF HonestRun, SerialRun
  <2> QED BY <1>1, <1>2, <2>1, <2>2, <2>3, OthersIdle, OrderedIdle
<1>4. CASE evaluate_env_file(run[r].env) # "ok"
  <2>1. Refuse(r)
    BY <1>4 DEF Preflight
  <2> QED BY <1>1, <1>2, <2>1, OrderedEnd
<1> QED BY <1>3, <1>4

\* A run that reads its alert begins now: what the state records is of its past.
LEMMA OrderedLoad ==
    ASSUME DeliveryAssumption, Honest, Ordered, NEW r \in Slots, load_alert_payload(r)
    PROVE  Ordered' /\ ReadState' = ReadState
<1> DEFINE early == EarlyStatus(payload, run[r].opt, run[r].env)
           ids == IdsFound(run[r].opt, run[r].env)
           phase == IF early # "none" THEN "report" ELSE IF run[r].opt.dedupe THEN "state" ELSE "send"
           t == [run[r] EXCEPT !.alert = payload, !.chats = Distinct(ids),
                               !.now = clock, !.status = early, !.pc = phase]
<1>1. /\ run[r] \in RunState /\ HonestRun(run[r], delivered) /\ SerialRun(r)
      /\ run[r].pc = "load"
      /\ UNCHANGED <<clock, payload, content, stateIno, tempIno, evidence>>
  BY DEF Honest, TypeInv, HonestRuns, load_alert_payload, Ordered
<1>2. ReadState' = ReadState
  BY <1>1 DEF ReadState
<1>3. CASE payload = Torn \/ ChatsRefused(ids)
  <2>1. Refuse(r)
    BY <1>3 DEF load_alert_payload
  <2> QED BY <1>1, <2>1, OrderedEnd
<1>4. CASE ~(payload = Torn \/ ChatsRefused(ids))
  <2>1. Becomes(r, t)
    BY <1>4 DEF load_alert_payload, Becomes
  <2>2. /\ payload \in Payloads /\ clock \in Nat /\ ids \in Seq(STRING)
        /\ early \in {"skipped", "config_error", "preview", "none"}
    <3>1. payload \in Payloads /\ clock \in Nat
      BY <1>4 DEF Honest, TypeInv, DeliveryAssumption
    <3>2. run[r].opt \in Option /\ run[r].env \in EnvFile
      BY <1>1, RunFields
    <3> QED BY <3>1, <3>2, EarlyFacts
  <2>3. /\ phase \in {"report", "state", "send"} /\ (phase = "send" => ~run[r].opt.dedupe)
        /\ Distinct(ids) \in Seq(STRING)
    BY <2>2, DistinctIds
  <2> HIDE DEF phase, early, ids
  <2>4. /\ t \in RunState /\ t.pc = phase /\ t.opt = run[r].opt /\ t.status = early
        /\ t.updated = run[r].updated /\ t.now = clock
    BY <1>1, <2>2, <2>3 DEF RunState, Phases, Statuses
  <2> HIDE DEF t
  <2>5. run'[r] = t
    BY <2>1, <2>4, OneRunMoves DEF Honest, TypeInv
  <2>6. ~t.updated /\ t.status # "deduped" /\ t.pc \notin {"write", "replace"}
        /\ (t.pc \in Late => ~t.opt.dedupe)
    BY <1>1, <2>2, <2>3, <2>4 DEF HonestRun, Late, Writing
  <2>7. \A k \in AlertKeys : Recorded(k) # NoEntry => Recorded(k).at <= t.now
    BY <2>4 DEF Ordered
  <2>8. SerialRun(r)'
    BY <1>1, <1>2, <2>2, <2>4, <2>5, <2>6, <2>7 DEF SerialRun, Recorded
  <2> QED BY <1>1, <1>2, <2>1, <2>4, <2>8, OthersIdle, OrderedStep
<1> QED BY <1>3, <1>4

\* A run that reads the state.
LEMMA OrderedReads ==
    ASSUME DeliveryAssumption, Honest, Ordered, NEW r \in Slots, load_dedupe_state(r)
    PROVE  Ordered' /\ ReadState' = ReadState
<1> DEFINE s == ReadState
           key == run[r].alert.key
           active == ~run[r].opt.ignore /\ find_active_dedupe_entry(s.entry, key, run[r].now)
           t == [run[r] EXCEPT !.pc = "report", !.status = "deduped", !.matched = s.entry[key]]
           u == [run[r] EXCEPT !.pc = "send", !.base = s.entry]
<1>1. /\ run[r] \in RunState /\ HonestRun(run[r], delivered) /\ SerialRun(r)
      /\ run[r].pc = "state" /\ key \in AlertKeys
      /\ UNCHANGED <<clock, payload, content, stateIno, tempIno, evidence>>
  BY Kinds DEF Honest, TypeInv, HonestRuns, load_dedupe_state, Ordered, HonestRun
<1>2. ReadState' = ReadState
  BY <1>1 DEF ReadState
<1>3. ~run[r].updated /\ run[r].status # "deduped"
  BY <1>1 DEF HonestRun
<1>4. CASE s = Torn
  <2>1. Refuse(r)
    BY <1>4 DEF load_dedupe_state
  <2> QED BY <1>1, <2>1, OrderedEnd
<1>5. ASSUME s # Torn PROVE s.entry \in StateMap
  BY <1>5, ReadFacts
<1>6. CASE s # Torn /\ active
  <2>1. Becomes(r, t) /\ s.entry[key] # NoEntry
    BY <1>6 DEF load_dedupe_state, Becomes, find_active_dedupe_entry
  <2>2. s.entry[key] \in StateEntry
    BY <1>1, <1>5, <1>6 DEF StateMap
  <2>3. Recorded(key) # NoEntry
    BY <2>1 DEF Recorded
  <2> HIDE DEF s
  <2>4. /\ t \in RunState /\ t.pc = "report" /\ t.alert = run[r].alert /\ t.now = run[r].now
    BY <1>1, <2>2 DEF RunState, Phases, Statuses
  <2> HIDE DEF t
  <2>5. run'[r] = t
    BY <2>1, <2>4, OneRunMoves DEF Honest, TypeInv
  <2>6. SerialRun(r)'
    BY <1>1, <1>2, <2>3, <2>4, <2>5 DEF SerialRun, Recorded, Late, Writing
  <2> QED BY <1>1, <1>2, <2>1, <2>4, <2>6, OthersIdle, OrderedStep
<1>7. CASE s # Torn /\ ~active
  <2>1. Becomes(r, u) /\ s.entry \in StateMap
    BY <1>5, <1>7 DEF load_dedupe_state, Becomes
  <2>2. s.entry = ReadState.entry
    OBVIOUS
  <2> HIDE DEF s
  <2>3. /\ u \in RunState /\ u.pc = "send" /\ u.now = run[r].now /\ u.base = s.entry
        /\ u.status = run[r].status /\ u.updated = run[r].updated
    BY <1>1, <2>1 DEF RunState, Phases
  <2> HIDE DEF u
  <2>4. run'[r] = u
    BY <2>1, <2>3, OneRunMoves DEF Honest, TypeInv
  <2>5. SerialRun(r)'
    BY <1>1, <1>2, <1>3, <2>2, <2>3, <2>4 DEF SerialRun, Recorded, Late, Writing
  <2> QED BY <1>1, <1>2, <2>1, <2>3, <2>5, OthersIdle, OrderedStep
<1> QED BY <1>4, <1>6, <1>7

\* A message sent, or refused.
LEMMA OrderedSend ==
    ASSUME DeliveryAssumption, Honest, Ordered, NEW r \in Slots, NEW ok \in BOOLEAN,
           send_message(r, ok)
    PROVE  Ordered' /\ ReadState' = ReadState
<1> DEFINE results == Append(run[r].results, ok)
           last == Len(results) = Len(run[r].chats)
           all == AllSent(results)
           status == IF ~last THEN "none" ELSE IF all THEN "sent" ELSE "failed"
           phase == IF ~last THEN "send" ELSE IF all /\ run[r].opt.dedupe THEN "open" ELSE "report"
           t == [run[r] EXCEPT !.results = results, !.status = status, !.pc = phase]
<1>1. /\ run[r] \in RunState /\ HonestRun(run[r], delivered) /\ SerialRun(r)
      /\ run[r].pc = "send"
      /\ UNCHANGED <<clock, payload, content, stateIno, tempIno, evidence>> /\ Becomes(r, t)
  BY DEF Honest, TypeInv, HonestRuns, send_message, Ordered, Becomes
<1>2. ReadState' = ReadState
  BY <1>1 DEF ReadState
<1>3. /\ results \in Seq(BOOLEAN) /\ status \in Statuses \ {"deduped"}
      /\ phase \in {"send", "open", "report"}
  BY <1>1, RunFields DEF Statuses
<1> HIDE DEF results, status, phase
<1>4. /\ t \in RunState /\ t.pc = phase /\ t.opt = run[r].opt /\ t.base = run[r].base
      /\ t.status = status /\ t.updated = run[r].updated /\ t.now = run[r].now
  BY <1>1, <1>3 DEF RunState, Phases
<1> HIDE DEF t
<1>5. run'[r] = t
  BY <1>1, <1>4, OneRunMoves DEF Honest, TypeInv
<1>6. ~t.updated /\ t.status # "deduped"
  BY <1>1, <1>3, <1>4 DEF HonestRun
<1>7. SerialRun(r)'
  BY <1>1, <1>2, <1>3, <1>4, <1>5, <1>6 DEF SerialRun, Recorded, Late, Writing
<1> QED BY <1>1, <1>2, <1>4, <1>7, OthersIdle, OrderedStep

\* The temporary file is not the state.
LEMMA OrderedOpens ==
    ASSUME DeliveryAssumption, Honest, Ordered, NEW r \in Slots, OpenTemp(r)
    PROVE  Ordered' /\ ReadState' = ReadState
<1>1. /\ run[r] \in RunState /\ HonestRun(run[r], delivered) /\ SerialRun(r)
      /\ run[r].pc = "open"
  BY DEF Honest, TypeInv, HonestRuns, OpenTemp, Ordered
<1>2. PICK i \in Inodes :
         /\ IF tempIno # NoInode THEN i = tempIno
            ELSE i # stateIno /\ ~Open(i) /\ \A j \in Inodes : j < i => j = stateIno \/ Open(j)
         /\ tempIno' = i /\ content' = [content EXCEPT ![i] = Torn]
         /\ run' = [run EXCEPT ![r] = [@ EXCEPT !.pc = "write", !.ino = i]]
  BY DEF OpenTemp
<1> DEFINE t == [run[r] EXCEPT !.pc = "write", !.ino = i]
<1>3. UNCHANGED <<clock, stateIno, evidence>> /\ Becomes(r, t)
  BY <1>2 DEF OpenTemp, Becomes
<1>4. /\ t \in RunState /\ t.pc = "write" /\ t.opt = run[r].opt /\ t.base = run[r].base
      /\ t.status = run[r].status /\ t.updated = run[r].updated /\ t.now = run[r].now /\ t.ino = i
  BY <1>1 DEF RunState, Phases
<1> HIDE DEF t
<1>5. i # stateIno /\ i # NoInode
  BY <1>2, Kinds DEF Honest, TypeInv
<1>6. /\ content'[i] = Torn
      /\ stateIno # NoInode => content'[stateIno] = content[stateIno]
  BY <1>2, <1>5 DEF Honest, TypeInv
<1>7. ReadState' = ReadState
  BY <1>3, <1>6 DEF ReadState
<1>8. run'[r] = t /\ ~t.updated /\ t.status # "deduped"
  BY <1>1, <1>3, <1>4, OneRunMoves DEF Honest, TypeInv, HonestRun
<1>9. SerialRun(r)'
  BY <1>1, <1>2, <1>3, <1>4, <1>5, <1>6, <1>7, <1>8 DEF SerialRun, Recorded, Late, Writing
<1> QED BY <1>1, <1>3, <1>4, <1>6, <1>7, <1>9, OthersIdle, OrderedStep

\* Nobody else has written to the temporary file: it holds the new state.
LEMMA OrderedWrites ==
    ASSUME DeliveryAssumption, Honest, Ordered, NEW r \in Slots, WriteTemp(r)
    PROVE  Ordered' /\ ReadState' = ReadState
<1> DEFINE t == [run[r] EXCEPT !.pc = "replace"]
<1>1. /\ run[r] \in RunState /\ HonestRun(run[r], delivered) /\ SerialRun(r)
      /\ run[r].pc = "write" /\ Becomes(r, t)
      /\ UNCHANGED <<clock, payload, stateIno, tempIno, evidence>>
  BY DEF Honest, TypeInv, HonestRuns, WriteTemp, Ordered, Becomes
<1>2. /\ t \in RunState /\ t.pc = "replace" /\ t.opt = run[r].opt /\ t.base = run[r].base
      /\ t.status = run[r].status /\ t.updated = run[r].updated /\ t.now = run[r].now
      /\ t.alert = run[r].alert /\ t.chats = run[r].chats
  BY <1>1 DEF RunState, Phases
<1> HIDE DEF t
<1>3. run[r].ino = tempIno /\ tempIno # NoInode /\ content[tempIno] = Torn /\ tempIno # stateIno
      /\ tempIno \in Inodes /\ run[r].opt.dedupe
  BY <1>1 DEF SerialRun, HonestRun, Honest, TypeInv, Writing
<1>4. content' = [content EXCEPT ![tempIno] = Entries(update_dedupe_state(r))]
  BY <1>3 DEF WriteTemp
<1>5. /\ content'[tempIno] = Entries(update_dedupe_state(r))
      /\ stateIno # NoInode => content'[stateIno] = content[stateIno]
  BY <1>3, <1>4 DEF Honest, TypeInv
<1>6. ReadState' = ReadState
  BY <1>1, <1>5 DEF ReadState
<1>7. run'[r] = t /\ ~t.updated /\ t.status # "deduped"
  BY <1>1, <1>2, OneRunMoves DEF Honest, TypeInv, HonestRun
<1>8. update_dedupe_state(r)' = update_dedupe_state(r)
  BY <1>2, <1>7 DEF update_dedupe_state
<1>9. SerialRun(r)'
  <2>1. content'[tempIno'] = Entries(update_dedupe_state(r)')
    BY <1>1, <1>5, <1>8
  <2> QED BY <1>1, <1>2, <1>3, <1>6, <1>7, <2>1 DEF SerialRun, Recorded, Late, Writing
<1> QED BY <1>1, <1>2, <1>5, <1>6, <1>9, OthersIdle, OrderedStep

\* The state only grows: the run that replaces it has read what it still was.
Remembers ==
    \A k \in AlertKeys : Recorded(k) # NoEntry =>
        Recorded(k)' # NoEntry /\ Recorded(k).at <= Recorded(k)'.at
LEMMA OrderedReplaces ==
    ASSUME DeliveryAssumption, Honest, Ordered, NEW r \in Slots, Replace(r)
    PROVE  /\ Ordered' /\ Remembers
           /\ ReadState'.entry = update_dedupe_state(r)
           /\ run[r].opt.dedupe /\ run[r].base = ReadState.entry
<1> DEFINE t == [run[r] EXCEPT !.pc = "report", !.updated = TRUE]
           key == run[r].alert.key
<1>1. /\ run[r] \in RunState /\ HonestRun(run[r], delivered) /\ SerialRun(r)
      /\ run[r].pc = "replace" /\ run[r].pc \in Writing
      /\ UNCHANGED <<clock, payload, evidence>>
  BY DEF Honest, TypeInv, HonestRuns, Replace, Ordered, Writing
<1>2. /\ tempIno \in Inodes /\ tempIno # NoInode /\ tempIno # stateIno
      /\ content[tempIno] = Entries(update_dedupe_state(r))
      /\ run[r].opt.dedupe /\ run[r].base = ReadState.entry
  BY <1>1 DEF SerialRun, HonestRun, Honest, TypeInv, Late, Writing
<1>3. /\ stateIno' = tempIno /\ tempIno' = NoInode /\ Becomes(r, t)
      /\ content' = [i \in Inodes |-> IF i = stateIno /\ ~Open(i) THEN Torn ELSE content[i]]
  BY <1>2 DEF Replace, Becomes
<1>4. content'[stateIno'] = Entries(update_dedupe_state(r))
  BY <1>2, <1>3
<1>5. ReadState' = Entries(update_dedupe_state(r)) /\ stateIno' # NoInode
      /\ ReadState' # Torn /\ ReadState'.entry = update_dedupe_state(r)
  BY <1>2, <1>3, <1>4, Kinds DEF ReadState
<1>6. /\ key \in AlertKeys /\ run[r].now \in Nat
      /\ \A k \in AlertKeys : Recorded(k)' =
           IF k = key THEN [at |-> run[r].now, chats |-> run[r].chats] ELSE Recorded(k)
  <2>1. \A k \in AlertKeys : update_dedupe_state(r)[k] =
          IF k = key THEN [at |-> run[r].now, chats |-> run[r].chats] ELSE run[r].base[k]
    BY <1>1, WritingFacts
  <2> QED BY <1>1, <1>2, <1>5, <2>1, WritingFacts, RunFields DEF Recorded
<1> DEFINE e == [at |-> run[r].now, chats |-> run[r].chats]
<1>7. e # NoEntry /\ e.at = run[r].now
  BY Kinds
<1> HIDE DEF e
<1>8. ReadState.entry \in StateMap /\ \A k \in AlertKeys : Recorded(k) \in StateEntry
  BY <1>1, <1>2, RunFields DEF Recorded, StateMap
<1>9. Remembers
  <2>1. ASSUME NEW k \in AlertKeys, Recorded(k) # NoEntry
        PROVE  Recorded(k)' # NoEntry /\ Recorded(k).at <= Recorded(k)'.at
    <3>1. Recorded(k).at \in Nat /\ Recorded(k).at <= run[r].now
      BY <1>1, <1>8, <2>1 DEF SerialRun, Late, Writing, StateEntry
    <3>2. Recorded(k)' = IF k = key THEN e ELSE Recorded(k)
      BY <1>6 DEF e
    <3> QED BY <1>7, <2>1, <3>1, <3>2
  <2> QED BY <2>1 DEF Remembers
<1>10. /\ t \in RunState /\ t.pc = "report" /\ t.now = run[r].now /\ t.alert = run[r].alert
  BY <1>1 DEF RunState, Phases
<1> HIDE DEF t
<1>11. run' \in [Slots -> RunState] /\ run'[r] = t /\ \A q \in Slots \ {r} : run'[q] = run[q]
  BY <1>3, <1>10, OneRunMoves DEF Honest, TypeInv
<1>12. \A q \in Slots \ {r} : run[q].pc = "idle"
  BY <1>1, OthersIdle
<1>13. Ordered'
  <2>1. \A q, p \in Slots : run'[q].pc # "idle" /\ run'[p].pc # "idle" => q = p
    BY <1>11, <1>12
  <2>2. content'[stateIno'] # Torn
    BY <1>4, Kinds
  <2>3. \A k \in AlertKeys : Recorded(k)' # NoEntry => Recorded(k)'.at <= clock'
    <3>1. run[r].now <= clock
      BY <1>1 DEF SerialRun
    <3>2. \A k \in AlertKeys : Recorded(k)' = IF k = key THEN e ELSE Recorded(k)
      BY <1>6 DEF e
    <3> QED BY <1>1, <1>7, <3>1, <3>2 DEF Ordered
  <2>4. SerialRun(r)'
    <3>1. run'[r].alert.key = key /\ run'[r].now <= clock'
      BY <1>1, <1>10, <1>11 DEF SerialRun
    <3>2. ReadState'.entry[key] = e
      BY <1>6 DEF e, Recorded
    <3>3. Recorded(run[r].alert.key)' # NoEntry
      BY <1>7, <3>1, <3>2 DEF Recorded
    <3> QED BY <1>10, <1>11, <3>1, <3>3 DEF SerialRun, Late, Writing
  <2>5. ASSUME NEW q \in Slots \ {r} PROVE SerialRun(q)'
    <3>1. run'[q] = run[q] /\ run[q].pc = "idle" /\ HonestRun(run[q], delivered) /\ SerialRun(q)
      BY <1>11, <1>12 DEF Honest, HonestRuns, Ordered
    <3> QED BY <1>1, <3>1 DEF SerialRun, HonestRun, Late, Writing
  <2>6. ReportIsRecorded(evidence.send)'
    <3>1. evidence.send # NoReport => evidence.send.key \in AlertKeys
      BY DEF Honest, TypeInv, Evidence, SendReport
    <3>2. \A k \in AlertKeys : Recorded(k) # NoEntry => Recorded(k)' # NoEntry
      BY <1>9 DEF Remembers
    <3>3. ReportIsRecorded(evidence.send) /\ evidence' = evidence
      BY <1>1 DEF Ordered
    <3> QED BY <3>1, <3>2, <3>3 DEF ReportIsRecorded, Recorded
  <2> QED BY <2>1, <2>2, <2>3, <2>4, <2>5, <2>6 DEF Ordered
<1> QED BY <1>2, <1>5, <1>9, <1>13

\* Writing the state fails.
LEMMA OrderedFails ==
    ASSUME DeliveryAssumption, Honest, Ordered, NEW r \in Slots, StateError(r)
    PROVE  Ordered' /\ ReadState' = ReadState
<1> DEFINE t == [run[r] EXCEPT !.pc = "report", !.status = "state_error"]
<1>1. /\ run[r] \in RunState /\ HonestRun(run[r], delivered) /\ SerialRun(r)
      /\ run[r].pc \in Writing /\ Becomes(r, t)
      /\ UNCHANGED <<clock, content, stateIno, tempIno, evidence>>
  BY DEF Honest, TypeInv, HonestRuns, StateError, Ordered, Writing, Becomes
<1>2. /\ t \in RunState /\ t.pc = "report" /\ t.status = "state_error"
      /\ t.updated = run[r].updated /\ t.now = run[r].now
  BY <1>1 DEF RunState, Phases, Statuses
<1> HIDE DEF t
<1>3. run'[r] = t /\ ~t.updated /\ ReadState' = ReadState /\ run[r].pc # "idle"
  BY <1>1, <1>2, OneRunMoves DEF Honest, TypeInv, HonestRun, ReadState, Writing
<1>4. SerialRun(r)'
  BY <1>1, <1>2, <1>3 DEF SerialRun, Recorded, Late, Writing
<1> QED BY <1>1, <1>2, <1>3, <1>4, OthersIdle, OrderedStep

\* The report of a delivery or of a suppressed alert is of a key that the state has.
LEMMA OrderedReports ==
    ASSUME DeliveryAssumption, Honest, Ordered, NEW r \in Slots, write_json_report(r)
    PROVE  Ordered' /\ ReadState' = ReadState
<1> DEFINE report == Report(r, run[r].status, run[r].updated)
<1>1. /\ run[r].pc = "report" /\ SerialRun(r) /\ Refuse(r)
      /\ UNCHANGED <<clock, content, stateIno, tempIno>>
  BY DEF write_json_report, Ordered, Refuse
<1>2. report.status = run[r].status /\ report.updated = run[r].updated
      /\ report.key = run[r].alert.key
  BY DEF Report
<1> HIDE DEF report
<1>3. ReportIsRecorded(report)
  BY <1>1, <1>2 DEF SerialRun, ReportIsRecorded
<1>4. evidence'.send = evidence.send \/ ReportIsRecorded(evidence'.send)
  <2>1. evidence' = IF run[r].opt.service THEN [evidence EXCEPT !.send = report] ELSE evidence
    BY DEF write_json_report, report
  <2> QED BY <1>3, <2>1 DEF Honest, TypeInv, Evidence
<1> QED BY <1>1, <1>4, OrderedEnd

\* What no run does.
LEMMA OrderedOthers ==
    ASSUME DeliveryAssumption, Honest, Ordered,
           \/ TruncatePayload \/ (\E p \in Payloads : WritePayload(p)) \/ Tick
           \/ UNCHANGED alertVars
    PROVE  Ordered' /\ ReadState' = ReadState
<1>1. UNCHANGED <<content, stateIno, tempIno, run, evidence>>
  BY DEF TruncatePayload, WritePayload, Tick, alertVars
<1>2. clock \in Nat /\ clock' \in Nat /\ clock <= clock'
  BY DEF Honest, TypeInv, DeliveryAssumption, TruncatePayload, WritePayload, Tick, alertVars
<1>3. ReadState' = ReadState
  BY <1>1 DEF ReadState
<1>4. \A k \in AlertKeys : Recorded(k)' # NoEntry => Recorded(k)'.at <= clock'
  <2>1. ASSUME NEW k \in AlertKeys, Recorded(k) # NoEntry PROVE Recorded(k).at \in Nat
    <3>1. ReadState.entry \in StateMap
      <4>1. ReadState # Torn
        BY Kinds DEF Ordered, ReadState
      <4> QED BY <4>1, ReadFacts
    <3> QED BY <2>1, <3>1 DEF Recorded, StateMap, StateEntry
  <2> QED BY <1>2, <1>3, <2>1 DEF Ordered, Recorded
<1>5. ASSUME NEW r \in Slots PROVE SerialRun(r)'
  <2>1. SerialRun(r) /\ run[r].now \in Nat
    BY RunFields DEF Ordered, Honest, TypeInv
  <2>2. update_dedupe_state(r)' = update_dedupe_state(r)
    BY <1>1 DEF update_dedupe_state
  <2>3. run[r].now <= clock'
    BY <1>2, <2>1 DEF SerialRun
  <2> QED BY <1>1, <1>3, <2>1, <2>2, <2>3 DEF SerialRun, Recorded
<1>6. ReportIsRecorded(evidence.send)'
  BY <1>1, <1>3 DEF Ordered, ReportIsRecorded, Recorded
<1> QED BY <1>1, <1>3, <1>4, <1>5, <1>6 DEF Ordered

\* While runs do not overlap every step keeps the order, and forgets nothing.
LEMMA OrderedKept ==
    ASSUME DeliveryAssumption, Serial, Honest, Ordered, [AlertNext]_alertVars
    PROVE  Ordered' /\ Remembers
<1>1. ASSUME ReadState' = ReadState PROVE Remembers
  <2>1. ReadState # Torn
    BY Kinds DEF Ordered, ReadState
  <2>2. \A k \in AlertKeys : Recorded(k) \in StateEntry
    BY <2>1, ReadFacts DEF Recorded, StateMap
  <2> QED BY <1>1, <2>2 DEF Remembers, Recorded, StateEntry
<1>2. CASE \/ TruncatePayload \/ (\E p \in Payloads : WritePayload(p)) \/ Tick
           \/ UNCHANGED alertVars
  BY <1>1, <1>2, OrderedOthers
<1>3. ASSUME NEW r \in Slots, NEW opt \in Options, NEW env \in EnvFiles, Start(r, opt, env)
      PROVE  Ordered' /\ Remembers
  BY <1>1, <1>3, OrderedStart
<1>4. ASSUME NEW r \in Slots, RunStep(r) PROVE Ordered' /\ Remembers
  BY <1>1, <1>4, OrderedPreflight, OrderedLoad, OrderedReads, OrderedSend, OrderedOpens,
     OrderedWrites, OrderedReplaces, OrderedReports DEF RunStep
<1>5. ASSUME NEW r \in Slots, StateError(r) PROVE Ordered' /\ Remembers
  BY <1>1, <1>5, OrderedFails
<1>6. ASSUME NEW r \in Slots, Crash(r) PROVE Ordered' /\ Remembers
  BY <1>1, <1>6, OrderedEnd DEF Crash
<1> QED BY <1>2, <1>3, <1>4, <1>5, <1>6 DEF AlertNext

\* What the order shows: the state can be read, and evidence the verifier accepts is of a
\* delivery.
LEMMA OrderedIsEnough ==
    ASSUME DeliveryAssumption, Honest, Ordered
    PROVE  StateStaysReadable /\ VerifiedEvidenceIsReal
<1>1. ReadState # Torn
  BY Kinds DEF Ordered, ReadState
<1>2. ReadState.entry \in StateMap /\ TruthfulMap(ReadState.entry, delivered)
  BY <1>1, ReadFacts
<1>3. VerifiedEvidenceIsReal
  <2> DEFINE report == evidence.send
             key == report.key
             e == ReadState.entry[key]
  <2>1. SUFFICES ASSUME verify_service_evidence = "ok"
                 PROVE  /\ e # NoEntry
                        /\ \A chat \in ToSet(e.chats) : \E m \in delivered : m.chat = chat /\ m.key = key
    BY DEF VerifiedEvidenceIsReal
  <2>2. validate_delivery(report) = "ok"
    BY <2>1 DEF verify_service_evidence
  <2>3. /\ report.status # "missing"
        /\ (report.status = "sent" /\ report.updated) \/ report.status = "deduped"
    <3> HIDE DEF report
    <3> QED BY <2>2 DEF validate_delivery, validate_sent_delivery
  <2>4. report # NoReport
    BY <2>3 DEF NoReport
  <2>5. key \in AlertKeys /\ e # NoEntry
    BY <2>3, <2>4 DEF Ordered, ReportIsRecorded, Recorded, Honest, TypeInv, Evidence, SendReport
  <2>6. Truthful(key, e, delivered)
    BY <1>2, <2>5 DEF TruthfulMap
  <2> HIDE DEF e, key
  <2>7. ASSUME NEW chat \in ToSet(e.chats) PROVE \E m \in delivered : m.chat = chat /\ m.key = key
    <3> DEFINE m == [chat |-> chat, key |-> key, at |-> e.at]
    <3>1. m \in delivered /\ m.chat = chat /\ m.key = key
      BY <2>6 DEF Truthful
    <3> HIDE DEF m
    <3> QED BY <3>1
  <2> QED BY <2>5, <2>7
<1> QED BY <1>1, <1>3 DEF StateStaysReadable

-----------------------------------------------------------------------------
\* A step of a run that sends nothing and leaves the state: it was not about to send, or
\* it goes on with the same alert.
LEMMA QuietStep ==
    ASSUME DeliveryAssumption, Honest, NoneRepeated, NEW r \in Slots, NEW t \in RunState,
           Becomes(r, t), \A q \in Slots \ {r} : run[q].pc = "idle",
           delivered' = delivered, ReadState' = ReadState,
           run[r].pc \in Late => t.pc \in Late /\ t.alert = run[r].alert /\ t.now = run[r].now,
           t.pc \in Late => Due(t)
    PROVE  NoneRepeated'
<1>1. run'[r] = t /\ \A q \in Slots \ {r} : run'[q] = run[q]
  BY OneRunMoves DEF Honest, TypeInv
<1>2. ASSUME NEW m \in delivered PROVE OnRecord(m)' \/ \E q \in Slots : Underway(run'[q], m)
  <2>1. CASE OnRecord(m)
    BY <2>1 DEF OnRecord, Recorded
  <2>2. CASE \E q \in Slots : Underway(run[q], m)
    <3>1. Underway(run[r], m)
      BY <2>2 DEF Underway, Late, Writing
    <3>2. Underway(run'[r], m)
      BY <1>1, <3>1 DEF Underway
    <3> QED BY <3>2
  <2> QED BY <2>1, <2>2 DEF NoneRepeated
<1>3. \A q \in Slots : run'[q].pc \in Late => Due(run'[q])
  BY <1>1 DEF Late, Writing
<1>4. NoRepeatWithinTtl'
  BY DEF NoneRepeated, NoRepeatWithinTtl
<1> QED BY <1>2, <1>3, <1>4 DEF NoneRepeated

\* A run that starts, or ends with nothing under way.
LEMMA QuietIdle ==
    ASSUME DeliveryAssumption, Honest, NoneRepeated, NEW r \in Slots, NEW t \in RunState,
           Becomes(r, t), \A q \in Slots \ {r} : run[q].pc = "idle",
           delivered' = delivered, ReadState' = ReadState,
           run[r].pc \notin Late, t.pc \notin Late
    PROVE  NoneRepeated'
BY QuietStep

\* Steps before the first message.
LEMMA QuietStart ==
    ASSUME DeliveryAssumption, Serial, Honest, Ordered, NoneRepeated, NEW r \in Slots,
           NEW opt \in Options, NEW env \in EnvFiles, Start(r, opt, env)
    PROVE  NoneRepeated'
<1> DEFINE phase == IF opt.service THEN "preflight" ELSE "load"
           t == [NoRun EXCEPT !.pc = phase, !.opt = opt, !.env = env]
<1>1. opt \in Option /\ env \in EnvFile /\ phase \in {"preflight", "load"}
  BY DEF DeliveryAssumption
<1>2. NoRun \in RunState
  BY NoRunIsState
<1>3. t \in RunState /\ t.pc = phase
  BY <1>1, <1>2 DEF RunState, Phases
<1>4. /\ Becomes(r, t) /\ delivered' = delivered
      /\ \A q \in Slots : run[q].pc = "idle"
      /\ ReadState' = ReadState
  BY OrderedStart DEF Start, Becomes
<1> HIDE DEF t
<1> QED BY <1>1, <1>3, <1>4, QuietIdle DEF Late, Writing

\* A run that ends while it sends nothing.
LEMMA QuietEnd ==
    ASSUME DeliveryAssumption, Honest, Ordered, NoneRepeated, NEW r \in Slots, Refuse(r),
           run[r].pc # "idle", run[r].pc \notin Late,
           delivered' = delivered, ReadState' = ReadState
    PROVE  NoneRepeated'
<1>1. NoRun \in RunState /\ Becomes(r, NoRun) /\ NoRun.pc \notin Late
  BY NoRunIsState DEF Refuse, Becomes, NoRun, Late, Writing
<1> QED BY <1>1, OthersIdle, QuietIdle

\* The preflight.
LEMMA QuietPreflight ==
    ASSUME DeliveryAssumption, Honest, Ordered, NoneRepeated, NEW r \in Slots, Preflight(r)
    PROVE  NoneRepeated'
<1> DEFINE t == [run[r] EXCEPT !.pc = "load"]
<1>1. run[r] \in RunState /\ run[r].pc = "preflight" /\ delivered' = delivered
      /\ ReadState' = ReadState /\ run[r].pc \notin Late
  BY OrderedPreflight DEF Preflight, Honest, TypeInv, Late, Writing
<1>2. CASE evaluate_env_file(run[r].env) = "ok"
  <2>1. Becomes(r, t)
    BY <1>2 DEF Preflight, Becomes
  <2>2. t \in RunState /\ t.pc = "load"
    BY <1>1 DEF RunState, Phases
  <2> HIDE DEF t
  <2> QED BY <1>1, <2>1, <2>2, OthersIdle, QuietIdle DEF Late, Writing
<1>3. CASE evaluate_env_file(run[r].env) # "ok"
  BY <1>1, <1>3, QuietEnd DEF Preflight
<1> QED BY <1>2, <1>3

\* Nobody sends without a look at the state.
LEMMA QuietLoad ==
    ASSUME DeliveryAssumption, AllDedupe, Honest, Ordered, NoneRepeated, NEW r \in Slots,
           load_alert_payload(r)
    PROVE  NoneRepeated'
<1> DEFINE early == EarlyStatus(payload, run[r].opt, run[r].env)
           ids == IdsFound(run[r].opt, run[r].env)
           phase == IF early # "none" THEN "report" ELSE IF run[r].opt.dedupe THEN "state" ELSE "send"
           t == [run[r] EXCEPT !.alert = payload, !.chats = Distinct(ids),
                               !.now = clock, !.status = early, !.pc = phase]
<1>1. /\ run[r] \in RunState /\ HonestRun(run[r], delivered) /\ run[r].pc = "load"
      /\ delivered' = delivered /\ ReadState' = ReadState /\ run[r].pc \notin Late
  BY OrderedLoad DEF Honest, TypeInv, HonestRuns, load_alert_payload, Late, Writing
<1>2. CASE payload = Torn \/ ChatsRefused(ids)
  BY <1>1, <1>2, QuietEnd DEF load_alert_payload
<1>3. CASE ~(payload = Torn \/ ChatsRefused(ids))
  <2>1. Becomes(r, t)
    BY <1>3 DEF load_alert_payload, Becomes
  <2>2. /\ payload \in Payloads /\ clock \in Nat
        /\ run[r].opt \in Option /\ run[r].env \in EnvFile
    BY <1>1, <1>3, RunFields DEF Honest, TypeInv, DeliveryAssumption
  <2>3. Distinct(ids) \in Seq(STRING)
    BY <2>2, EarlyFacts, DistinctIds
  <2>4. /\ early \in {"skipped", "config_error", "preview", "none"}
        /\ early = "none" => run[r].opt.send
    BY <2>2, EarlyFacts
  <2>5. early = "none" => run[r].opt.dedupe
    BY <1>1, <2>4 DEF AllDedupe, HonestRun
  <2>6. phase \in {"report", "state"}
    BY <2>5
  <2> HIDE DEF phase, early, ids
  <2>7. t \in RunState /\ t.pc = phase
    BY <1>1, <2>2, <2>3, <2>4, <2>6 DEF RunState, Phases, Statuses
  <2> HIDE DEF t
  <2> QED BY <1>1, <2>1, <2>6, <2>7, OthersIdle, QuietIdle DEF Late, Writing
<1> QED BY <1>2, <1>3

\* What a run goes on to send is due: its key has no entry, or an old one.
LEMMA QuietReads ==
    ASSUME DeliveryAssumption, AllDedupe, Honest, Ordered, NoneRepeated, NEW r \in Slots,
           load_dedupe_state(r)
    PROVE  NoneRepeated'
<1> DEFINE s == ReadState
           key == run[r].alert.key
           active == ~run[r].opt.ignore /\ find_active_dedupe_entry(s.entry, key, run[r].now)
           t == [run[r] EXCEPT !.pc = "report", !.status = "deduped", !.matched = s.entry[key]]
           u == [run[r] EXCEPT !.pc = "send", !.base = s.entry]
<1>1. /\ run[r] \in RunState /\ HonestRun(run[r], delivered) /\ SerialRun(r)
      /\ run[r].pc = "state" /\ run[r].pc \notin Late /\ key \in AlertKeys
      /\ delivered' = delivered /\ ReadState' = ReadState
  BY Kinds, OrderedReads DEF Honest, TypeInv, HonestRuns, load_dedupe_state, Ordered, HonestRun,
     Late, Writing
<1>2. CASE s = Torn
  BY <1>1, <1>2, QuietEnd DEF load_dedupe_state
<1>3. ASSUME s # Torn PROVE s.entry \in StateMap
  BY <1>3, ReadFacts
<1>4. CASE s # Torn /\ active
  <2>1. Becomes(r, t)
    BY <1>4 DEF load_dedupe_state, Becomes
  <2>2. s.entry[key] \in StateEntry
    BY <1>1, <1>3, <1>4 DEF StateMap
  <2> HIDE DEF s
  <2>3. t \in RunState /\ t.pc = "report"
    BY <1>1, <2>2 DEF RunState, Phases, Statuses
  <2> HIDE DEF t
  <2> QED BY <1>1, <2>1, <2>3, OthersIdle, QuietIdle DEF Late, Writing
<1>5. CASE s # Torn /\ ~active
  <2>1. Becomes(r, u) /\ s.entry \in StateMap
    BY <1>3, <1>5 DEF load_dedupe_state, Becomes
  <2>2. run[r].opt.dedupe /\ ~run[r].opt.ignore /\ run[r].results = <<>>
    BY <1>1 DEF HonestRun, AllDedupe, Reading
  <2>3. ASSUME s.entry[key] # NoEntry PROVE s.entry[key].at + Ttl <= run[r].now
    <3> DEFINE at == s.entry[key].at
    <3>1. at \in Nat /\ run[r].now \in Nat /\ Ttl \in Nat
      BY <1>1, <2>1, <2>3, RunFields DEF StateMap, StateEntry, DeliveryAssumption
    <3>2. at <= run[r].now
      BY <1>1, <2>3 DEF SerialRun, Recorded
    <3>3. ~((IF run[r].now < at THEN 0 ELSE run[r].now - at) < Ttl)
      BY <1>5, <2>2, <2>3 DEF find_active_dedupe_entry
    <3> HIDE DEF at
    <3> QED BY <3>1, <3>2, <3>3 DEF at
  <2> HIDE DEF s
  <2>4. /\ u \in RunState /\ u.pc = "send" /\ u.now = run[r].now /\ u.base = s.entry
        /\ u.alert = run[r].alert /\ u.opt = run[r].opt /\ u.results = run[r].results
    BY <1>1, <2>1 DEF RunState, Phases
  <2> HIDE DEF u
  <2>5. Due(u)
    BY <2>2, <2>3, <2>4 DEF Due, AllSent
  <2> QED BY <1>1, <2>1, <2>4, <2>5, OthersIdle, QuietStep
<1> QED BY <1>2, <1>4, <1>5

\* Steps that write the state, up to its replacement.
LEMMA QuietWrites ==
    ASSUME DeliveryAssumption, Honest, Ordered, NoneRepeated, NEW r \in Slots,
           OpenTemp(r) \/ WriteTemp(r)
    PROVE  NoneRepeated'
<1>1. /\ run[r] \in RunState /\ run[r].pc \in {"open", "write"} /\ Due(run[r])
      /\ delivered' = delivered /\ ReadState' = ReadState
  BY OrderedOpens, OrderedWrites DEF OpenTemp, WriteTemp, Honest, TypeInv, NoneRepeated, Late, Writing
<1>2. PICK t \in RunState :
        /\ Becomes(r, t) /\ t.pc \in {"write", "replace"} /\ t.alert = run[r].alert
        /\ t.now = run[r].now /\ t.opt = run[r].opt /\ t.results = run[r].results
        /\ t.base = run[r].base
  <2>1. CASE OpenTemp(r)
    <3>1. PICK i \in Inodes : run' = [run EXCEPT ![r] = [@ EXCEPT !.pc = "write", !.ino = i]]
      BY <2>1 DEF OpenTemp
    <3> DEFINE t == [run[r] EXCEPT !.pc = "write", !.ino = i]
    <3>2. /\ t \in RunState /\ Becomes(r, t) /\ t.pc = "write" /\ t.alert = run[r].alert
          /\ t.now = run[r].now /\ t.opt = run[r].opt /\ t.results = run[r].results
          /\ t.base = run[r].base
      BY <1>1, <3>1 DEF RunState, Phases, Becomes
    <3> HIDE DEF t
    <3> QED BY <3>2
  <2>2. CASE WriteTemp(r)
    <3> DEFINE t == [run[r] EXCEPT !.pc = "replace"]
    <3>1. /\ t \in RunState /\ Becomes(r, t) /\ t.pc = "replace" /\ t.alert = run[r].alert
          /\ t.now = run[r].now /\ t.opt = run[r].opt /\ t.results = run[r].results
          /\ t.base = run[r].base
      BY <1>1, <2>2 DEF WriteTemp, RunState, Phases, Becomes
    <3> HIDE DEF t
    <3> QED BY <3>1
  <2> QED BY <2>1, <2>2
<1>3. Due(t)
  BY <1>1, <1>2 DEF Due
<1>4. run[r].pc # "idle" /\ t.pc \in Late
  BY <1>1, <1>2 DEF Late, Writing
<1> QED BY <1>1, <1>2, <1>3, <1>4, OthersIdle, QuietStep

\* The state that replaces the old one has every message of the run.
LEMMA QuietReplaces ==
    ASSUME DeliveryAssumption, Honest, Ordered, NoneRepeated, NEW r \in Slots, Replace(r)
    PROVE  NoneRepeated'
<1> DEFINE t == [run[r] EXCEPT !.pc = "report", !.updated = TRUE]
           e == [at |-> run[r].now, chats |-> run[r].chats]
<1>1. /\ run[r] \in RunState /\ SerialRun(r) /\ run[r].pc = "replace" /\ run[r].pc \in Writing
      /\ run[r].pc # "idle" /\ delivered' = delivered
  BY DEF Honest, TypeInv, Replace, Ordered, Writing
<1>2. Becomes(r, t)
  BY <1>1 DEF Replace, SerialRun, Becomes
<1>3. t \in RunState /\ t.pc = "report"
  BY <1>1 DEF RunState, Phases
<1> HIDE DEF t
<1>4. run'[r] = t /\ \A q \in Slots \ {r} : run'[q] = run[q] /\ run[q].pc = "idle"
  BY <1>1, <1>2, <1>3, OneRunMoves, OthersIdle DEF Honest, TypeInv
<1>5. /\ Remembers /\ ReadState'.entry = update_dedupe_state(r)
      /\ run[r].alert.key \in AlertKeys /\ run[r].now \in Nat
      /\ update_dedupe_state(r)[run[r].alert.key] = e
  BY <1>1, OrderedReplaces, WritingFacts, RunFields
<1>6. e # NoEntry /\ e.at = run[r].now
  BY Kinds
<1> HIDE DEF e
<1>7. ASSUME NEW m \in delivered PROVE OnRecord(m)'
  <2>1. m.key \in AlertKeys /\ m.at \in Nat
    BY DEF Honest, TypeInv, Sent
  <2>2. CASE OnRecord(m)
    <3>1. ReadState # Torn
      BY Kinds DEF Ordered, ReadState
    <3>2. Recorded(m.key) \in StateEntry
      BY <2>1, <3>1, ReadFacts DEF Recorded, StateMap
    <3>3. Recorded(m.key).at \in Nat /\ m.at <= Recorded(m.key).at
      BY <2>2, <3>2 DEF OnRecord, StateEntry
    <3>4. ReadState'.entry[m.key] # NoEntry /\ Recorded(m.key).at <= ReadState'.entry[m.key].at
      BY <1>5, <2>1, <2>2 DEF Remembers, OnRecord, Recorded
    <3>5. ReadState'.entry[m.key].at \in Nat
      <4>1. update_dedupe_state(r) \in StateMap
        BY <1>1, WritingFacts
      <4> QED BY <1>5, <2>1, <3>4, <4>1 DEF StateMap, StateEntry
    <3> QED BY <2>1, <3>3, <3>4, <3>5 DEF OnRecord, Recorded
  <2>3. CASE \E q \in Slots : Underway(run[q], m)
    <3>1. Underway(run[r], m)
      BY <1>4, <2>3 DEF Underway, Late, Writing
    <3> QED BY <1>5, <1>6, <3>1 DEF Underway, OnRecord, Recorded
  <2> QED BY <2>2, <2>3 DEF NoneRepeated
<1>8. \A q \in Slots : run'[q].pc \notin Late
  BY <1>3, <1>4 DEF Late, Writing
<1>9. NoRepeatWithinTtl'
  BY <1>1 DEF NoneRepeated, NoRepeatWithinTtl
<1> QED BY <1>1, <1>7, <1>8, <1>9 DEF NoneRepeated

\* A message is sent only when every earlier one to its chat is out of the window.
LEMMA QuietSend ==
    ASSUME DeliveryAssumption, Honest, Ordered, NoneRepeated, NEW r \in Slots,
           send_message(r, TRUE)
    PROVE  NoneRepeated'
<1> DEFINE results == Append(run[r].results, TRUE)
           last == Len(results) = Len(run[r].chats)
           all == AllSent(results)
           status == IF ~last THEN "none" ELSE IF all THEN "sent" ELSE "failed"
           phase == IF ~last THEN "send" ELSE IF all /\ run[r].opt.dedupe THEN "open" ELSE "report"
           t == [run[r] EXCEPT !.results = results, !.status = status, !.pc = phase]
           key == run[r].alert.key
           now == run[r].now
<1>1. /\ run[r] \in RunState /\ HonestRun(run[r], delivered) /\ SerialRun(r) /\ Due(run[r])
      /\ run[r].pc = "send" /\ run[r].pc \in Late /\ run[r].pc # "idle" /\ Becomes(r, t)
      /\ delivered' = delivered \cup {Message(r)}
  BY DEF Honest, TypeInv, HonestRuns, send_message, Ordered, NoneRepeated, Becomes, Late
<1>2. ReadState' = ReadState
  BY OrderedSend
<1>3. /\ key \in AlertKeys /\ now \in Nat /\ run[r].results \in Seq(BOOLEAN)
      /\ Message(r).key = key /\ Message(r).at = now
  BY <1>1, Kinds, RunFields DEF HonestRun, Late, Message
<1>4. results \in Seq(BOOLEAN) /\ AllSent(results)
  BY <1>1, <1>3 DEF Due, AllSent
<1>5. run[r].opt.dedupe
  BY <1>1 DEF Due
<1>6. phase \in {"send", "open"} /\ status \in Statuses
  BY <1>4, <1>5 DEF Statuses
<1> HIDE DEF results, status, phase
<1>7. /\ t \in RunState /\ t.pc = phase /\ t.opt = run[r].opt /\ t.base = run[r].base
      /\ t.alert = run[r].alert /\ t.now = now /\ t.results = results
  BY <1>1, <1>4, <1>6 DEF RunState, Phases
<1> HIDE DEF t
<1>8. run'[r] = t /\ \A q \in Slots \ {r} : run'[q] = run[q] /\ run[q].pc = "idle"
  BY <1>1, <1>7, OneRunMoves, OthersIdle DEF Honest, TypeInv
<1>9. t.pc \in Late /\ Due(t)
  BY <1>1, <1>4, <1>6, <1>7 DEF Due, Late, Writing
<1>10. \A q \in Slots : run'[q].pc \in Late => Due(run'[q])
  BY <1>8, <1>9 DEF Late, Writing
<1>11. ASSUME NEW m \in delivered
       PROVE  OnRecord(m) \/ (m.key = key /\ m.at = now)
  <2>1. OnRecord(m) \/ \E q \in Slots : Underway(run[q], m)
    BY DEF NoneRepeated
  <2> QED BY <1>8, <2>1 DEF Underway, Late, Writing
<1>12. ASSUME NEW m \in delivered'
       PROVE  OnRecord(m)' \/ \E q \in Slots : Underway(run'[q], m)
  <2>1. CASE m \in delivered /\ OnRecord(m)
    BY <1>2, <2>1 DEF OnRecord, Recorded
  <2>2. CASE m.key = key /\ m.at = now
    <3>1. Underway(run'[r], m)
      BY <1>7, <1>8, <1>9, <2>2 DEF Underway
    <3> QED BY <3>1
  <2> QED BY <1>1, <1>3, <1>11, <2>1, <2>2
<1>13. ASSUME NEW m \in delivered, m.key = key
       PROVE  m.at = now \/ (m.at < now /\ m.at + Ttl <= now)
  <2>1. m.at \in Nat /\ Ttl \in Nat \ {0}
    BY DEF Honest, TypeInv, Sent, DeliveryAssumption
  <2>2. CASE OnRecord(m)
    <3> DEFINE at == run[r].base[key].at
    <3>1. run[r].base = ReadState.entry /\ run[r].base[key] \in StateEntry
      BY <1>1, <1>3, <1>5, RunFields DEF SerialRun, StateMap
    <3>2. run[r].base[key] # NoEntry /\ m.at <= at
      BY <1>13, <2>2, <3>1 DEF OnRecord, Recorded
    <3>3. at \in Nat /\ at + Ttl <= now
      BY <1>1, <3>1, <3>2 DEF Due, StateEntry
    <3> HIDE DEF at, now
    <3>4. now \in Nat
      BY <1>3 DEF now
    <3> QED BY <2>1, <3>2, <3>3, <3>4
  <2> QED BY <1>11, <2>2
<1>14. NoRepeatWithinTtl'
  <2>1. SUFFICES ASSUME NEW m \in delivered', NEW n \in delivered',
                        m.chat = n.chat, m.key = n.key, m.at < n.at
                 PROVE  m.at + Ttl <= n.at
    BY DEF NoRepeatWithinTtl
  <2>2. CASE m \in delivered /\ n \in delivered
    BY <2>1, <2>2 DEF NoneRepeated, NoRepeatWithinTtl
  <2>3. CASE m \in delivered /\ n = Message(r)
    <3>1. m.key = key /\ n.at = now /\ m.at \in Nat
      BY <1>3, <2>1, <2>3 DEF Honest, TypeInv, Sent
    <3>2. m.at # now
      BY <1>3, <2>1, <3>1
    <3> QED BY <1>13, <2>3, <3>1, <3>2
  <2>4. CASE m = Message(r) /\ n \in delivered
    <3>1. n.key = key /\ m.at = now /\ n.at \in Nat
      BY <1>3, <2>1, <2>4 DEF Honest, TypeInv, Sent
    <3>2. n.at <= now
      BY <1>3, <1>13, <2>4, <3>1
    <3> QED BY <1>3, <2>1, <3>1, <3>2
  <2>5. CASE m = Message(r) /\ n = Message(r)
    BY <1>3, <2>1, <2>5
  <2> QED BY <1>1, <2>2, <2>3, <2>4, <2>5
<1> QED BY <1>10, <1>12, <1>14 DEF NoneRepeated

\* While nothing fails no step sends an alert again within its window.
LEMMA NoneRepeatedKept ==
    ASSUME DeliveryAssumption, Calm, Honest, Ordered, NoneRepeated, [AlertNext]_alertVars
    PROVE  NoneRepeated'
<1>1. Serial /\ ~MayFail /\ ~MayCrash /\ AllDedupe
  BY DEF Calm
<1>2. CASE \/ TruncatePayload \/ (\E p \in Payloads : WritePayload(p)) \/ Tick
           \/ UNCHANGED alertVars
  <2>1. UNCHANGED <<run, delivered>> /\ ReadState' = ReadState
    BY <1>2, OrderedOthers DEF TruncatePayload, WritePayload, Tick, alertVars
  <2> QED BY <2>1 DEF NoneRepeated, OnRecord, Recorded, NoRepeatWithinTtl
<1>3. ASSUME NEW r \in Slots, NEW opt \in Options, NEW env \in EnvFiles, Start(r, opt, env)
      PROVE  NoneRepeated'
  BY <1>1, <1>3, QuietStart
<1>4. ASSUME NEW r \in Slots, RunStep(r) PROVE NoneRepeated'
  <2>1. ASSUME NEW ok \in BOOLEAN, send_message(r, ok) PROVE NoneRepeated'
    <3>1. ok = TRUE
      BY <1>1, <2>1 DEF send_message
    <3> QED BY <2>1, <3>1, QuietSend
  <2>2. ASSUME write_json_report(r) PROVE NoneRepeated'
    <3>1. Refuse(r) /\ run[r].pc # "idle" /\ run[r].pc \notin Late /\ delivered' = delivered
      BY <2>2 DEF write_json_report, Refuse, Late, Writing
    <3> QED BY <2>2, <3>1, OrderedReports, QuietEnd
  <2> QED BY <1>1, <1>4, <2>1, <2>2, QuietPreflight, QuietLoad, QuietReads, QuietWrites,
           QuietReplaces DEF RunStep
<1>5. ASSUME NEW r \in Slots, StateError(r) \/ Crash(r) PROVE NoneRepeated'
  BY <1>1, <1>5 DEF StateError, Crash
<1> QED BY <1>2, <1>3, <1>4, <1>5 DEF AlertNext

-----------------------------------------------------------------------------
\* Before the first alert there is nothing to be false.
LEMMA AlertInvInit ==
    ASSUME DeliveryAssumption, AlertInit
    PROVE  AlertInv
<1>1. /\ \A r \in Slots : run[r] = NoRun
      /\ stateIno = NoInode /\ tempIno = NoInode /\ clock = 0 /\ delivered = {}
      /\ content = [i \in Inodes |-> Torn] /\ payload = Torn
      /\ evidence = [env |-> "missing", send |-> NoReport]
      /\ run = [r \in Slots |-> NoRun]
  BY DEF AlertInit
<1>2. NoRun \in RunState /\ NoRun.pc = "idle" /\ NoRun.now = 0
  BY NoRunIsState
<1>3. HonestRun(NoRun, delivered)
  <2>1. TruthfulMap(new_dedupe_state, delivered)
    BY Kinds DEF TruthfulMap
  <2> QED BY <2>1 DEF NoRun, HonestRun, Writing, Late, Reading, AllSent
<1>4. TypeInv
  BY <1>1, <1>2 DEF TypeInv, Evidence, DeliveryAssumption
<1>5. Honest
  BY <1>1, <1>3, <1>4 DEF Honest, HonestRuns, HonestFiles
<1>6. ReadState = Entries(new_dedupe_state) /\ \A k \in AlertKeys : Recorded(k) = NoEntry
  BY <1>1, Kinds DEF ReadState, Recorded
<1>7. Ordered
  <2>1. NoRun.status # "deduped" /\ ~NoRun.updated
    BY DEF NoRun
  <2> QED BY <1>1, <1>2, <1>6, <2>1 DEF Ordered, SerialRun, ReportIsRecorded, Late, Writing
<1>8. NoneRepeated
  BY <1>1, <1>2 DEF NoneRepeated, NoRepeatWithinTtl, Late, Writing
<1> QED BY <1>5, <1>7, <1>8 DEF AlertInv

\* The invariant is kept by every step.
LEMMA AlertInvKept ==
    ASSUME DeliveryAssumption, AlertInv, [AlertNext]_alertVars
    PROVE  AlertInv'
<1>1. Honest'
  BY HonestKept DEF AlertInv
<1>2. Serial => Ordered'
  BY OrderedKept DEF AlertInv
<1>3. Calm => NoneRepeated'
  BY NoneRepeatedKept DEF AlertInv, Calm
<1> QED BY <1>1, <1>2, <1>3 DEF AlertInv, Calm, AllDedupe

\* Nothing but a delivery silences an alert, for any runs, command lines, env files and
\* crashes; without overlap the state is readable and evidence is real; and while nothing
\* fails nobody gets an alert twice within the window (server_alert_telegram.py).
THEOREM AlertsCorrect ==
    ASSUME DeliveryAssumption
    PROVE  AlertSpec => []AlertsAreTrue
<1>1. AlertInit => AlertInv
  BY AlertInvInit
<1>2. AlertInv /\ [AlertNext]_alertVars => AlertInv'
  BY AlertInvKept
<1>3. AlertInv => AlertsAreTrue
  BY HonestIsEnough, OrderedIsEnough DEF AlertInv, AlertsAreTrue, Calm, NoneRepeated
<1> QED BY <1>1, <1>2, <1>3, PTL DEF AlertSpec

\* While runs do not overlap no run forgets a recorded delivery or puts an older one in its
\* place, whatever run dies or fails (update_dedupe_state, write_json_atomic).
THEOREM RememberedCorrect ==
    ASSUME DeliveryAssumption, Serial
    PROVE  AlertSpec => [][RememberedStays]_alertVars
<1>1. AlertInit => AlertInv
  BY AlertInvInit
<1>2. AlertInv /\ [AlertNext]_alertVars => AlertInv'
  BY AlertInvKept
<1>3. AlertInv /\ [AlertNext]_alertVars => [RememberedStays]_alertVars
  BY OrderedKept DEF AlertInv, Remembers, RememberedStays, Recorded
<1> QED BY <1>1, <1>2, <1>3, PTL DEF AlertSpec

-----------------------------------------------------------------------------
\* What an inode holds, and the types of the backups' state.
BackupFile == [kind : {"file"}, snap : [Tables -> Nat], len : Nat, mtime : Nat, born : Nat]
SymbolicLink == [kind : {"link"}, target : Names, mtime : Nat, born : {Absent}]
Inode == BackupFile \cup SymbolicLink
Sweeping == [pc : {"delete", "unlink"}, cutoff : Int, candidates : SUBSET Names,
             name : Names, seen : Nat]
BackupTypes ==
    /\ time \in 1 .. MaxTime /\ db \in [Tables -> Nat]
    /\ files \in Seq(Inode) /\ dir \in [Names -> 0 .. Len(files)]
    /\ backup \in {Resting} \cup [pc : {"dump"}, name : Names, ino : 1 .. Len(files)]
    /\ sweep \in {Resting} \cup Sweeping
    /\ restore \in {Resting} \cup [pc : {"psql", "ok", "failed"}, name : Names,
                                   ino : 1 .. Len(files), n : Nat, whole : BOOLEAN]
    /\ written \subseteq 1 .. Len(files) /\ aimed \subseteq Names
    /\ deleted \subseteq [name : Names, kind : {"file", "link"}, mtime : Nat, cutoff : Int, late : BOOLEAN]

\* No inode has two names, a backup that was not aimed at its name has that of the second it
\* was begun in, and was last written to since.
DirInv ==
    /\ \A m, n \in Names : dir[m] = dir[n] /\ dir[m] # NoFile => m = n
    /\ \A n \in Names : n \notin aimed /\ Regular(n) => files[dir[n]].born = n
    /\ \A i \in 1 .. Len(files) :
          files[i].kind = "file" => files[i].born <= files[i].mtime /\ files[i].mtime <= time

\* A link leads to a file or to nothing.
LinkInv == \A n \in Names : Linked(n) => ~Linked(files[dir[n]].target)

\* The dump under way is no older than the retention, and has its name unless a link took it.
DumpInv ==
    backup.pc = "dump" =>
        /\ files[backup.ino].kind = "file"
        /\ time - RETENTION <= files[backup.ino].mtime
        /\ backup.name \notin aimed =>
              dir[backup.name] = backup.ino \/ Linked(backup.name)

\* What was reported as written is whole, and nobody writes to it.
WrittenInv ==
    \A w \in written :
        /\ files[w].kind = "file" /\ files[w].len = Pieces
        /\ backup.pc = "dump" => backup.ino # w

\* A candidate of a sweep at which no backup was aimed and that is still a file is as old as
\* it was at the scan, and not the one under way; one that was looked at again is a link only
\* if that was put there since.
SweepInv ==
    /\ sweep.pc \in {"delete", "unlink"} =>
        /\ sweep.cutoff <= time - RETENTION
        /\ \A c \in sweep.candidates : c \notin aimed =>
              /\ c < time /\ (Regular(c) => files[dir[c]].mtime < sweep.cutoff)
              /\ backup.pc = "dump" => backup.name # c
    /\ sweep.pc = "unlink" =>
        /\ sweep.name \in sweep.candidates /\ sweep.seen <= Len(files)
        /\ Linked(sweep.name) => dir[sweep.name] > sweep.seen

\* A backup that was deleted, and at which none was aimed, was old or a late link, and no file
\* has its name again.
DeletedInv ==
    \A d \in deleted :
        /\ d.kind = "link" => d.late
        /\ d.name \notin aimed =>
              (d.kind = "file" => d.mtime < d.cutoff) /\ d.name < time /\ ~Regular(d.name)

\* A restore of a backup that was written reads a whole dump to which nobody writes,
\* and the tables whose rows it has read hold them, or later ones.
RestoreInv ==
    /\ restore.pc \in {"psql", "ok"} => files[restore.ino].kind = "file"
    /\ restore.pc \in {"psql", "ok"} /\ restore.whole /\ restore.name \notin aimed =>
        /\ \A n \in Names : dir[n] = restore.ino => n = restore.name
        /\ files[restore.ino].len = Pieces
        /\ backup.pc = "dump" => backup.ino # restore.ino
        /\ restore.n <= Pieces /\ (restore.pc = "ok" => restore.n = Pieces)
        /\ \A t \in Tables : files[restore.ino].snap[t] # Absent /\ NTables + t <= restore.n =>
                                db[t] >= files[restore.ino].snap[t]

BackupInv ==
    BackupTypes /\ DirInv /\ LinkInv /\ DumpInv /\ WrittenInv /\ SweepInv /\ DeletedInv /\ RestoreInv

-----------------------------------------------------------------------------
\* What the types say of the values the steps look at.
LEMMA BackupFacts ==
    ASSUME BackupAssumption, BackupTypes
    PROVE  /\ time \in Nat /\ time \in Names /\ EXPLICIT \in Names
           /\ NTables \in Nat /\ RETENTION \in Nat /\ RETENTION > 0 /\ Pieces \in Nat /\ Len(files) \in Nat
           /\ \A n \in Names : n \in Nat /\ (dir[n] # NoFile => dir[n] \in 1 .. Len(files))
           /\ \A i \in 1 .. Len(files) :
                 /\ files[i] \in Inode /\ files[i].mtime \in Nat /\ files[i].born \in Nat
                 /\ files[i].kind = "file" => files[i] \in BackupFile
           /\ backup.pc = "dump" => backup.name \in Names /\ backup.ino \in 1 .. Len(files)
           /\ sweep.pc \in {"delete", "unlink"} => sweep.cutoff \in Int
                 /\ sweep.candidates \in SUBSET Names /\ sweep.name \in Names /\ sweep.seen \in Nat
           /\ restore.pc \in {"psql", "ok"} => restore.name \in Names
                 /\ restore.ino \in 1 .. Len(files) /\ restore.n \in Nat /\ restore.whole \in BOOLEAN
           /\ \A d \in deleted : d.name \in Names /\ d.mtime \in Nat /\ d.cutoff \in Int
<1> USE DEF BackupAssumption, BackupTypes
<1>1. /\ time \in Nat /\ time \in Names /\ EXPLICIT \in Names
      /\ NTables \in Nat /\ RETENTION \in Nat /\ RETENTION > 0 /\ Pieces \in Nat
  BY DEF Names, EXPLICIT, Pieces
<1>2. Len(files) \in Nat /\ \A i \in 1 .. Len(files) : files[i] \in Inode
  OBVIOUS
<1>3. \A n \in Names : n \in Nat /\ (dir[n] # NoFile => dir[n] \in 1 .. Len(files))
  <2>1. \A n \in Names : n \in Nat /\ dir[n] \in 0 .. Len(files)
    BY <1>1 DEF Names, EXPLICIT
  <2> QED BY <1>2, <2>1 DEF NoFile
<1>4. ASSUME NEW i \in 1 .. Len(files)
      PROVE  /\ files[i].mtime \in Nat /\ files[i].born \in Nat
             /\ files[i].kind = "file" => files[i] \in BackupFile
  <2>1. files[i] \in BackupFile \/ files[i] \in SymbolicLink
    BY <1>2 DEF Inode
  <2> QED BY <2>1 DEF BackupFile, SymbolicLink, Absent
<1>5. backup.pc = "dump" => backup.name \in Names /\ backup.ino \in 1 .. Len(files)
  BY DEF Resting
<1>6. sweep.pc \in {"delete", "unlink"} => sweep.cutoff \in Int
        /\ sweep.candidates \in SUBSET Names /\ sweep.name \in Names /\ sweep.seen \in Nat
  BY DEF Resting, Sweeping
<1>7. restore.pc \in {"psql", "ok"} => restore.name \in Names
        /\ restore.ino \in 1 .. Len(files) /\ restore.n \in Nat /\ restore.whole \in BOOLEAN
  BY DEF Resting
<1>8. \A d \in deleted : d.name \in Names /\ d.mtime \in Nat /\ d.cutoff \in Int
  OBVIOUS
<1> QED BY <1>1, <1>2, <1>3, <1>4, <1>5, <1>6, <1>7, <1>8

\* The path of a name ends at a name that is no link.
LEMMA PathEnds ==
    ASSUME BackupAssumption, BackupTypes, LinkInv, NEW name \in Names
    PROVE  resolve(name) \in Names /\ ~Linked(resolve(name))
<1>1. CASE Linked(name)
  <2>1. files[dir[name]] \in SymbolicLink
    <3>1. files[dir[name]] \in Inode
      BY <1>1, BackupFacts DEF Linked
    <3> QED BY <1>1, <3>1 DEF Inode, BackupFile, Linked
  <2> QED BY <1>1, <2>1 DEF resolve, SymbolicLink, LinkInv
<1>2. CASE ~Linked(name)
  BY <1>2 DEF resolve
<1> QED BY <1>1, <1>2

\* A file more leaves the files there are as they were.
LEMMA FileAdded ==
    ASSUME files \in Seq(Inode), NEW f \in Inode, files' = Append(files, f)
    PROVE  /\ files' \in Seq(Inode) /\ Len(files') = Len(files) + 1
           /\ files'[Len(files) + 1] = f /\ \A i \in 1 .. Len(files) : files'[i] = files[i]
  OBVIOUS

\* Writing to a file leaves the other files as they were.
LEMMA FileWritten ==
    ASSUME files \in Seq(Inode), NEW ino \in 1 .. Len(files), NEW f \in Inode,
           files' = [files EXCEPT ![ino] = f]
    PROVE  /\ files' \in Seq(Inode) /\ Len(files') = Len(files)
           /\ files'[ino] = f /\ \A i \in 1 .. Len(files) : i # ino => files'[i] = files[i]
  OBVIOUS

\* A step that leaves the files alone can disturb the types and the restore only.
LEMMA FilesUntouched ==
    ASSUME BackupInv, UNCHANGED <<time, dir, files, backup, sweep, written, aimed, deleted>>,
           BackupTypes', RestoreInv'
    PROVE  BackupInv' /\ WrittenStays
<1>1. DirInv' /\ LinkInv' /\ DumpInv' /\ WrittenInv' /\ SweepInv' /\ DeletedInv'
  BY DEF BackupInv, DirInv, LinkInv, DumpInv, WrittenInv, SweepInv, DeletedInv, Regular, Linked
<1>2. WrittenStays
  BY DEF WrittenStays
<1> QED BY <1>1, <1>2 DEF BackupInv

\* A step of the sweep that leaves the files alone can disturb its own invariant only.
LEMMA OnlySweepMoves ==
    ASSUME BackupInv, UNCHANGED <<time, db, dir, files, backup, restore, written, aimed, deleted>>,
           sweep' \in {Resting} \cup Sweeping, SweepInv'
    PROVE  BackupInv' /\ WrittenStays
<1>1. BackupTypes'
  BY DEF BackupInv, BackupTypes
<1>2. DirInv' /\ LinkInv' /\ DumpInv' /\ WrittenInv' /\ DeletedInv' /\ RestoreInv' /\ WrittenStays
  BY DEF BackupInv, DirInv, LinkInv, DumpInv, WrittenInv, DeletedInv, RestoreInv, Regular, Linked,
         WrittenStays
<1> QED BY <1>1, <1>2 DEF BackupInv

\* What everybody but the scripts does: the database is written to or made anew.
LEMMA WritesKeep ==
    ASSUME BackupAssumption, BackupInv, Write \/ RecreateDatabase
    PROVE  BackupInv' /\ WrittenStays
<1>1. UNCHANGED <<time, dir, files, backup, sweep, restore, written, aimed, deleted>>
  BY DEF Write, RecreateDatabase
<1>2. BackupTypes /\ RestoreInv
  BY DEF BackupInv
<1>3. db' \in [Tables -> Nat]
  <2>1. db \in [Tables -> Nat]
    BY <1>2 DEF BackupTypes
  <2> QED BY <2>1 DEF Write, RecreateDatabase, Absent
<1>4. BackupTypes'
  BY <1>1, <1>2, <1>3 DEF BackupTypes
<1>5. CASE Write
  <2>1. \A t \in Tables : db[t] # Absent => db'[t] >= db[t]
    BY <1>2, <1>5 DEF Write, BackupTypes
  <2>2. RestoreInv'
    <3> SUFFICES ASSUME restore.pc \in {"psql", "ok"}, restore.whole, restore.name \notin aimed
                 PROVE  RestoreInv'
      BY <1>1, <1>2 DEF RestoreInv
    <3>1. restore.ino \in 1 .. Len(files) /\ files[restore.ino] \in BackupFile
      BY <1>2, BackupFacts DEF RestoreInv
    <3>2. ASSUME NEW t \in Tables, files[restore.ino].snap[t] # Absent, NTables + t <= restore.n
          PROVE  db'[t] >= files[restore.ino].snap[t]
      <4>1. files[restore.ino].snap[t] \in Nat /\ db[t] \in Nat /\ db'[t] \in Nat
        BY <1>2, <1>3, <3>1 DEF BackupFile, BackupTypes
      <4>2. db[t] >= files[restore.ino].snap[t]
        BY <1>2, <3>2 DEF RestoreInv
      <4> QED BY <2>1, <3>2, <4>1, <4>2 DEF Absent
    <3> QED BY <1>1, <1>2, <3>2 DEF RestoreInv
  <2> QED BY <1>1, <1>4, <2>2, FilesUntouched
<1>6. CASE RecreateDatabase
  <2>1. RestoreInv'
    BY <1>1, <1>6 DEF RecreateDatabase, RestoreInv
  <2> QED BY <1>1, <1>4, <2>1, FilesUntouched
<1> QED BY <1>5, <1>6

\* A restore begins with a whole file if it is one that was reported as written.
LEMMA RestoreBeginsKeeps ==
    ASSUME BackupAssumption, BackupInv, NEW name \in Names, run_restore(name)
    PROVE  BackupInv' /\ WrittenStays
<1> DEFINE path == restore_path(name)
<1>1. /\ UNCHANGED <<time, db, dir, files, backup, sweep, written, aimed, deleted>>
      /\ Regular(path)
      /\ restore' = [pc |-> "psql", name |-> path, ino |-> dir[path], n |-> 0,
                     whole |-> dir[path] \in written]
  BY DEF run_restore
<1>2. BackupTypes /\ DirInv /\ LinkInv /\ WrittenInv
  BY DEF BackupInv
<1>3. path \in Names
  BY <1>2, PathEnds DEF restore_path
<1>4. dir[path] \in 1 .. Len(files)
  BY <1>1, <1>2, <1>3, BackupFacts DEF Regular
<1> HIDE DEF path
<1>5. BackupTypes'
  <2>1. (dir[path] \in written) \in BOOLEAN
    OBVIOUS
  <2>2. restore' \in [pc : {"psql", "ok", "failed"}, name : Names,
                      ino : 1 .. Len(files), n : Nat, whole : BOOLEAN]
    BY <1>1, <1>3, <1>4, <2>1
  <2> QED BY <1>1, <1>2, <2>2 DEF BackupTypes
<1>6. RestoreInv'
  <2>0. files'[restore'.ino].kind = "file"
    BY <1>1 DEF Regular
  <2> SUFFICES ASSUME dir[path] \in written, path \notin aimed
               PROVE  RestoreInv'
    BY <1>1, <2>0 DEF RestoreInv
  <2>1. \A n \in Names : dir[n] = dir[path] => n = path
    BY <1>1, <1>2, <1>3, BackupFacts DEF DirInv, Regular
  <2>2. /\ files[dir[path]].kind = "file" /\ files[dir[path]].len = Pieces
        /\ backup.pc = "dump" => backup.ino # dir[path]
    BY <1>2 DEF WrittenInv
  <2>3. \A t \in Tables : ~(NTables + t <= 0)
    BY <1>2, BackupFacts DEF Tables
  <2>4. 0 <= Pieces
    BY <1>2, BackupFacts
  <2> QED BY <1>1, <2>0, <2>1, <2>2, <2>3, <2>4 DEF RestoreInv
<1> QED BY <1>1, <1>5, <1>6, FilesUntouched

\* A piece of the dump is refused, or makes its table or fills it.
LEMMA RestorePieceKeeps ==
    ASSUME BackupAssumption, BackupInv, RestorePiece
    PROVE  BackupInv' /\ WrittenStays
<1> DEFINE n == restore.n + 1
           rows == files[restore.ino].snap
<1>1. /\ UNCHANGED <<time, dir, files, backup, sweep, written, aimed, deleted>>
      /\ restore.pc = "psql" /\ restore.n < files[restore.ino].len
  BY DEF RestorePiece
<1>2. BackupTypes /\ RestoreInv
  BY DEF BackupInv
<1>3. restore \in [pc : {"psql", "ok", "failed"}, name : Names,
                   ino : 1 .. Len(files), n : Nat, whole : BOOLEAN]
  BY <1>1, <1>2 DEF BackupTypes, Resting
<1>4. CASE Refused(n, rows)
  <2>1. db' = db /\ restore' = [restore EXCEPT !.pc = "failed"]
    BY <1>4 DEF RestorePiece
  <2>2. BackupTypes'
    BY <1>1, <1>2, <1>3, <2>1 DEF BackupTypes
  <2>3. RestoreInv'
    BY <1>3, <2>1 DEF RestoreInv
  <2> QED BY <1>1, <2>2, <2>3, FilesUntouched
<1>5. CASE ~Refused(n, rows)
  <2>1. db' = Applied(n, rows) /\ restore' = [restore EXCEPT !.n = n]
    BY <1>5 DEF RestorePiece
  <2>2. files[restore.ino] \in BackupFile
    BY <1>1, <1>2, <1>3, BackupFacts DEF RestoreInv
  <2>3. rows \in [Tables -> Nat] /\ db \in [Tables -> Nat] /\ NTables \in Nat /\ n \in Nat
    <3>1. rows \in [Tables -> Nat]
      BY <2>2 DEF BackupFile
    <3>2. db \in [Tables -> Nat]
      BY <1>2 DEF BackupTypes
    <3>3. NTables \in Nat
      BY <1>2, BackupFacts
    <3>4. n \in Nat
      BY <1>3
    <3> QED BY <3>1, <3>2, <3>3, <3>4
  <2> HIDE DEF rows
  <2>4. db' \in [Tables -> Nat]
    <3>1. CASE rows[TableOf(n)] = Absent
      BY <2>1, <2>3, <3>1 DEF Applied
    <3>2. CASE rows[TableOf(n)] # Absent /\ TableOf(n) \in Tables
      BY <2>1, <2>3, <3>2 DEF Applied, Empty
    <3>3. CASE rows[TableOf(n)] # Absent /\ TableOf(n) \notin Tables
      BY <2>1, <2>3, <3>3 DEF Applied
    <3> QED BY <3>1, <3>2, <3>3
  <2>5. BackupTypes'
    <3>1. restore' \in [pc : {"psql", "ok", "failed"}, name : Names,
                        ino : 1 .. Len(files), n : Nat, whole : BOOLEAN]
      BY <1>3, <2>1, <2>3
    <3> QED BY <1>1, <1>2, <2>4, <3>1 DEF BackupTypes
  <2>6. ASSUME restore.whole, restore.name \notin aimed
        PROVE  /\ n <= Pieces
               /\ \A t \in Tables : rows[t] # Absent /\ NTables + t <= n => db'[t] >= rows[t]
    <3>1. /\ files[restore.ino].len = Pieces
          /\ \A t \in Tables : rows[t] # Absent /\ NTables + t <= restore.n => db[t] >= rows[t]
      BY <1>1, <1>2, <2>6 DEF RestoreInv, rows
    <3>2. n <= Pieces
      BY <1>1, <1>3, <2>3, <3>1 DEF Pieces
    <3>3. ASSUME NEW t \in Tables, rows[t] # Absent, NTables + t <= n
          PROVE  db'[t] >= rows[t]
      <4>0. t \in 1 .. NTables
        BY DEF Tables
      <4>1. ~(n <= NTables)
        BY <2>3, <3>3, <4>0
      <4>2. CASE NTables + t = n
        <5>1. TableOf(n) = t
          BY <2>3, <4>0, <4>1, <4>2 DEF TableOf
        <5>2. db' = [db EXCEPT ![t] = rows[t]]
          BY <2>1, <3>3, <4>1, <5>1 DEF Applied
        <5> QED BY <2>3, <5>2
      <4>3. CASE NTables + t # n
        <5>1. NTables + t <= restore.n
          BY <1>3, <2>3, <3>3, <4>0, <4>3
        <5>2. TableOf(n) # t
          BY <2>3, <4>0, <4>1, <4>3 DEF TableOf
        <5>3. db'[t] = db[t]
          BY <2>1, <2>3, <5>2 DEF Applied
        <5> QED BY <3>1, <3>3, <5>1, <5>3
      <4> QED BY <4>2, <4>3
    <3> QED BY <3>2, <3>3
  <2>7. RestoreInv'
    BY <1>1, <1>2, <1>3, <2>1, <2>6 DEF RestoreInv, rows
  <2> QED BY <1>1, <2>5, <2>7, FilesUntouched
<1> QED BY <1>4, <1>5

\* A restore that is over has come to the end of the file, or died.
LEMMA RestoreEndsKeeps ==
    ASSUME BackupAssumption, BackupInv, RestoreDies \/ RestoreExits \/ CloseRestore
    PROVE  BackupInv' /\ WrittenStays
<1>1. UNCHANGED <<time, db, dir, files, backup, sweep, written, aimed, deleted>>
  BY DEF RestoreDies, RestoreExits, CloseRestore
<1>2. BackupTypes /\ RestoreInv
  BY DEF BackupInv
<1>3. CASE CloseRestore
  <2>1. restore' = Resting
    BY <1>3 DEF CloseRestore
  <2> QED BY <1>1, <1>2, <2>1, FilesUntouched DEF BackupTypes, RestoreInv, Resting
<1>4. CASE RestoreDies \/ RestoreExits
  <2>1. restore \in [pc : {"psql", "ok", "failed"}, name : Names,
                     ino : 1 .. Len(files), n : Nat, whole : BOOLEAN] /\ restore.pc = "psql"
    BY <1>2, <1>4 DEF BackupTypes, Resting, RestoreDies, RestoreExits
  <2>2. PICK pc \in {"ok", "failed"} : /\ restore' = [restore EXCEPT !.pc = pc]
                                       /\ pc = "ok" => restore.n = files[restore.ino].len
    BY <1>4 DEF RestoreDies, RestoreExits
  <2>3. BackupTypes'
    BY <1>1, <1>2, <2>1, <2>2 DEF BackupTypes
  <2>4. RestoreInv'
    BY <1>1, <1>2, <2>1, <2>2 DEF RestoreInv
  <2> QED BY <1>1, <2>3, <2>4, FilesUntouched
<1> QED BY <1>3, <1>4

\* What passes with time: only the age of the files.
LEMMA TimePassesKeeps ==
    ASSUME BackupAssumption, BackupInv, TimePasses
    PROVE  BackupInv' /\ WrittenStays
<1>1. /\ UNCHANGED <<db, dir, files, backup, sweep, restore, written, aimed, deleted>>
      /\ time < MaxTime /\ time' = time + 1
      /\ backup.pc = "dump" => time - files[backup.ino].mtime < RETENTION
  BY DEF TimePasses
<1>2. /\ BackupTypes /\ DirInv /\ LinkInv /\ DumpInv /\ WrittenInv /\ SweepInv /\ DeletedInv
      /\ RestoreInv
  BY DEF BackupInv
<1>3. time \in Nat /\ time' \in Nat /\ RETENTION \in Nat /\ MaxTime \in Nat
  BY <1>1, <1>2, BackupFacts DEF BackupAssumption
<1>4. BackupTypes'
  BY <1>1, <1>2, <1>3 DEF BackupTypes
<1>5. DirInv'
  <2>1. \A i \in 1 .. Len(files) : files[i].kind = "file" => files[i].mtime <= time'
    BY <1>1, <1>2, <1>3, BackupFacts DEF DirInv
  <2> QED BY <1>1, <1>2, <2>1 DEF DirInv, Regular
<1>6. DumpInv'
  <2>0. backup.pc = "dump" => files[backup.ino].mtime \in Nat
    BY <1>2, BackupFacts
  <2>1. backup.pc = "dump" => time' - RETENTION <= files[backup.ino].mtime
    BY <1>1, <1>3, <2>0
  <2> QED BY <1>1, <1>2, <2>1 DEF DumpInv, Linked
<1>7. SweepInv'
  <2>1. ASSUME sweep.pc \in {"delete", "unlink"}
        PROVE  /\ sweep.cutoff <= time' - RETENTION
               /\ \A c \in sweep.candidates : c \notin aimed => c < time'
    <3>1. sweep.cutoff \in Int /\ \A c \in sweep.candidates : c \in Nat
      BY <1>2, <2>1, BackupFacts
    <3>2. sweep.cutoff <= time - RETENTION /\ \A c \in sweep.candidates : c \notin aimed => c < time
      BY <1>2, <2>1 DEF SweepInv
    <3> QED BY <1>1, <1>3, <3>1, <3>2
  <2> QED BY <1>1, <1>2, <2>1 DEF SweepInv, Regular, Linked
<1>8. DeletedInv'
  <2>1. \A d \in deleted : d.name \in Nat
    BY <1>2, BackupFacts
  <2>2. \A d \in deleted : d.name \notin aimed => d.name < time'
    BY <1>1, <1>2, <1>3, <2>1 DEF DeletedInv
  <2> QED BY <1>1, <1>2, <2>2 DEF DeletedInv, Regular
<1>9. LinkInv' /\ WrittenInv' /\ RestoreInv' /\ WrittenStays
  BY <1>1, <1>2 DEF LinkInv, Linked, WrittenInv, RestoreInv, WrittenStays
<1> QED BY <1>4, <1>5, <1>6, <1>7, <1>8, <1>9 DEF BackupInv

\* A backup that is over, well or by a crash, is written to no more.
LEMMA BackupEndsKeeps ==
    ASSUME BackupAssumption, BackupInv, ReportWritten \/ BackupDies
    PROVE  BackupInv' /\ WrittenStays
<1>1. /\ UNCHANGED <<time, db, dir, files, sweep, restore, aimed, deleted>>
      /\ backup.pc = "dump" /\ backup' = Resting
      /\ \/ written' = written
         \/ written' = written \cup {backup.ino} /\ files[backup.ino].len = Pieces
  BY DEF ReportWritten, BackupDies
<1>2. /\ BackupTypes /\ DirInv /\ LinkInv /\ DumpInv /\ WrittenInv /\ SweepInv /\ DeletedInv
      /\ RestoreInv
  BY DEF BackupInv
<1>3. backup.ino \in 1 .. Len(files) /\ files[backup.ino].kind = "file"
  BY <1>1, <1>2, BackupFacts DEF DumpInv
<1>4. BackupTypes'
  BY <1>1, <1>2, <1>3 DEF BackupTypes
<1>5. DumpInv' /\ WrittenInv'
  BY <1>1, <1>2, <1>3 DEF DumpInv, WrittenInv, Resting
<1>6. RestoreInv'
  BY <1>1, <1>2 DEF RestoreInv, Resting
<1>7. DirInv' /\ LinkInv' /\ SweepInv' /\ DeletedInv'
  BY <1>1, <1>2 DEF DirInv, LinkInv, SweepInv, DeletedInv, Regular, Linked, Resting
<1>8. WrittenStays
  BY <1>1 DEF WrittenStays
<1> QED BY <1>4, <1>5, <1>6, <1>7, <1>8 DEF BackupInv

\* A longer file is one as well.
LEMMA LongerIsFile ==
    ASSUME time \in Nat, NEW file \in BackupFile
    PROVE  /\ Longer(file) \in BackupFile /\ Longer(file).kind = "file"
           /\ Longer(file).born = file.born /\ Longer(file).mtime = time
<1>1. /\ file.kind = "file" /\ file.snap \in [Tables -> Nat] /\ file.len + 1 \in Nat
      /\ file.born \in Nat
  BY DEF BackupFile
<1>2. Longer(file) = [kind |-> file.kind, snap |-> file.snap, len |-> file.len + 1,
                      mtime |-> time, born |-> file.born]
  <2> DEFINE g == [file EXCEPT !.len = @ + 1]
  <2>1. g = [kind |-> file.kind, snap |-> file.snap, len |-> file.len + 1,
             mtime |-> file.mtime, born |-> file.born]
    BY DEF BackupFile
  <2>2. Longer(file) = [g EXCEPT !.mtime = time]
    BY DEF Longer
  <2> HIDE DEF g
  <2> QED BY <2>1, <2>2
<1> QED BY <1>1, <1>2 DEF BackupFile

\* pg_dump writes to the file of the backup under way, which is no candidate of a sweep, no
\* written backup and no file that a restore reads as one.
LEMMA DumpPieceKeeps ==
    ASSUME BackupAssumption, BackupInv, DumpPiece
    PROVE  BackupInv' /\ WrittenStays
<1> DEFINE ino == backup.ino
           f == Longer(files[ino])
<1>1. /\ UNCHANGED <<time, db, dir, backup, sweep, restore, written, aimed, deleted>>
      /\ backup.pc = "dump" /\ files' = [files EXCEPT ![ino] = f]
  BY DEF DumpPiece
<1>2. /\ BackupTypes /\ DirInv /\ LinkInv /\ DumpInv /\ WrittenInv /\ SweepInv /\ DeletedInv
      /\ RestoreInv
  BY DEF BackupInv
<1>3. ino \in 1 .. Len(files) /\ files[ino] \in BackupFile
  BY <1>1, <1>2, BackupFacts DEF DumpInv
<1>4. /\ f \in BackupFile /\ f.kind = "file" /\ f.born = files[ino].born /\ f.mtime = time
  <2>1. time \in Nat
    BY <1>2, BackupFacts
  <2> QED BY <1>3, <2>1, LongerIsFile
<1> HIDE DEF f
<1>5. /\ files' \in Seq(Inode) /\ Len(files') = Len(files) /\ files'[ino] = f
      /\ \A i \in 1 .. Len(files) : i # ino => files'[i] = files[i]
  <2>1. files \in Seq(Inode) /\ f \in Inode
    BY <1>2, <1>4 DEF BackupTypes, Inode
  <2> QED BY <1>1, <1>3, <2>1, FileWritten
<1>6. \A i \in 1 .. Len(files) : files'[i].kind = files[i].kind
  BY <1>3, <1>4, <1>5 DEF BackupFile
<1>7. \A n \in Names : (Regular(n)' <=> Regular(n)) /\ (Linked(n)' <=> Linked(n))
  BY <1>1, <1>2, <1>6, BackupFacts DEF Regular, Linked
<1>8. BackupTypes'
  BY <1>1, <1>2, <1>5 DEF BackupTypes
<1>9. DirInv'
  <2>1. \A n \in Names : n \notin aimed /\ Regular(n) => files'[dir[n]].born = n
    BY <1>2, <1>4, <1>5, BackupFacts DEF DirInv, Regular
  <2>2. ASSUME NEW i \in 1 .. Len(files), files'[i].kind = "file"
        PROVE  files'[i].born <= files'[i].mtime /\ files'[i].mtime <= time
    <3>1. CASE i = ino
      <4>1. files[ino].kind = "file"
        BY <1>3 DEF BackupFile
      <4>2. files[ino].born <= files[ino].mtime /\ files[ino].mtime <= time
        BY <1>2, <1>3, <4>1 DEF DirInv
      <4>3. files[ino].born \in Nat /\ files[ino].mtime \in Nat /\ time \in Nat
        BY <1>2, <1>3, BackupFacts
      <4> QED BY <1>4, <1>5, <3>1, <4>2, <4>3
    <3>2. CASE i # ino
      BY <1>2, <1>5, <2>2, <3>2 DEF DirInv
    <3> QED BY <3>1, <3>2
  <2> QED BY <1>1, <1>2, <1>5, <1>7, <2>1, <2>2 DEF DirInv
<1>0. LinkInv'
  <2>1. \A n \in Names : Linked(n) => /\ resolve(n) \in Names /\ resolve(n) = files[dir[n]].target
                                     /\ files'[dir[n]] = files[dir[n]]
    <3>1. \A n \in Names : Linked(n) => dir[n] \in 1 .. Len(files) /\ files[dir[n]].kind # "file"
      BY <1>2, BackupFacts DEF Linked
    <3>2. files[ino].kind = "file"
      BY <1>3 DEF BackupFile
    <3> QED BY <1>2, <1>5, <3>1, <3>2, PathEnds DEF resolve
  <2> QED BY <1>1, <1>2, <1>7, <2>1 DEF LinkInv
<1>10. DumpInv'
  <2>1. time - RETENTION <= files'[ino].mtime
    BY <1>2, <1>4, <1>5, BackupFacts
  <2>2. backup.name \notin aimed =>
          dir[backup.name] = ino \/ Linked(backup.name)'
    BY <1>1, <1>2, <1>7, BackupFacts DEF DumpInv
  <2> QED BY <1>1, <1>3, <1>4, <1>5, <2>1, <2>2 DEF DumpInv
<1>11. WrittenInv'
  BY <1>1, <1>2, <1>5 DEF WrittenInv, BackupTypes
<1>12. SweepInv'
  <2> SUFFICES ASSUME sweep.pc \in {"delete", "unlink"}, NEW c \in sweep.candidates,
                      c \notin aimed, Regular(c)
               PROVE  files'[dir[c]].mtime < sweep.cutoff
    BY <1>1, <1>2, <1>5, <1>7, BackupFacts DEF SweepInv
  <2>1. c \in Names /\ files[dir[c]].mtime < sweep.cutoff /\ sweep.cutoff <= time - RETENTION
    BY <1>2, BackupFacts DEF SweepInv
  <2>2. time - RETENTION <= files[ino].mtime
    BY <1>1, <1>2 DEF DumpInv
  <2>3. dir[c] \in 1 .. Len(files)
    BY <1>2, <2>1, BackupFacts DEF Regular
  <2>4. dir[c] # ino
    BY <1>2, <1>3, <2>1, <2>2, <2>3, BackupFacts
  <2> QED BY <1>5, <2>1, <2>3, <2>4
<1>13. DeletedInv'
  BY <1>1, <1>2, <1>7, BackupFacts DEF DeletedInv
<1>14. RestoreInv'
  BY <1>1, <1>2, <1>5, <1>6, BackupFacts DEF RestoreInv
<1>15. WrittenStays
  BY <1>1, <1>2, <1>5 DEF WrittenStays, WrittenInv, BackupTypes
<1> QED BY <1>0, <1>8, <1>9, <1>10, <1>11, <1>12, <1>13, <1>14, <1>15 DEF BackupInv

\* A sweep begins with the files that are older than the retention.
LEMMA SweepBeginsKeeps ==
    ASSUME BackupAssumption, BackupInv, build_retention_report
    PROVE  BackupInv' /\ WrittenStays
<1>1. /\ UNCHANGED <<time, db, dir, files, backup, restore, written, aimed, deleted>>
      /\ sweep' = [pc |-> "delete", cutoff |-> time - RETENTION, candidates |-> scan_backup_dir,
                   name |-> EXPLICIT, seen |-> 0]
  BY DEF build_retention_report
<1>2. BackupTypes /\ DirInv /\ DumpInv
  BY DEF BackupInv
<1>3. scan_backup_dir \in SUBSET Names /\ time - RETENTION \in Int /\ EXPLICIT \in Names
  BY <1>2, BackupFacts DEF scan_backup_dir
<1>4. sweep' \in Sweeping
  BY <1>1, <1>3 DEF Sweeping
<1>5. ASSUME NEW c \in scan_backup_dir, c \notin aimed
      PROVE  /\ c < time /\ files[dir[c]].mtime < time - RETENTION
             /\ backup.pc = "dump" => backup.name # c
  <2>1. c \in Names /\ Regular(c) /\ files[dir[c]].mtime < time - RETENTION
    BY <1>5 DEF scan_backup_dir
  <2>2. dir[c] \in 1 .. Len(files)
    BY <1>2, <2>1, BackupFacts DEF Regular
  <2>3. files[dir[c]].born = c /\ files[dir[c]].born <= files[dir[c]].mtime
    BY <1>2, <1>5, <2>1, <2>2 DEF DirInv, Regular
  <2>4. /\ c \in Nat /\ time \in Nat /\ RETENTION \in Nat /\ RETENTION > 0
        /\ files[dir[c]].mtime \in Nat
    BY <1>2, <2>1, <2>2, BackupFacts
  <2>5. backup.pc = "dump" /\ backup.name = c => FALSE
    <3>1. ~Linked(c)
      BY <2>1 DEF Regular, Linked
    <3>2. backup.pc = "dump" /\ backup.name = c =>
            dir[c] = backup.ino /\ time - RETENTION <= files[backup.ino].mtime
      BY <1>2, <1>5, <3>1 DEF DumpInv
    <3> QED BY <2>1, <2>4, <3>2
  <2> QED BY <2>1, <2>3, <2>4, <2>5
<1>6. SweepInv'
  BY <1>1, <1>3, <1>5, <1>2, BackupFacts DEF SweepInv, Regular
<1> QED BY <1>1, <1>4, <1>6, OnlySweepMoves

\* It ends.
LEMMA SweepEndsKeeps ==
    ASSUME BackupAssumption, BackupInv, SweepEnds
    PROVE  BackupInv' /\ WrittenStays
<1>1. /\ UNCHANGED <<time, db, dir, files, backup, restore, written, aimed, deleted>>
      /\ sweep' = Resting
  BY DEF SweepEnds
<1>2. SweepInv'
  BY <1>1 DEF SweepInv, Resting
<1> QED BY <1>1, <1>2, OnlySweepMoves

\* What a sweep that goes on looks like.
LEMMA SweepFacts ==
    ASSUME BackupAssumption, BackupInv, sweep.pc \in {"delete", "unlink"}, NEW name \in Names
    PROVE  /\ sweep \in Sweeping /\ name \in Nat /\ Len(files) \in Nat
           /\ LooksGood(name) =>
                 sweep' = [pc |-> "unlink", cutoff |-> sweep.cutoff, candidates |-> sweep.candidates,
                           name |-> name, seen |-> Len(files)]
           /\ Leave(name) =>
                 sweep' = [pc |-> "delete", cutoff |-> sweep.cutoff, name |-> EXPLICIT, seen |-> 0,
                           candidates |-> sweep.candidates \ {name}]
           /\ LooksGood(name) \/ Leave(name) => sweep' \in Sweeping
<1>1. BackupTypes
  BY DEF BackupInv
<1>2. sweep \in Sweeping /\ name \in Nat /\ Len(files) \in Nat /\ EXPLICIT \in Names
  <2>1. sweep \in {Resting} \cup Sweeping
    BY <1>1 DEF BackupTypes
  <2>2. name \in Nat /\ Len(files) \in Nat /\ EXPLICIT \in Names
    BY <1>1, BackupFacts
  <2> QED BY <2>1, <2>2 DEF Resting
<1>3. LooksGood(name) =>
        sweep' = [pc |-> "unlink", cutoff |-> sweep.cutoff, candidates |-> sweep.candidates,
                  name |-> name, seen |-> Len(files)]
  BY <1>2 DEF LooksGood, Sweeping
<1>4. Leave(name) =>
        sweep' = [pc |-> "delete", cutoff |-> sweep.cutoff, name |-> EXPLICIT, seen |-> 0,
                  candidates |-> sweep.candidates \ {name}]
  BY <1>2 DEF Leave, Sweeping
<1>5. LooksGood(name) \/ Leave(name) => sweep' \in Sweeping
  BY <1>2, <1>3, <1>4 DEF Sweeping
<1> QED BY <1>2, <1>3, <1>4, <1>5

\* It looks at a candidate again: what it finds to be a file now is no link yet.
LEMMA LookKeeps ==
    ASSUME BackupAssumption, BackupInv, NEW name \in Names, delete_candidates(name)
    PROVE  BackupInv' /\ WrittenStays
<1>1. /\ UNCHANGED <<time, db, dir, files, backup, restore, written, aimed, deleted>>
      /\ sweep.pc = "delete" /\ name \in sweep.candidates
      /\ (Regular(name) /\ LooksGood(name)) \/ Leave(name)
  BY DEF delete_candidates
<1>2. SweepInv
  BY DEF BackupInv
<1>3. sweep \in Sweeping /\ sweep' \in Sweeping /\ Len(files) \in Nat
  BY <1>1, SweepFacts
<1>4. CASE Regular(name) /\ LooksGood(name)
  <2>1. sweep' = [pc |-> "unlink", cutoff |-> sweep.cutoff, candidates |-> sweep.candidates,
                  name |-> name, seen |-> Len(files)]
    BY <1>1, <1>4, SweepFacts
  <2>2. ~Linked(name)
    BY <1>4 DEF Regular, Linked
  <2>3. SweepInv'
    BY <1>1, <1>2, <1>3, <2>1, <2>2 DEF SweepInv, Regular, Linked
  <2> QED BY <1>1, <1>3, <2>3, OnlySweepMoves
<1>5. CASE Leave(name)
  <2>1. sweep' = [pc |-> "delete", cutoff |-> sweep.cutoff, name |-> EXPLICIT, seen |-> 0,
                  candidates |-> sweep.candidates \ {name}]
    BY <1>1, <1>5, SweepFacts
  <2>2. SweepInv'
    BY <1>1, <1>2, <2>1 DEF SweepInv, Regular, Linked
  <2> QED BY <1>1, <1>3, <2>2, OnlySweepMoves
<1> QED BY <1>1, <1>4, <1>5

\* It removes what has the name of the candidate: an old file, of which no dump is under way,
\* or a link that was put there since it looked.
LEMMA DeletionKeeps ==
    ASSUME BackupAssumption, BackupInv, Unlink
    PROVE  BackupInv' /\ WrittenStays
<1> PICK name : name = sweep.name
  OBVIOUS
<1> DEFINE ino == dir[name]
           gone == [name |-> name, kind |-> files[ino].kind, mtime |-> files[ino].mtime,
                    cutoff |-> sweep.cutoff, late |-> ino > sweep.seen]
<1>1. /\ UNCHANGED <<time, db, files, backup, restore, written, aimed>>
      /\ sweep.pc = "unlink" /\ Leave(name) /\ dir' = [dir EXCEPT ![name] = NoFile]
      /\ deleted' = IF ino = NoFile THEN deleted ELSE deleted \cup {gone}
  BY DEF Unlink
<1>2. /\ BackupTypes /\ DirInv /\ LinkInv /\ DumpInv /\ WrittenInv /\ SweepInv /\ DeletedInv
      /\ RestoreInv
  BY DEF BackupInv
<1>3. name \in Names /\ name \in Nat /\ name \in sweep.candidates
  BY <1>1, <1>2, BackupFacts DEF SweepInv
<1>4. /\ sweep \in Sweeping /\ sweep' \in Sweeping
      /\ sweep' = [pc |-> "delete", cutoff |-> sweep.cutoff, name |-> EXPLICIT, seen |-> 0,
                   candidates |-> sweep.candidates \ {name}]
  BY <1>1, <1>3, SweepFacts
<1>5. /\ dir' \in [Names -> 0 .. Len(files)] /\ dir'[name] = NoFile
      /\ \A n \in Names : n # name => dir'[n] = dir[n]
  BY <1>1, <1>2, <1>3 DEF BackupTypes, NoFile
<1>6. /\ ~Regular(name)' /\ ~Linked(name)'
      /\ \A n \in Names : n # name => (Regular(n)' <=> Regular(n)) /\ (Linked(n)' <=> Linked(n))
  BY <1>1, <1>5 DEF Regular, Linked
<1>7. /\ name \notin aimed => name < time /\ (Regular(name) => files[ino].mtime < sweep.cutoff)
      /\ Linked(name) => ino > sweep.seen
  BY <1>1, <1>2, <1>3 DEF SweepInv
<1>8. ino # NoFile => /\ ino \in 1 .. Len(files) /\ files[ino].kind \in {"file", "link"}
                      /\ files[ino].mtime \in Nat /\ (ino > sweep.seen) \in BOOLEAN
                      /\ (Regular(name) <=> files[ino].kind = "file")
                      /\ (Linked(name) <=> files[ino].kind = "link")
  <2>1. ino # NoFile => ino \in 1 .. Len(files) /\ files[ino] \in Inode /\ files[ino].mtime \in Nat
    BY <1>2, <1>3, BackupFacts
  <2>2. ino # NoFile => files[ino].kind \in {"file", "link"}
    BY <2>1 DEF Inode, BackupFile, SymbolicLink
  <2> QED BY <2>1, <2>2 DEF Regular, Linked
<1>9. ino # NoFile => /\ gone.name = name /\ gone.mtime = files[ino].mtime /\ gone.cutoff = sweep.cutoff
                      /\ gone.kind = files[ino].kind /\ gone.late = (ino > sweep.seen)
                      /\ gone \in [name : Names, kind : {"file", "link"}, mtime : Nat, cutoff : Int,
                                   late : BOOLEAN]
  BY <1>3, <1>4, <1>8 DEF Sweeping
<1> HIDE DEF gone
<1>10. BackupTypes'
  <2>1. deleted' \subseteq [name : Names, kind : {"file", "link"}, mtime : Nat, cutoff : Int, late : BOOLEAN]
    BY <1>1, <1>2, <1>9 DEF BackupTypes
  <2> QED BY <1>1, <1>2, <1>4, <1>5, <2>1 DEF BackupTypes
<1>11. DirInv'
  BY <1>1, <1>2, <1>5, <1>6 DEF DirInv
<1>12. LinkInv'
  BY <1>1, <1>2, <1>3, <1>5, <1>6, PathEnds DEF LinkInv, resolve
<1>13. DumpInv'
  <2>1. backup.pc = "dump" /\ backup.name \notin aimed => backup.name # name
    BY <1>1, <1>2, <1>3 DEF SweepInv
  <2> QED BY <1>1, <1>2, <1>5, <1>6, <2>1, BackupFacts DEF DumpInv
<1>14. SweepInv'
  BY <1>1, <1>2, <1>4, <1>5, <1>6, BackupFacts DEF SweepInv
<1>15. DeletedInv'
  BY <1>1, <1>2, <1>5, <1>6, <1>7, <1>8, <1>9, BackupFacts DEF DeletedInv
<1>16. WrittenInv'
  BY <1>1, <1>2 DEF WrittenInv
<1>17. RestoreInv'
  <2>1. restore.pc \in {"psql", "ok"} => restore.ino # NoFile
    BY <1>2, BackupFacts DEF NoFile
  <2> QED BY <1>1, <1>2, <1>5, <2>1 DEF RestoreInv
<1>18. WrittenStays
  <2> SUFFICES ASSUME NEW n \in Names \ aimed, dir[n] \in written, n = name
               PROVE  dir'[n] = NoFile /\ \E d \in deleted' \ deleted : d.name = n
    BY <1>1, <1>5 DEF WrittenStays
  <2>1. ino \in 1 .. Len(files) /\ files[ino].kind = "file"
    BY <1>2 DEF WrittenInv, BackupTypes
  <2>2. Regular(name) /\ ino # NoFile
    BY <2>1 DEF Regular, NoFile
  <2>3. gone \notin deleted
    BY <1>2, <1>9, <2>2 DEF DeletedInv
  <2> QED BY <1>1, <1>5, <1>9, <2>2, <2>3
<1> QED BY <1>10, <1>11, <1>12, <1>13, <1>14, <1>15, <1>16, <1>17, <1>18 DEF BackupInv

\* pg_dump fails: the name of the backup is removed, which is not that of a written one.
LEMMA DumpFailsKeeps ==
    ASSUME BackupAssumption, BackupInv, DumpFails
    PROVE  BackupInv' /\ WrittenStays
<1> PICK name : name = backup.name
  OBVIOUS
<1>1. /\ UNCHANGED <<time, db, files, sweep, restore, written, aimed, deleted>>
      /\ backup.pc = "dump" /\ backup' = Resting /\ dir' = [dir EXCEPT ![name] = NoFile]
  BY DEF DumpFails
<1>2. /\ BackupTypes /\ DirInv /\ LinkInv /\ DumpInv /\ WrittenInv /\ SweepInv /\ DeletedInv
      /\ RestoreInv
  BY DEF BackupInv
<1>3. name \in Names
  BY <1>1, <1>2, BackupFacts
<1>4. /\ dir' \in [Names -> 0 .. Len(files)] /\ dir'[name] = NoFile
      /\ \A n \in Names : n # name => dir'[n] = dir[n]
  BY <1>1, <1>2, <1>3 DEF BackupTypes, NoFile
<1>5. /\ ~Regular(name)' /\ ~Linked(name)'
      /\ \A n \in Names : n # name => (Regular(n)' <=> Regular(n)) /\ (Linked(n)' <=> Linked(n))
  BY <1>1, <1>4 DEF Regular, Linked
<1>6. BackupTypes'
  BY <1>1, <1>2, <1>4 DEF BackupTypes
<1>7. DirInv' /\ DumpInv' /\ WrittenInv'
  BY <1>1, <1>2, <1>4, <1>5 DEF DirInv, DumpInv, WrittenInv, Resting
<1>12. LinkInv'
  BY <1>1, <1>2, <1>3, <1>4, <1>5, PathEnds DEF LinkInv, resolve
<1>8. SweepInv'
  <2>1. sweep.pc \in {"delete", "unlink"} => sweep.name \in Names /\ \A c \in sweep.candidates : c \in Names
    BY <1>2, BackupFacts
  <2> QED BY <1>1, <1>2, <1>3, <1>4, <1>5, <2>1 DEF SweepInv, Resting
<1>9. DeletedInv'
  BY <1>1, <1>2, <1>4, <1>5, BackupFacts DEF DeletedInv
<1>10. RestoreInv'
  <2>1. restore.pc \in {"psql", "ok"} => restore.ino # NoFile
    BY <1>2, BackupFacts DEF NoFile
  <2> QED BY <1>1, <1>2, <1>4, <2>1 DEF RestoreInv, Resting
<1>11. WrittenStays
  <2>1. name \notin aimed => dir[name] \notin written
    BY <1>1, <1>2 DEF DumpInv, WrittenInv, Linked
  <2> QED BY <1>1, <1>4, <2>1 DEF WrittenStays
<1> QED BY <1>6, <1>7, <1>8, <1>9, <1>10, <1>11, <1>12 DEF BackupInv

\* A new file comes under one name and leaves the other names and files as they were.
LEMMA NewName ==
    ASSUME BackupAssumption, BackupInv, NEW name \in Names, NEW f \in Inode,
           files' = Append(files, f), dir' = [dir EXCEPT ![name] = Len(files) + 1]
    PROVE  /\ files' \in Seq(Inode) /\ Len(files') = Len(files) + 1
           /\ dir' \in [Names -> 0 .. Len(files')] /\ dir'[name] = Len(files) + 1
           /\ files'[Len(files) + 1] = f /\ \A i \in 1 .. Len(files) : files'[i] = files[i]
           /\ \A n \in Names : n # name =>
                 dir'[n] = dir[n] /\ (Regular(n)' <=> Regular(n)) /\ (Linked(n)' <=> Linked(n))
           /\ (Regular(name)' <=> f.kind = "file") /\ (Linked(name)' <=> f.kind = "link")
           /\ \A m, n \in Names : dir'[m] = dir'[n] /\ dir'[m] # NoFile => m = n
           /\ restore.pc \in {"psql", "ok"} => dir'[name] # restore.ino
<1>0. BackupTypes /\ DirInv
  BY DEF BackupInv
<1>1. /\ files' \in Seq(Inode) /\ Len(files') = Len(files) + 1
      /\ files'[Len(files) + 1] = f /\ \A i \in 1 .. Len(files) : files'[i] = files[i]
  BY <1>0, FileAdded DEF BackupTypes
<1>2. Len(files) \in Nat /\ \A n \in Names : dir[n] \in 0 .. Len(files)
  BY <1>0, BackupFacts DEF BackupTypes
<1>3. /\ dir' \in [Names -> 0 .. Len(files')] /\ dir'[name] = Len(files) + 1
      /\ \A n \in Names : n # name => dir'[n] = dir[n]
  BY <1>0, <1>1, <1>2 DEF BackupTypes
<1>4. \A n \in Names : n # name =>
        dir'[n] = dir[n] /\ (Regular(n)' <=> Regular(n)) /\ (Linked(n)' <=> Linked(n))
  BY <1>0, <1>1, <1>3, BackupFacts DEF Regular, Linked
<1>5. (Regular(name)' <=> f.kind = "file") /\ (Linked(name)' <=> f.kind = "link")
  BY <1>1, <1>2, <1>3 DEF Regular, Linked, NoFile
<1>6. \A m, n \in Names : dir'[m] = dir'[n] /\ dir'[m] # NoFile => m = n
  BY <1>0, <1>2, <1>3 DEF DirInv
<1>7. restore.pc \in {"psql", "ok"} => dir'[name] # restore.ino
  BY <1>0, <1>2, <1>3, BackupFacts
<1> QED BY <1>1, <1>3, <1>4, <1>5, <1>6, <1>7

\* A link can take the name of a file, also of a backup under way.
LEMMA PutLinkKeeps ==
    ASSUME BackupAssumption, BackupInv, NEW name \in Names, NEW to \in Names, PutLink(name, to)
    PROVE  BackupInv' /\ WrittenStays
<1> DEFINE f == [kind |-> "link", target |-> to, mtime |-> time, born |-> Absent]
<1>1. /\ UNCHANGED <<time, db, backup, sweep, restore, written, aimed, deleted>>
      /\ files' = Append(files, f)
      /\ dir' = [dir EXCEPT ![name] = Len(files) + 1]
      /\ Regular(to) /\ name # to /\ \A n \in Names : Linked(n) => files[dir[n]].target # name
  BY DEF PutLink
<1>2. /\ BackupTypes /\ DirInv /\ LinkInv /\ DumpInv /\ WrittenInv /\ SweepInv /\ DeletedInv
      /\ RestoreInv
  BY DEF BackupInv
<1>3. f \in Inode /\ f.kind = "link" /\ f.target = to
  BY <1>2, BackupFacts DEF Inode, SymbolicLink
<1> HIDE DEF f
<1>4. /\ files' \in Seq(Inode) /\ Len(files') = Len(files) + 1
      /\ dir' \in [Names -> 0 .. Len(files')] /\ dir'[name] = Len(files) + 1
      /\ files'[Len(files) + 1] = f /\ \A i \in 1 .. Len(files) : files'[i] = files[i]
      /\ \A n \in Names : n # name =>
            dir'[n] = dir[n] /\ (Regular(n)' <=> Regular(n)) /\ (Linked(n)' <=> Linked(n))
      /\ ~Regular(name)' /\ Linked(name)'
      /\ \A m, n \in Names : dir'[m] = dir'[n] /\ dir'[m] # NoFile => m = n
      /\ restore.pc \in {"psql", "ok"} => dir'[name] # restore.ino
  BY <1>1, <1>3, NewName
<1>5. Len(files) \in Nat /\ \A i \in 1 .. Len(files) : i \in 1 .. Len(files')
  BY <1>2, <1>4, BackupFacts
<1>6. BackupTypes'
  BY <1>1, <1>2, <1>4, <1>5 DEF BackupTypes
<1>7. DirInv'
  <2>1. ASSUME NEW n \in Names, n \notin aimed, Regular(n)'
        PROVE  files'[dir'[n]].born = n
    <3>1. n # name /\ dir'[n] = dir[n] /\ Regular(n)
      BY <1>4, <2>1
    <3>2. dir[n] \in 1 .. Len(files)
      BY <1>2, <3>1, BackupFacts DEF Regular
    <3>3. files'[dir[n]] = files[dir[n]]
      BY <1>4, <3>2
    <3> QED BY <1>2, <2>1, <3>1, <3>3 DEF DirInv
  <2>2. \A i \in 1 .. Len(files') :
          files'[i].kind = "file" => files'[i].born <= files'[i].mtime /\ files'[i].mtime <= time
    BY <1>2, <1>3, <1>4, <1>5 DEF DirInv
  <2> QED BY <1>1, <1>4, <2>1, <2>2 DEF DirInv
<1>0. LinkInv'
  <2> SUFFICES ASSUME NEW n \in Names, Linked(n)'
               PROVE  ~Linked(files[dir[n]].target)'
    BY DEF LinkInv
  <2>1. CASE n = name
    <3>1. files'[dir'[n]].target = to /\ ~Linked(to)
      BY <1>1, <1>3, <1>4, <2>1 DEF Regular, Linked
    <3> QED BY <1>1, <1>4, <3>1
  <2>2. CASE n # name
    <3>1. Linked(n) /\ dir'[n] = dir[n]
      BY <1>4, <2>2
    <3>2. resolve(n) = files[dir[n]].target /\ files'[dir[n]] = files[dir[n]]
      BY <1>2, <1>4, <3>1, BackupFacts DEF resolve, Linked
    <3>3. resolve(n) \in Names /\ ~Linked(resolve(n)) /\ resolve(n) # name
      BY <1>1, <1>2, <3>1, <3>2, PathEnds
    <3> QED BY <1>4, <3>1, <3>2, <3>3
  <2> QED BY <2>1, <2>2
<1>8. DumpInv'
  <2>1. backup.pc = "dump" => backup.ino \in 1 .. Len(files) /\ backup.name \in Names
    BY <1>2, BackupFacts
  <2> QED BY <1>1, <1>2, <1>4, <2>1 DEF DumpInv
<1>9. WrittenInv'
  BY <1>1, <1>2, <1>4 DEF WrittenInv, BackupTypes
<1>10. SweepInv'
  <2>1. \A c \in Names : Regular(c)' => Regular(c) /\ files'[dir'[c]] = files[dir[c]]
    BY <1>2, <1>4, BackupFacts DEF Regular
  <2>2. sweep.pc = "unlink" =>
          /\ sweep.name \in Names /\ sweep.seen \in Nat /\ sweep.seen <= Len(files)
          /\ Linked(sweep.name) => dir[sweep.name] > sweep.seen
    BY <1>2, BackupFacts DEF SweepInv
  <2>3. sweep.pc = "unlink" =>
          /\ sweep.seen <= Len(files')
          /\ Linked(sweep.name)' => dir'[sweep.name] > sweep.seen
    BY <1>1, <1>4, <1>5, <2>2
  <2>4. sweep.pc \in {"delete", "unlink"} => sweep.candidates \subseteq Names
    BY <1>2, BackupFacts
  <2> QED BY <1>1, <1>2, <2>1, <2>3, <2>4 DEF SweepInv
<1>11. DeletedInv'
  BY <1>1, <1>2, <1>4, BackupFacts DEF DeletedInv
<1>12. RestoreInv'
  BY <1>1, <1>2, <1>4, BackupFacts DEF RestoreInv
<1>13. WrittenStays
  <2>1. dir'[name] # NoFile /\ files'[dir'[name]].kind = "link"
    BY <1>4 DEF Linked
  <2> QED BY <1>1, <1>2, <1>4, <2>1 DEF WrittenStays, BackupTypes
<1> QED BY <1>0, <1>6, <1>7, <1>8, <1>9, <1>10, <1>11, <1>12, <1>13 DEF BackupInv

\* A backup begins a file of its own or, where one was aimed at a file, begins that anew.
LEMMA BackupBeginsKeeps ==
    ASSUME BackupAssumption, BackupInv, NEW output \in Names \cup {NoOutput}, run_backup(output),
           output = NoOutput => \A i \in DOMAIN files : files[i].born # time
    PROVE  BackupInv' /\ WrittenStays
<1> PICK name : name = backup_path(output)
  OBVIOUS
<1> DEFINE f == [kind |-> "file", snap |-> db, len |-> 0, mtime |-> time, born |-> time]
<1>1. /\ UNCHANGED <<time, db, sweep, restore, deleted>>
      /\ aimed' = IF output = NoOutput /\ name = time THEN aimed ELSE aimed \cup {name}
  BY DEF run_backup
<1>2. /\ BackupTypes /\ DirInv /\ LinkInv /\ DumpInv /\ WrittenInv /\ SweepInv /\ DeletedInv
      /\ RestoreInv
  BY DEF BackupInv
<1>3. time \in Nat /\ RETENTION \in Nat /\ Len(files) \in Nat
  BY <1>2, BackupFacts
<1>4. f \in BackupFile /\ f \in Inode /\ f.kind = "file" /\ f.born = time /\ f.mtime = time
  BY <1>2, <1>3 DEF Inode, BackupFile, BackupTypes
<1>7. name \in Names /\ ~Linked(name)
  BY <1>2, BackupFacts, PathEnds DEF backup_path
<1>8. /\ aimed \subseteq aimed' /\ aimed' \subseteq Names
      /\ name \notin aimed' => output = NoOutput /\ name = time
      /\ \A n \in Names : n \notin aimed' => n \notin aimed
  BY <1>1, <1>2, <1>7 DEF BackupTypes
<1>5. CASE dir[name] = NoFile
  <2>1. /\ files' = Append(files, f) /\ dir' = [dir EXCEPT ![name] = Len(files) + 1]
        /\ written' = written \ {Len(files) + 1}
        /\ backup' = [pc |-> "dump", name |-> name, ino |-> Len(files) + 1]
    BY <1>5 DEF run_backup
  <2> HIDE DEF f
  <2>2. /\ files' \in Seq(Inode) /\ Len(files') = Len(files) + 1
        /\ dir' \in [Names -> 0 .. Len(files')] /\ dir'[name] = Len(files) + 1
        /\ files'[Len(files) + 1] = f /\ \A i \in 1 .. Len(files) : files'[i] = files[i]
        /\ \A n \in Names : n # name =>
              dir'[n] = dir[n] /\ (Regular(n)' <=> Regular(n)) /\ (Linked(n)' <=> Linked(n))
        /\ Regular(name)' /\ ~Linked(name)'
        /\ \A m, n \in Names : dir'[m] = dir'[n] /\ dir'[m] # NoFile => m = n
        /\ restore.pc \in {"psql", "ok"} => dir'[name] # restore.ino
    BY <1>4, <1>7, <2>1, NewName
  <2>3. written' = written /\ \A i \in 1 .. Len(files) : i \in 1 .. Len(files') /\ i # Len(files) + 1
    BY <1>2, <1>3, <2>1, <2>2 DEF BackupTypes
  <2>4. BackupTypes'
    <3>1. backup' \in [pc : {"dump"}, name : Names, ino : 1 .. Len(files')]
      BY <1>3, <1>7, <2>1, <2>2
    <3> QED BY <1>1, <1>2, <1>8, <2>2, <2>3, <3>1 DEF BackupTypes
  <2>5. DirInv'
    <3>1. ASSUME NEW n \in Names, n \notin aimed', Regular(n)'
          PROVE  files'[dir'[n]].born = n
      <4>1. CASE n = name
        BY <1>4, <1>8, <2>2, <3>1, <4>1
      <4>2. CASE n # name
        <5>1. n \notin aimed /\ Regular(n) /\ dir'[n] = dir[n]
          BY <1>8, <2>2, <3>1, <4>2
        <5>2. files'[dir[n]] = files[dir[n]]
          BY <1>2, <2>2, <5>1, BackupFacts DEF Regular
        <5> QED BY <1>2, <5>1, <5>2 DEF DirInv
      <4> QED BY <4>1, <4>2
    <3>2. \A i \in 1 .. Len(files') :
            files'[i].kind = "file" => files'[i].born <= files'[i].mtime /\ files'[i].mtime <= time
      BY <1>2, <1>3, <1>4, <2>2 DEF DirInv
    <3> QED BY <1>1, <2>2, <3>1, <3>2 DEF DirInv
  <2>13. LinkInv'
    <3> SUFFICES ASSUME NEW n \in Names, Linked(n)'
                 PROVE  ~Linked(files[dir[n]].target)'
      BY DEF LinkInv
    <3>1. Linked(n) /\ dir'[n] = dir[n]
      BY <2>2
    <3>2. resolve(n) = files[dir[n]].target /\ files'[dir[n]] = files[dir[n]]
      BY <1>2, <2>2, <3>1, BackupFacts DEF resolve, Linked
    <3>3. resolve(n) \in Names /\ ~Linked(resolve(n))
      BY <1>2, PathEnds
    <3> QED BY <2>2, <3>1, <3>2, <3>3
  <2>6. DumpInv'
    BY <1>1, <1>3, <1>4, <2>1, <2>2 DEF DumpInv
  <2>7. WrittenInv'
    BY <1>2, <2>1, <2>2, <2>3 DEF WrittenInv, BackupTypes
  <2>8. \A n \in Names : n \notin aimed' /\ n < time =>
          n # name /\ (Regular(n)' <=> Regular(n)) /\ (Regular(n) => files'[dir'[n]] = files[dir[n]])
    BY <1>2, <1>3, <1>8, <2>2, BackupFacts DEF Regular
  <2>9. SweepInv'
    <3>0. sweep.pc = "unlink" =>
            /\ sweep.name \in Names /\ sweep.seen \in Nat /\ sweep.seen <= Len(files)
            /\ Linked(sweep.name) => dir[sweep.name] > sweep.seen
      BY <1>2, BackupFacts DEF SweepInv
    <3>1. sweep.pc = "unlink" /\ Linked(sweep.name)' => dir'[sweep.name] > sweep.seen
      BY <1>1, <1>3, <2>2, <3>0
    <3>2. sweep.pc = "unlink" => sweep.seen <= Len(files')
      BY <1>1, <1>3, <2>2, <3>0
    <3>3. ASSUME sweep.pc \in {"delete", "unlink"}, NEW c \in sweep.candidates, c \notin aimed'
          PROVE  c < time /\ backup'.name # c /\ (Regular(c)' => files'[dir'[c]].mtime < sweep.cutoff)
      <4>1. c \in Names /\ c \notin aimed
        BY <1>2, <1>8, <3>3, BackupFacts
      <4>2. c < time /\ (Regular(c) => files[dir[c]].mtime < sweep.cutoff)
        BY <1>2, <3>3, <4>1 DEF SweepInv
      <4> QED BY <2>1, <2>8, <3>3, <4>1, <4>2
    <3> QED BY <1>1, <1>2, <3>1, <3>2, <3>3 DEF SweepInv
  <2>10. DeletedInv'
    BY <1>1, <1>2, <1>8, <2>8, BackupFacts DEF DeletedInv
  <2>11. RestoreInv'
    <3>1. restore.pc \in {"psql", "ok"} => restore.ino # backup'.ino /\ files'[restore.ino] = files[restore.ino]
      BY <1>2, <2>1, <2>2, <2>3, BackupFacts
    <3>2. restore.pc \in {"psql", "ok"} => restore.name \in Names
      BY <1>2, BackupFacts
    <3> QED BY <1>1, <1>2, <1>8, <2>2, <3>1, <3>2 DEF RestoreInv
  <2>12. WrittenStays
    <3>1. written \subseteq 1 .. Len(files)
      BY <1>2 DEF BackupTypes
    <3>2. \A n \in Names : dir[n] \in written =>
            dir'[n] = dir[n] /\ dir[n] \in written' /\ files'[dir[n]] = files[dir[n]]
      BY <1>3, <1>5, <2>2, <2>3, <3>1 DEF NoFile
    <3> QED BY <3>2 DEF WrittenStays
  <2> QED BY <2>4, <2>5, <2>6, <2>7, <2>9, <2>10, <2>11, <2>12, <2>13 DEF BackupInv
<1>6. CASE dir[name] # NoFile
  <2> DEFINE ino == dir[name]
  <2>1. /\ files' = [files EXCEPT ![ino] = f] /\ dir' = [dir EXCEPT ![name] = ino]
        /\ written' = written \ {ino}
        /\ backup' = [pc |-> "dump", name |-> name, ino |-> ino]
    BY <1>6 DEF run_backup
  <2> HIDE DEF f
  <2>2. ino \in 1 .. Len(files) /\ dir' = dir /\ Regular(name)
    <3>1. ino \in 1 .. Len(files) /\ files[ino] \in Inode
      BY <1>2, <1>6, <1>7, BackupFacts
    <3>2. files[ino].kind \in {"file", "link"}
      BY <3>1 DEF Inode, BackupFile, SymbolicLink
    <3> QED BY <1>2, <1>6, <1>7, <2>1, <3>1, <3>2 DEF BackupTypes, Regular, Linked
  <2>3. name \in aimed'
    BY <1>2, <1>7, <1>8, <2>2 DEF DirInv, BackupTypes
  <2>4. /\ files' \in Seq(Inode) /\ Len(files') = Len(files) /\ files'[ino] = f
        /\ \A i \in 1 .. Len(files) : i # ino => files'[i] = files[i]
    BY <1>2, <1>4, <2>1, <2>2, FileWritten DEF BackupTypes
  <2>5. /\ \A n \in Names : (Regular(n)' <=> Regular(n)) /\ (Linked(n)' <=> Linked(n))
        /\ \A n \in Names : n # name /\ dir[n] # NoFile => files'[dir[n]] = files[dir[n]]
    <3>1. \A n \in Names : n # name /\ dir[n] # NoFile => dir[n] \in 1 .. Len(files) /\ dir[n] # ino
      BY <1>2, <1>7, BackupFacts DEF DirInv
    <3>2. Regular(name)' /\ ~Linked(name) /\ ~Linked(name)'
      BY <1>4, <1>6, <1>7, <2>2, <2>4 DEF Regular, Linked
    <3> QED BY <2>2, <2>4, <3>1, <3>2 DEF Regular, Linked
  <2>6. BackupTypes'
    BY <1>1, <1>2, <1>7, <1>8, <2>1, <2>2, <2>4 DEF BackupTypes
  <2>7. DirInv'
    <3>1. \A n \in Names : n \notin aimed' /\ Regular(n)' => files'[dir'[n]].born = n
      BY <1>2, <1>8, <2>2, <2>3, <2>5 DEF DirInv, Regular
    <3>2. \A i \in 1 .. Len(files') :
            files'[i].kind = "file" => files'[i].born <= files'[i].mtime /\ files'[i].mtime <= time
      BY <1>2, <1>3, <1>4, <2>4 DEF DirInv
    <3> QED BY <1>1, <1>2, <2>2, <3>1, <3>2 DEF DirInv
  <2>13. LinkInv'
    <3> SUFFICES ASSUME NEW n \in Names, Linked(n)'
                 PROVE  ~Linked(files[dir[n]].target)'
      BY DEF LinkInv
    <3>1. Linked(n) /\ n # name
      BY <1>7, <2>5
    <3>2. resolve(n) = files[dir[n]].target /\ files'[dir[n]] = files[dir[n]]
      BY <2>5, <3>1 DEF resolve, Linked
    <3>3. resolve(n) \in Names /\ ~Linked(resolve(n))
      BY <1>2, PathEnds
    <3> QED BY <2>2, <2>5, <3>1, <3>2, <3>3
  <2>8. DumpInv'
    BY <1>1, <1>3, <1>4, <2>1, <2>3, <2>4 DEF DumpInv
  <2>9. WrittenInv'
    BY <1>2, <2>1, <2>4 DEF WrittenInv, BackupTypes
  <2>10. SweepInv' /\ DeletedInv'
    <3>1. sweep.pc \in {"delete", "unlink"} => sweep.candidates \subseteq Names /\ sweep.name \in Names
      BY <1>2, BackupFacts
    <3>2. \A d \in deleted : d.name \in Names
      BY <1>2, BackupFacts
    <3>3. SweepInv'
      BY <1>1, <1>2, <1>8, <2>1, <2>2, <2>3, <2>4, <2>5, <3>1 DEF SweepInv, Regular
    <3> QED BY <1>1, <1>2, <1>8, <2>5, <3>2, <3>3 DEF DeletedInv
  <2>11. RestoreInv'
    <3>1. restore.pc \in {"psql", "ok"} => files'[restore.ino].kind = "file"
      BY <1>2, <1>4, <2>4, BackupFacts DEF RestoreInv
    <3>2. restore.pc \in {"psql", "ok"} /\ restore.whole /\ restore.name \notin aimed' =>
            /\ files'[restore.ino] = files[restore.ino] /\ backup'.ino # restore.ino
            /\ restore.name \notin aimed
      BY <1>2, <1>7, <1>8, <2>1, <2>3, <2>4, BackupFacts DEF RestoreInv
    <3> QED BY <1>1, <1>2, <2>2, <3>1, <3>2 DEF RestoreInv
  <2>12. WrittenStays
    <3>0. written \subseteq 1 .. Len(files)
      BY <1>2 DEF BackupTypes
    <3>1. \A n \in Names : n \notin aimed' /\ dir[n] \in written => dir[n] # ino /\ dir[n] # NoFile /\ n # name
      BY <1>2, <1>3, <1>7, <2>2, <2>3, <3>0 DEF DirInv, NoFile
    <3> QED BY <2>1, <2>2, <2>5, <3>1 DEF WrittenStays
  <2> QED BY <2>6, <2>7, <2>8, <2>9, <2>10, <2>11, <2>12, <2>13 DEF BackupInv
<1> QED BY <1>5, <1>6

\* At first there are no files.
LEMMA BackupInvInit == BackupAssumption /\ BackupInit => BackupInv
<1> SUFFICES ASSUME BackupAssumption, BackupInit
             PROVE  BackupInv
  OBVIOUS
<1>1. /\ time = 1 /\ db = [t \in Tables |-> Empty + 1] /\ dir = [n \in Names |-> NoFile]
      /\ files = <<>> /\ backup = Resting /\ sweep = Resting /\ restore = Resting
      /\ written = {} /\ aimed = {} /\ deleted = {}
  BY DEF BackupInit
<1>2. MaxTime \in Nat \ {0} /\ Len(files) = 0 /\ files \in Seq(Inode)
  BY <1>1 DEF BackupAssumption
<1>3. BackupTypes
  BY <1>1, <1>2 DEF BackupTypes, Empty, NoFile
<1>4. \A n \in Names : ~Regular(n) /\ ~Linked(n) /\ dir[n] = NoFile
  BY <1>1 DEF Regular, Linked
<1> QED BY <1>1, <1>2, <1>3, <1>4
        DEF BackupInv, DirInv, LinkInv, DumpInv, WrittenInv, SweepInv, DeletedInv, RestoreInv, Resting

\* Every step keeps the invariant, and what was written.
LEMMA BackupInvKept ==
    ASSUME BackupAssumption, BackupInv, BackupStep
    PROVE  BackupInv' /\ WrittenStays
<1>1. CASE TimePasses
  BY <1>1, TimePassesKeeps
<1>2. CASE Write \/ RecreateDatabase
  BY <1>2, WritesKeep
<1>3. CASE BackupByTime
  BY <1>3, BackupBeginsKeeps DEF BackupByTime
<1>4. CASE BackupToOutput
  <2>1. PICK output \in Names : run_backup(output)
    BY <1>4 DEF BackupToOutput
  <2>2. output # NoOutput
    BY BackupFacts DEF NoOutput, BackupInv
  <2> QED BY <2>1, <2>2, BackupBeginsKeeps
<1>5. CASE DumpPiece
  BY <1>5, DumpPieceKeeps
<1>6. CASE ReportWritten \/ BackupDies
  BY <1>6, BackupEndsKeeps
<1>7. CASE DumpFails
  BY <1>7, DumpFailsKeeps
<1>8. CASE build_retention_report
  BY <1>8, SweepBeginsKeeps
<1>9. CASE SweepEnds
  BY <1>9, SweepEndsKeeps
<1>10. ASSUME NEW n \in Names, (\E to \in Names : PutLink(n, to)) \/ delete_candidates(n) \/ run_restore(n)
       PROVE  BackupInv' /\ WrittenStays
  BY <1>10, PutLinkKeeps, LookKeeps, RestoreBeginsKeeps
<1>13. CASE Unlink
  BY <1>13, DeletionKeeps
<1>11. CASE RestorePiece
  BY <1>11, RestorePieceKeeps
<1>12. CASE RestoreDies \/ RestoreExits \/ CloseRestore
  BY <1>12, RestoreEndsKeeps
<1> QED
  BY <1>1, <1>2, <1>3, <1>4, <1>5, <1>6, <1>7, <1>8, <1>9, <1>10, <1>11, <1>12, <1>13
  DEF BackupStep

\* The invariant is as strong as the properties of one state.
LEMMA BackupInvIsEnough == BackupAssumption /\ BackupInv => OnlyOldFilesGo /\ RestoredWhole
<1> SUFFICES ASSUME BackupAssumption, BackupInv
             PROVE  OnlyOldFilesGo /\ RestoredWhole
  OBVIOUS
<1>1. OnlyOldFilesGo
  BY DEF BackupInv, BackupTypes, DumpInv, DeletedInv, OnlyOldFilesGo
<1>2. RestoredWhole
  <2>1. \A t \in Tables : NTables + t <= Pieces
    BY DEF BackupAssumption, Tables, Pieces
  <2> QED BY <2>1 DEF BackupInv, RestoreInv, RestoredWhole
<1> QED BY <1>1, <1>2

\* However backups, sweeps, links, restores and crashes interleave: of the names no backup
\* was aimed at, by --output or through a link, retention removes no young file and none under
\* way, a written backup stays whole under its name until retention or a link takes it, and a
\* restore of one that ends well has run all of it (postgres_backup.py,
\* postgres_backup_retention.py, postgres_restore.py).
THEOREM BackupsCorrect ==
    ASSUME BackupAssumption
    PROVE  BackupSpec => BackupsHold
<1>1. BackupInit => BackupInv
  BY BackupInvInit
<1>2. BackupInv /\ [BackupNext]_backupVars => BackupInv'
  <2>1. BackupInv /\ UNCHANGED backupVars => BackupInv'
    BY DEF backupVars, BackupInv, BackupTypes, DirInv, LinkInv, DumpInv, WrittenInv, SweepInv, DeletedInv,
           RestoreInv, Regular, Linked
  <2> QED BY <2>1, BackupInvKept DEF BackupNext
<1>3. BackupInv /\ BackupInv' /\ [BackupNext]_backupVars
        => [OnlyOldFilesGo' /\ RestoredWhole' /\ WrittenStays]_backupVars
  <2>1. BackupInv' => OnlyOldFilesGo' /\ RestoredWhole'
    BY BackupInvIsEnough, PTL DEF BackupAssumption
  <2> QED BY <2>1, BackupInvKept DEF BackupNext
<1> QED BY <1>1, <1>2, <1>3, PTL DEF BackupSpec, BackupsHold
=============================================================================
