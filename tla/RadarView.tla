------------------------------ MODULE RadarView ------------------------------
(***************************************************************************)
(* The readers of the radar: the overview, the latest scan and the list of *)
(* signals (radar/service.py), over scans that open, end and age.  The     *)
(* overview reads the latest batch, then its signals, in two statements of *)
(* a transaction at READ COMMITTED.                                        *)
(***************************************************************************)
EXTENDS Integers, Sequences, FiniteSets, SequencesExt

CONSTANTS
    Contents,      \* what a scan may find: sequences of [key, priority]
    Readers,
    P2Window,      \* P2_OBSERVATION_WINDOW_DAYS
    Limit,         \* the limit of the overview
    MaxBatches,    \* bound on the scans
    MaxTime        \* bound on the clock

\* Assumed of the constants by the modules that give them values.
BoundsAssumption ==
    P2Window \in Nat /\ Limit \in Nat /\ MaxBatches \in Nat /\ MaxTime \in Nat

SubjectKeys == UNION {{found[i].key : i \in DOMAIN found} : found \in Contents}
Candidates == [key: SubjectKeys, priority: {"P0", "P1", "P2"}]
ContentsAssumption == Contents \subseteq Seq(Candidates)

VARIABLES
    now,
    batches,       \* radar_scan_batches by id, with the signals of each
    reader         \* per reader: its place, what it has read, its reply

vars == <<now, batches, reader>>

Idle == [pc |-> "idle", batch |-> 0, status |-> "none", known |-> 0, signals |-> <<>>,
         readAt |-> 0]

Init == now = 0 /\ batches = <<>> /\ reader = [r \in Readers |-> Idle]

-----------------------------------------------------------------------------
(***************************************************************************)
(* The scans, as their readers see them.                                   *)
(***************************************************************************)
\* started is taken before the batch is inserted, so ids and times may cross.
OpenBatch ==
    /\ Len(batches) < MaxBatches
    /\ \E started \in {now - 1, now} :
        batches' = Append(batches, [status |-> "running", started |-> started, signals |-> <<>>])
    /\ UNCHANGED <<now, reader>>

\* The signals follow in a commit of their own.
StatusBeforeSignals(b) ==                                    \* mutant
    /\ batches[b].status \in {"running", "success"} /\ batches[b].signals = <<>>
    /\ \E found \in Contents :
        batches' = [batches EXCEPT ![b].status = IF found = <<>> THEN "no_data" ELSE "success",
                                   ![b].signals = IF batches[b].status = "running" THEN <<>>
                                        ELSE [i \in DOMAIN found |->
                                            [key |-> found[i].key, priority |-> found[i].priority,
                                             id |-> <<b, i>>, created |-> now]]]
    /\ UNCHANGED <<now, reader>>

\* Status and signals appear in one commit; their time is that of the start of the
\* transaction.
EndBatch(b) ==
    /\ batches[b].status = "running"
    /\ \/ batches' = [batches EXCEPT ![b].status = "failure"]
       \/ \E found \in Contents, created \in {now - 1, now} :
            batches' = [batches EXCEPT ![b].status = IF found = <<>> THEN "no_data" ELSE "success",
                                       ![b].signals = [i \in DOMAIN found |->
                                            [key |-> found[i].key, priority |-> found[i].priority,
                                             id |-> <<b, i>>, created |-> created]]]
    /\ UNCHANGED <<now, reader>>

Tick == now < MaxTime /\ now' = now + 1 /\ UNCHANGED <<batches, reader>>

-----------------------------------------------------------------------------
(***************************************************************************)
(* Reading.                                                                *)
(***************************************************************************)

\* ORDER BY started_at DESC, id DESC
LatestBatch(rows) == CHOOSE b \in DOMAIN rows :
    \A c \in DOMAIN rows : \/ rows[b].started > rows[c].started
                           \/ rows[b].started = rows[c].started /\ b >= c

\* ORDER BY created_at DESC, id DESC: the signals of a batch are of one time.
OfBatch(b) == Reverse(batches[b].signals)

ReadBatch(r) ==
    /\ reader[r].pc = "idle" /\ batches # <<>>
    /\ LET b == LatestBatch(batches)
       IN  reader' = [reader EXCEPT ![r] = [Idle EXCEPT !.pc = "batch_read", !.batch = b,
                                               !.known = Len(batches),
                                               !.status = batches[b].status]]
    /\ UNCHANGED <<now, batches>>

ReadSignals(r) ==
    /\ reader[r].pc = "batch_read"
    /\ reader' = [reader EXCEPT ![r] = [@ EXCEPT !.pc = "done", !.readAt = now,
                                                 !.signals = OfBatch(reader[r].batch)]]
    /\ UNCHANGED <<now, batches>>

ReadAgain(r) ==
    /\ reader[r].pc = "done"
    /\ reader' = [reader EXCEPT ![r] = Idle]
    /\ UNCHANGED <<now, batches>>

\* _filter_visible_signals
Visible(x, asOf) == x.priority # "P2" \/ x.created >= asOf - P2Window

FilterVisible(signals, asOf) == SelectSeq(signals, LAMBDA x : Visible(x, asOf))

\* The first signal of each key.
DedupeSubjects(signals) ==
    FoldLeft(LAMBDA kept, x : IF \E y \in ToSet(kept) : y.key = x.key THEN kept
                              ELSE Append(kept, x), <<>>, signals)

UpTo(limit, list) == SubSeq(list, 1, IF Len(list) < limit THEN Len(list) ELSE limit)

\* What get_radar_overview makes of the signals a reader has read.
Overview(signals, asOf) ==
    LET current == DedupeSubjects(FilterVisible(signals, asOf))
    IN  [active |-> UpTo(Limit, current), subjects |-> Len(current),
         counts |-> [p \in {"P0", "P1", "P2"} |->
                        Cardinality({i \in DOMAIN current : current[i].priority = p})]]

\* list_radar_signals: one statement over the signals of every batch, newest first,
\* with the window as a condition of its own.
InWindow(x, cutoff) == x.priority # "P2" \/ x.created >= cutoff
ListSignals(asOf) ==
    LET all == FlattenSeq([b \in DOMAIN batches |-> batches[b].signals])
        newest == SortSeq(all, LAMBDA x, y :
                    \/ x.created > y.created
                    \/ x.created = y.created
                         /\ (x.id[1] > y.id[1] \/ (x.id[1] = y.id[1] /\ x.id[2] > y.id[2])))
    IN  SelectSeq(newest, LAMBDA x : InWindow(x, asOf - P2Window))

Next ==
    \/ OpenBatch
    \/ \E b \in DOMAIN batches : EndBatch(b)
    \/ Tick
    \/ \E r \in Readers : ReadBatch(r) \/ ReadSignals(r) \/ ReadAgain(r)

Spec == Init /\ [][Next]_vars

-----------------------------------------------------------------------------
Done(r) == reader[r].pc = "done"

\* A reply that says success has the signals of the scan, all of them, and one that
\* says failure or no data has none, wherever the scan ends between the two reads
\* of _scan_read.  Only a reply that says running can be torn.
RepliesAreWhole ==
    \A r \in Readers : Done(r) /\ reader[r].status # "running" =>
        /\ reader[r].signals = OfBatch(reader[r].batch)
        /\ reader[r].status = "success" <=> reader[r].signals # <<>>

\* Signals are hidden behind a newer scan only: of the scans that were there when
\* the overview was read, none with signals had started after the one it shows.
HiddenByNewerScan ==
    \A r \in Readers : reader[r].pc # "idle" =>
        \A b \in 1..reader[r].known :
            batches[b].signals # <<>> => batches[b].started <= batches[reader[r].batch].started

\* The overview filters in Python what the list filters in SQL: at the same moment
\* both show the same signals of the scan, to the edge of the P2 window.
OverviewAndListAgree ==
    \A r \in Readers : Done(r) =>
        ToSet(FilterVisible(reader[r].signals, now))
            = ToSet(ListSignals(now)) \cap ToSet(reader[r].signals)

\* Every subject with a visible signal is counted once, whatever the limit.
SubjectsAreCountedOnce ==
    \A r \in Readers : Done(r) =>
        LET visible == FilterVisible(reader[r].signals, now)
            view == Overview(reader[r].signals, now)
        IN  /\ view.subjects = Cardinality({x.key : x \in ToSet(visible)})
            /\ view.counts["P0"] + view.counts["P1"] + view.counts["P2"] = view.subjects
            /\ Len(view.active) = (IF view.subjects < Limit THEN view.subjects ELSE Limit)
=============================================================================
