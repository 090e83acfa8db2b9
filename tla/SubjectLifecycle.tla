--------------------------- MODULE SubjectLifecycle ---------------------------
(***************************************************************************)
(* One subject over a series of scans: each scan classifies its row, and a *)
(* row that a rule matches becomes a signal whose lifecycle stage depends  *)
(* on the previous signal of the subject, however old (radar/service.py).  *)
(***************************************************************************)
EXTENDS SignalRules

CONSTANTS Rows,         \* rows of the subject: [pct, rising, falling, leader]
          Events        \* rows of a risk endpoint: [type, severity, score]

\* Rows have numbers, and no sector has fewer than no members.
RowsAssumption ==
    /\ Rows \subseteq [pct: Int, rising: Nat, falling: Nat, leader: Int]
    /\ \A event \in Events : event.score \in Int

\* The review of the signals, without any language to forbid.
StoredReview == INSTANCE ReviewRules
            WITH Terms <- {}, SafePhrases <- <<>>, Negations <- {}, Separators <- {}

VARIABLES source,       \* "sector" or "risk": the endpoint the subject comes from
          previous,     \* the signal before the newest, or NoSignal
          newest        \* the newest signal of the subject, or NoSignal

subjectVars == <<source, previous, newest>>

NoSignal == [priority |-> "none", stage |-> "none", confidence |-> 0, pct |-> 0, breadth |-> 0]
SignalType == [priority: Priorities, stage: Stages, confidence: 0..100, pct: Int, breadth: 0..10000]

SubjectTypeOK ==
    /\ source \in {"sector", "risk"}
    /\ previous \in SignalType \cup {NoSignal}
    /\ newest \in SignalType \cup {NoSignal}

SubjectInit == source \in {"sector", "risk"} /\ previous = NoSignal /\ newest = NoSignal

\* The metrics of a risk row have neither a movement nor a breadth: both count as 0.
Classify(row) ==
    IF source = "sector" THEN ClassifySectorMovement(row) ELSE ClassifyRiskEvent(row)
Pct(row) == IF source = "sector" THEN row.pct ELSE 0
BreadthOf(row) == IF source = "sector" THEN Breadth(row.rising, row.falling) ELSE 0

StageAfter(result, row) ==
    IF newest = NoSignal THEN result.stage
    ELSE AdjustLifecycle(result, newest, Pct(row) - newest.pct, BreadthOf(row) - newest.breadth)

\* A scan that finds the subject's row; without a result it leaves no trace.
Scan(row) ==
    LET result == Classify(row)
    IN  /\ result # NoResult
        /\ previous' = newest
        /\ newest' = [priority |-> result.priority, stage |-> StageAfter(result, row),
                      confidence |-> result.confidence,
                      pct |-> Pct(row), breadth |-> BreadthOf(row)]
        /\ UNCHANGED source

SubjectNext ==
    \/ source = "sector" /\ \E row \in Rows : Scan(row)
    \/ source = "risk" /\ \E event \in Events : Scan(event)

SubjectSpec == SubjectInit /\ [][SubjectNext]_subjectVars

-----------------------------------------------------------------------------
\* Strength and stage are two scales, but a stage says something of the strength
\* it was given at: only a P2 fades, only stronger signals diverge or develop, a
\* climax is at the height of both, and a risk event stays at ignition.
StageFitsPriority ==
    /\ newest.stage = "fading" => newest.priority = "P2"
    /\ newest.stage \in {"divergence", "developing", "climax"} => newest.priority # "P2"
    /\ newest.stage = "climax" => newest.pct >= 65 /\ newest.breadth >= 7500
    /\ source = "risk" => newest.stage \in {"ignition", "none"}

Weak == {"divergence", "fading"}
Dropped(s, t) == t.pct - s.pct <= -20 \/ t.breadth - s.breadth <= -2000

\* No drop between two signals of a subject is passed over, whatever the scans
\* between them found: it shows as divergence or fading, and nothing else does.
DropsAreReported ==
    previous # NoSignal => (newest.stage \in Weak <=> Dropped(previous, newest))

\* A subject returns only from weakness, and stronger than the drop left it.
ReturnsFromWeakness ==
    newest.stage = "returning" =>
        /\ previous.stage \in Weak
        /\ newest.pct > previous.pct /\ newest.breadth > previous.breadth

\* The signal as run_radar_scan stores it with its one evidence: both have the
\* metrics and the rule's reasons, and the evidence the rule's confidence.
Stored == [priority |-> newest.priority, quick |-> FALSE, markers |-> {}, evidence_count |-> 1,
           forbidden |-> FALSE, quality |-> "ok", hints |-> <<"rule">>,
           metrics |-> [pct_change |-> newest.pct, breadth |-> newest.breadth]]
Evidence == [confidence |-> newest.confidence, forbidden |-> FALSE, quality |-> "ok",
             hints |-> <<"rule">>, conflict |-> FALSE, metrics |-> Stored.metrics,
             source_time |-> {}, collected_at |-> 0, freshness |-> {"latest"},
             policy |-> "internal_summary_only"]

\* What the rules find in sound data the review approves: no rule has a
\* confidence that the review takes for low.
SoundSignalsAreApproved ==
    newest # NoSignal => StoredReview!EvaluateSignal(Stored, <<Evidence>>) = "approved"

\* Over any series of scans the stage of a signal fits its priority, every drop between
\* two signals shows and nothing else does, a return is one from weakness, and the review
\* approves what the rules found in sound data (radar/service.py).
SubjectsDevelop ==
    /\ SubjectTypeOK
    /\ StageFitsPriority
    /\ DropsAreReported
    /\ ReturnsFromWeakness
    /\ SoundSignalsAreApproved
=============================================================================
