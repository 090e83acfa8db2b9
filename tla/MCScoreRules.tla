----------------------------- MODULE MCScoreRules -----------------------------
(***************************************************************************)
(* ScoreRules over bounded signals: a request holds a signal, an age and a *)
(* second signal that differs in one thing a reader would call better.     *)
(***************************************************************************)
EXTENDS ScoreRules, Sequences

Continuities == {Absent} \cup
    {c \in [count : 0..4, quick : BOOLEAN, previous : BOOLEAN] :
        (c.quick => c.count >= 3) /\ (c.count >= 2 => c.previous)}
Qualities == {Absent} \cup
    [status : {"ok", "degraded", "failed"}, confidence : {-1, 0, 30, 65, 100}, missing : {0, 1, 7}]

Typical == [priority |-> "P1", stage |-> "developing", review |-> "approved", evidence |-> 2,
            continuity |-> Absent, quality |-> Absent]
Best == [priority |-> "P0", stage |-> "developing", review |-> "approved", evidence |-> 5,
         continuity |-> [count |-> 3, quick |-> TRUE, previous |-> TRUE],
         quality |-> [status |-> "ok", confidence |-> 100, missing |-> 0]]
ScoredAges == {0, 1, 2, 6, 7, 24, 25, 72, 73, 168, 169, 240, 241}

Signals == {[b EXCEPT !.priority = p, !.review = r, !.evidence = e] :
                b \in {Typical, Best}, p \in {"P0", "P1", "P2"},
                r \in {"approved", "needs_human_review", "blocked"}, e \in {0, 1, 2, 3, 12}}
            \cup {[Typical EXCEPT !.continuity = c] : c \in Continuities}
            \cup {[Typical EXCEPT !.quality = q] : q \in Qualities}

\* One more piece of evidence, a longer streak, a surer or fuller data source.
BetterContinuity(c, d) ==
    /\ c # Absent /\ d # Absent
    /\ c.count <= d.count /\ (c.quick => d.quick) /\ (c.previous => d.previous)
BetterQuality(c, d) ==
    /\ c # Absent /\ d # Absent /\ c.status = d.status /\ c.confidence >= 0
    /\ c.confidence <= d.confidence /\ d.missing <= c.missing
BetterSignals(s) ==
    {[s EXCEPT !.evidence = @ + 1]}
    \cup {[s EXCEPT !.continuity = d] : d \in {x \in Continuities : BetterContinuity(s.continuity, x)}}
    \cup {[s EXCEPT !.quality = d] : d \in {x \in Qualities : BetterQuality(s.quality, x)}}

VARIABLES request, answer
vars == <<request, answer>>

Init ==
    /\ \E s \in Signals, a \in ScoredAges : \E t \in BetterSignals(s) :
            request = [signal |-> s, better |-> t, age |-> a]
    /\ answer = <<>>

Evaluate(s, age) == CompositeScore(ScoreComponents(s, age))

Answer ==
    /\ answer = <<>>
    /\ answer' = <<[worse |-> Evaluate(request.signal, request.age),
                    better |-> Evaluate(request.better, request.age),
                    older |-> [a \in ScoredAges |-> Evaluate(request.signal, a)],
                    status |-> [w \in {1, 3, 5, 10} |-> ScoreStatus(w, request.age)]]>>
    /\ UNCHANGED request

Spec == Init /\ [][Answer]_vars

-----------------------------------------------------------------------------
\* A composite stays within 0 to 100 points, whatever the signal (docs/api/current-api.md).
ScoresAreInRange ==
    answer # <<>> => answer[1].worse \in 0..10000 /\ answer[1].better \in 0..10000

\* More evidence, a longer streak or better data never lowers a score, and age never
\* raises it, through all the caps, floors and defaults of the components.
ScoresFollowEvidence ==
    answer # <<>> =>
        /\ answer[1].worse <= answer[1].better
        /\ \A a, b \in ScoredAges : a <= b => answer[1].older[a] >= answer[1].older[b]

\* At the moment a window ends the timeliness of its last day still counts, and the
\* window is complete: of two windows the shorter is complete first.
WindowsCompleteInOrder ==
    answer # <<>> =>
        /\ \A v, w \in {1, 3, 5, 10} : v <= w /\ answer[1].status[w] = "generated"
                                        => answer[1].status[v] = "generated"
        /\ TimelinessScore(request.age) < 70 => answer[1].status[1] = "generated"
        /\ request.age = 240 => answer[1].status[10] = "generated"

\* A blocked signal is never in the band of strong attention.
BlockedIsNeverStrong ==
    answer # <<>> /\ request.signal.review = "blocked"
        => ScoreBand(answer[1].worse) # "strong_attention"
=============================================================================
