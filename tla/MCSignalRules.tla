---------------------------- MODULE MCSignalRules ----------------------------
(***************************************************************************)
(* SignalRules over bounded inputs: each initial state is a request, and   *)
(* answer is empty until the request is evaluated.                         *)
(***************************************************************************)
EXTENDS SignalRules

CONSTANTS Pcts, Counts,     \* movements and numbers of stocks of a sector
          Pools,            \* sizes of the limit-up and limit-down pools
          MaxSignals        \* MAX_SIGNALS_PER_SCAN

\* Assumed of the constants by the modules that give them values.
InputsAssumption ==
    Pcts \subseteq Int /\ Counts \subseteq Nat /\ Pools \subseteq Nat /\ MaxSignals \in Nat

VARIABLES request, answer
vars == <<request, answer>>

SectorRows == [pct: Pcts, rising: Counts, falling: Counts, leader: {0, 50}]
Candidates == [priority: {"P0", "P1"}, pct: {30, 55}, breadth: {7000}, score: {0}]
                \cup [priority: {"P0"}, pct: {0}, breadth: {0}, score: {88, 92}]
                \cup [priority: {"P2"}, pct: {90, -5}, breadth: {6000}, score: {0}]

Init ==
    /\ answer = <<>>
    /\ request \in [kind: {"sector"}, row: SectorRows]
                     \cup [kind: {"sentiment"}, up: Pools, down: Pools, broken: Pools]
                     \cup [kind: {"title"}, title: {{k} : k \in MajorKeywords \cup CriticalKeywords}
                                                      \cup {{}}]
                     \cup [kind: {"candidates"}, found: {C \in SUBSET Candidates : Cardinality(C) <= 5}]

AnswerSector ==
    request.kind = "sector" /\ answer' = <<ClassifySectorMovement(request.row)>>
AnswerSentiment ==
    request.kind = "sentiment"
        /\ answer' = <<SentimentBias(request.up, request.down, request.broken)>>
AnswerTitle ==
    request.kind = "title" /\ answer' = <<AnnouncementEvent(request.title)>>
AnswerCandidates ==
    request.kind = "candidates" /\ answer' = <<SignalCandidates(request.found, MaxSignals)>>

Next == /\ answer = <<>>
        /\ AnswerSector \/ AnswerSentiment \/ AnswerTitle \/ AnswerCandidates
        /\ UNCHANGED request
Spec == Init /\ [][Next]_vars

Answered(kind) == request.kind = kind /\ answer # <<>>
Reply == answer[1]

-----------------------------------------------------------------------------
Level(result) == IF result = NoResult THEN 3 ELSE RankOf(result.priority)

\* The rules have no gap between their bands: a sector that moves more, with more
\* stocks rising, fewer falling and a stronger leader is never ranked lower.
PriorityIsMonotone ==
    Answered("sector") =>
        \A row \in SectorRows :
            /\ row.pct >= request.row.pct /\ row.leader >= request.row.leader
            /\ row.rising >= request.row.rising /\ row.falling <= request.row.falling
            => Level(ClassifySectorMovement(row)) <= Level(Reply)

Mood(bias) == CASE bias = "negative" -> 0 [] bias \in {"mixed", "unknown"} -> 1
                [] bias = "positive" -> 2

\* More stocks at their upper limit, fewer at the lower and fewer broken never
\* darken the sentiment.
SentimentIsMonotone ==
    Answered("sentiment") =>
        \A up, down, broken \in Pools :
            up >= request.up /\ down <= request.down /\ broken <= request.broken =>
                Mood(SentimentBias(up, down, broken)) >= Mood(Reply)

\* The two lists of keywords agree: a title with a critical keyword is a major risk
\* event too, with the higher severity, and so a P0.
CriticalTitlesAreP0 ==
    Answered("title") /\ request.title \cap CriticalKeywords # {} =>
        /\ ClassifyRiskEvent(Reply).priority = "P0"
        /\ Reply.severity = "critical"

\* When a scan finds too many candidates, none is dropped for one of a lower
\* priority: a risk event gives way to sectors of P0 only, however weak its score.
CutKeepsPriorities ==
    Answered("candidates") =>
        \A kept \in ToSet(Reply), cut \in request.found \ ToSet(Reply) :
            RankOf(kept.priority) <= RankOf(cut.priority)
=============================================================================
