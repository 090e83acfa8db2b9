----------------------------- MODULE SignalRules -----------------------------
(***************************************************************************)
(* The rules that turn a row of a snapshot into a candidate signal and     *)
(* give it a lifecycle stage (radar/rules.py, radar/service.py).           *)
(*                                                                         *)
(* Percentages are in tenths of a percent, breadth in ten-thousandths,     *)
(* scores and confidences in hundredths.                                   *)
(*                                                                         *)
(* A definition marked "mutant" is a plausible mistake in the definition   *)
(* that follows it; nothing uses it but the tests of the properties.       *)
(***************************************************************************)
EXTENDS Integers, Sequences, FiniteSets, SequencesExt

Priorities == {"P0", "P1", "P2"}
Stages == {"ignition", "developing", "divergence", "returning", "climax", "fading",
           "extinguished"}
NoResult == [priority |-> "none", stage |-> "none", confidence |-> 0]
Result(priority, stage, confidence) ==
    [priority |-> priority, stage |-> stage, confidence |-> confidence]

\* round(rising / (rising + falling), 4)
Breadth(rising, falling) ==
    IF rising + falling <= 0 THEN 0
    ELSE (20000 * rising + rising + falling) \div (2 * (rising + falling))

LifecycleFor(pct, breadth) ==
    CASE pct >= 65 /\ breadth >= 7500 -> "climax"
      [] ~(pct >= 65 /\ breadth >= 7500) /\ pct >= 35 /\ breadth >= 6000 -> "developing"
      [] OTHER -> "ignition"

\* A sector: the first rule that matches.
ClassifySectorMovement(row) ==
    LET breadth == Breadth(row.rising, row.falling)
    IN  IF row.pct >= 50 /\ row.rising >= 10 /\ breadth >= 6500
        THEN Result("P0", LifecycleFor(row.pct, breadth), 82)
        ELSE IF row.pct >= 30 /\ breadth >= 5500
        THEN Result("P1", LifecycleFor(row.pct, breadth), 68)
        ELSE IF (row.pct >= 15 /\ breadth >= 5000) \/ row.leader >= 50
        THEN Result("P2", "ignition", 52) ELSE NoResult

ClassifyRiskEvent(event) ==
    IF \/ event.type \in {"major_announcement", "regulatory", "black_swan"}
       \/ event.severity \in {"major", "critical"}
       \/ event.score >= 85
    THEN Result("P0", "ignition", 78) ELSE NoResult

-----------------------------------------------------------------------------
(***************************************************************************)
(* Announcements: a title is the set of the keywords it contains.  Every   *)
(* title with a longer keyword contains the shorter one within it.         *)
(***************************************************************************)
CriticalKeywords == {"listing_ended", "forced_delisting", "grave_violation", "no_opinion"}
MajorKeywords ==
    {"investigation", "penalty_notice", "grave_violation", "delisting_risk",
     "listing_ended", "listing_paused", "forced_delisting", "no_opinion", "risk_warning",
     "litigation", "debt_overdue", "funds_taken", "illegal_guarantee"}

AnnouncementEvent(title) ==
    IF title \cap MajorKeywords = {}
    THEN [type |-> "", severity |-> "", score |-> 0]
    ELSE LET critical == title \cap CriticalKeywords # {}
         IN  [type |-> "major_announcement",
              severity |-> IF critical THEN "critical" ELSE "major",
              score |-> IF critical THEN 92 ELSE 88]

-----------------------------------------------------------------------------
(***************************************************************************)
(* The sentiment of the market, from the limit-up and limit-down pools.    *)
(***************************************************************************)

SentimentBias(up, down, broken) ==
    IF up <= 0 /\ down <= 0 /\ broken <= 0 THEN "unknown"
    ELSE IF up >= 3 /\ up >= 2 * down /\ up > broken THEN "positive"
    ELSE IF down > up THEN "negative" ELSE "mixed"

-----------------------------------------------------------------------------
(***************************************************************************)
(* The lifecycle stage of a candidate that has a previous signal.          *)
(***************************************************************************)

DropOfBoth(result, previous, pctDelta, breadthDelta) ==      \* mutant
    IF previous.stage \in {"divergence", "fading"} /\ pctDelta >= 10 /\ breadthDelta >= 500
    THEN "returning"
    ELSE IF pctDelta <= -20 /\ breadthDelta <= -2000
    THEN IF result.priority = "P2" THEN "fading" ELSE "divergence"
    ELSE IF pctDelta >= 10 /\ result.priority # "P2" /\ result.stage = "ignition"
    THEN "developing" ELSE result.stage

AdjustLifecycle(result, previous, pctDelta, breadthDelta) ==
    IF previous.stage \in {"divergence", "fading"} /\ pctDelta >= 10 /\ breadthDelta >= 500
    THEN "returning"
    ELSE IF pctDelta <= -20 \/ breadthDelta <= -2000
    THEN IF result.priority = "P2" THEN "fading" ELSE "divergence"
    ELSE IF pctDelta >= 10 /\ result.priority # "P2" /\ result.stage = "ignition"
    THEN "developing" ELSE result.stage

-----------------------------------------------------------------------------
(***************************************************************************)
(* The candidates of a scan.                                               *)
(***************************************************************************)
RankOf(priority) == CASE priority = "P0" -> 0 [] priority = "P1" -> 1 [] priority = "P2" -> 2

\* A candidate without a movement has its severity score for both.
Strength(c) == IF c.pct # 0 THEN 10 * c.pct ELSE c.score
Width(c) == IF c.breadth # 0 THEN c.breadth ELSE 100 * c.score

ByStrength(c, d) == Strength(c) > Strength(d)                \* mutant
SortsBefore(c, d) ==
    \/ RankOf(c.priority) < RankOf(d.priority)
    \/ /\ c.priority = d.priority
       /\ \/ Strength(c) > Strength(d)
          \/ Strength(c) = Strength(d) /\ Width(c) > Width(d)

\* The first max of them.
SignalCandidates(found, max) ==
    LET sorted == SetToSortSeq(found, SortsBefore)
    IN  SubSeq(sorted, 1, IF Len(sorted) < max THEN Len(sorted) ELSE max)
=============================================================================
