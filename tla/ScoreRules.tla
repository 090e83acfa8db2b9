------------------------------ MODULE ScoreRules ------------------------------
(***************************************************************************)
(* The composite score of a radar signal (scores/service.py).              *)
(*                                                                         *)
(* A signal is [priority, stage, review, evidence, continuity, quality],   *)
(* where continuity is Absent or [count, quick, previous] and quality is   *)
(* Absent or [status, confidence, missing], the confidence in percent or   *)
(* -1 when there is none.  Components are whole numbers and weights are in *)
(* percent, so that a composite in hundredths of a point is exact.  Ages   *)
(* are in hours.                                                           *)
(*                                                                         *)
(* A definition marked "mutant" is a plausible mistake in the definition   *)
(* that follows it; nothing uses it but the tests of the properties.       *)
(***************************************************************************)
EXTENDS Integers

Absent == [status |-> "absent"]
Smaller(a, b) == IF a < b THEN a ELSE b
Larger(a, b) == IF a < b THEN b ELSE a
Clamp(x) == Smaller(Larger(x, 0), 100)

\* The nearest whole number of tenths; no half occurs with these weights.
RoundTenths(t) == (t + 5) \div 10

ScoringWeights ==
    [priority |-> 22, lifecycle |-> 16, review |-> 20, evidence |-> 16,
     continuity |-> 12, data_quality |-> 8, timeliness |-> 6]

PriorityScore(p) == CASE p = "P0" -> 85 [] p = "P1" -> 68 [] p = "P2" -> 45 [] OTHER -> 30

LifecycleScore(stage) ==
    CASE stage = "ignition" -> 65    [] stage = "developing" -> 78
      [] stage = "returning" -> 72   [] stage = "climax" -> 58
      [] stage = "divergence" -> 45  [] stage = "fading" -> 35
      [] stage = "extinguished" -> 25 [] OTHER -> 40

ReviewScore(status) ==
    CASE status = "approved" -> 82   [] status = "needs_human_review" -> 55
      [] status = "candidate" -> 50  [] status = "blocked" -> 0  [] OTHER -> 40

EvidenceScore(count) == IF count <= 0 THEN 0 ELSE Smaller(90, 55 + count * 15)

ContinuityScore(c) ==
    IF c = Absent THEN 45
    ELSE LET base == Smaller(80, 45 + c.count * 10)
         IN  IF c.quick THEN Larger(base, 82)
             ELSE IF c.previous THEN Larger(base, 60) ELSE base

StatusScore(status) ==
    CASE status = "ok" -> 82 [] status = "degraded" -> 45 [] status = "failed" -> 0
      [] OTHER -> 50

DataQualityScore(q) ==
    IF q = Absent THEN 50
    ELSE LET status == StatusScore(q.status)
             confidence == IF q.confidence = -1 THEN status ELSE Clamp(q.confidence)
         IN  Clamp(RoundTenths(status * 6 + confidence * 4) - Smaller(30, q.missing * 5))

\* timedelta.seconds for total_seconds(): the days are lost.
TimelinessOfSeconds(age) == CASE age % 24 <= 1 -> 90 [] age % 24 <= 6 -> 82 [] OTHER -> 70   \* mutant

TimelinessScore(age) ==
    CASE age <= 1 -> 90 [] age <= 6 -> 82 [] age <= 24 -> 70 [] age <= 72 -> 58
      [] age <= 168 -> 45 [] age <= 240 -> 35 [] OTHER -> 25

ScoreComponents(s, age) ==
    [priority |-> PriorityScore(s.priority), lifecycle |-> LifecycleScore(s.stage),
     review |-> ReviewScore(s.review), evidence |-> EvidenceScore(s.evidence),
     continuity |-> ContinuityScore(s.continuity),
     data_quality |-> DataQualityScore(s.quality), timeliness |-> TimelinessScore(age)]

CompositeScore(c) ==
    LET W == ScoringWeights
    IN  c.priority * W.priority + c.lifecycle * W.lifecycle + c.review * W.review
        + c.evidence * W.evidence + c.continuity * W.continuity
        + c.data_quality * W.data_quality + c.timeliness * W.timeliness

ScoreBand(composite) ==
    CASE composite >= 7500 -> "strong_attention" [] composite >= 6000 -> "watch"
      [] composite >= 4500 -> "weak_watch" [] OTHER -> "low_signal_quality"

ScoreStatus(window, age) ==
    IF age >= window * 24 THEN "generated" ELSE "pending_window"
=============================================================================
