--------------------------- MODULE SignalGovernance ---------------------------
(***************************************************************************)
(* One radar signal under review while share previews and research briefs  *)
(* of it are read: the review route and the reports write a verdict        *)
(* (governance/review.py); a preview (governance/share.py) or a brief      *)
(* (radar/service.py) reads the signal, its evidences and its latest       *)
(* review in three statements of a transaction at READ COMMITTED.          *)
(*                                                                         *)
(* The evidences of a signal never change once it is committed, so reading *)
(* them is part of the step that reads the signal.                         *)
(***************************************************************************)
EXTENDS ReviewRules

CONSTANTS Cases,        \* signals with their evidences: [signal, evidences]
          Readers,      \* requests for a preview, its public payload or a brief
          MaxReviews    \* bound on the reviews made

\* Assumed of the constants by the modules that give them values.
ReviewsAssumption == MaxReviews \in Nat
ConfidenceAssumption == \A c \in Cases : \A e \in ToSet(c.evidences) : e.confidence \in Int

-----------------------------------------------------------------------------
(***************************************************************************)
(* The deterministic research brief of a signal (_build_signal_analysis in *)
(* radar/service.py): its risk flags, the review gate it shows, its next   *)
(* actions and the statuses of its five agents.  Wording is left out.      *)
(* review is the latest one, [verdict, reasons], or NoReviewRow.           *)
(***************************************************************************)
NoReviewRow == [verdict |-> NoReview, reasons |-> <<>>]

\* The first items, each once.
BoundedUnique(items, limit) ==
    FoldLeft(LAMBDA kept, x : IF x \in ToSet(kept) \/ Len(kept) >= limit THEN kept
                              ELSE Append(kept, x), <<>>, items)

When(condition, item) == IF condition THEN <<item>> ELSE <<>>

\* A quality status is one flag, provider_quality_ and the status.
QualityFlags == {"missing_evidence", "stale_evidence", "provider_quality_degraded",
                 "provider_quality_unknown", "provider_quality_failed",
                 "provider_quality_needs_review"}
QualityFlag(status) ==
    CASE status = "degraded" -> "provider_quality_degraded"
      [] status = "unknown" -> "provider_quality_unknown"
      [] status = "failed" -> "provider_quality_failed"

\* status is the one stored with the signal.
RiskFlags(signal, status, evidences, review) ==
    BoundedUnique(
        When(evidences = <<>> \/ signal.evidence_count = 0, "missing_evidence")
          \o When(status = "blocked", "review_blocked")
          \o When(status = "needs_human_review", "review_needs_human_review")
          \o When(signal.quality \notin {"none", "ok"}, QualityFlag(signal.quality))
          \o When("risk" \in signal.markers, "risk_event_candidate")
          \o When(\E e \in ToSet(evidences) : FreshnessLabel(e.freshness) = "may_be_expired",
                  "stale_evidence")
          \o review.reasons,
        8)

\* The latest review counts before the status stored with the signal.
ReviewStatus(status, review) == IF review.verdict = NoReview THEN status ELSE review.verdict
HumanReviewRequired(shown) == shown \in {"blocked", "needs_human_review", "candidate"}

ConfidenceLabels(evidences) == {ConfidenceLabel(e.confidence) : e \in ToSet(evidences)}

\* An agent warns or is ok; two of them may also say blocked.
WarnsIf(condition) == IF condition THEN "warning" ELSE "ok"
BlockedOr(shown, condition) == IF shown = "blocked" THEN "blocked" ELSE WarnsIf(condition)

DataQualityAgent(flags, evidences) ==
    WarnsIf(ToSet(flags) \cap QualityFlags # {} \/ "low" \in ConfidenceLabels(evidences))
RiskAgent(shown, flags) == BlockedOr(shown, flags # <<>> \/ HumanReviewRequired(shown))
MomentumAgent(signal) == WarnsIf(signal.quick)
EvidenceAgent(evidences) == WarnsIf(evidences = <<>> \/ "low" \in ConfidenceLabels(evidences))
ReportAgent(shown) == BlockedOr(shown, HumanReviewRequired(shown))

NextActions(signal, shown) ==
    BoundedUnique(
        << CASE shown = "blocked" -> "resolve_blockers"
             [] shown = "needs_human_review" -> "manual_review"
             [] shown = "candidate" -> "run_review"
             [] shown = "approved" -> "use_approved_state" >>
          \o When(signal.quick, "compare_next_scan")
          \o When(signal.priority = "P2", "keep_observing")
          \o When(signal.priority # "P2", "refresh_snapshots")
          \o <<"personal_research">>,
        5)

SignalBrief(signal, status, evidences, review) ==
    LET shown == ReviewStatus(status, review)
        flags == RiskFlags(signal, status, evidences, review)
    IN  [shown |-> shown, status |-> status, flags |-> ToSet(flags),
         data |-> DataQualityAgent(flags, evidences), risk |-> RiskAgent(shown, flags),
         momentum |-> MomentumAgent(signal), evidence |-> EvidenceAgent(evidences),
         report |-> ReportAgent(shown), actions |-> NextActions(signal, shown)]
-----------------------------------------------------------------------------
(***************************************************************************)
(* Reviews, previews and briefs of one signal.                             *)
(***************************************************************************)
VARIABLES case,         \* the signal and its evidences
          status,       \* signal.review_status
          reviews,      \* committed reviews, oldest first
          reader        \* per reader: where it is and what it has read

vars == <<case, status, reviews, reader>>

Verdicts == {"approved", "needs_human_review", "blocked"}
ReviewRows == [verdict: Verdicts, reasons: Seq(ToSet(ReasonOrder))]
Idle == [pc |-> "idle", status |-> "candidate", latest |-> NoReviewRow, payload |-> FALSE]

TypeOK ==
    /\ case \in Cases
    /\ status \in Verdicts \cup {"candidate"}
    /\ reviews \in Seq(ReviewRows)
    /\ reader \in [Readers -> [pc: {"idle", "signal_read", "done"},
                               status: Verdicts \cup {"candidate"},
                               latest: ReviewRows \cup {NoReviewRow}, payload: BOOLEAN]]

Init ==
    /\ case \in Cases
    /\ status = "candidate"
    /\ reviews = <<>>
    /\ reader = [r \in Readers |-> Idle]

StatusWithoutReview(context) ==                              \* mutant
    /\ status' = EvaluateSignal(case.signal, case.evidences)
    /\ reviews' = IF status = "candidate" THEN reviews
                  ELSE Append(reviews, [verdict |-> status, reasons |-> <<>>])
    /\ UNCHANGED <<case, reader>>

\* The verdict goes to the signal and to a new review in one commit.
Review(context) ==
    LET verdict == EvaluateSignal(case.signal, case.evidences)
    IN  /\ status' = verdict
        /\ reviews' = Append(reviews, [verdict |-> verdict, reasons |->
              ContextualReviewReasons(context, case.signal, case.evidences)])
        /\ UNCHANGED <<case, reader>>

\* POST /signals/{id}/review: 409 for a signal outside the scope.
ReviewCandidate ==
    /\ Len(reviews) < MaxReviews
    /\ ScopeReasons(case.signal) # {}
    /\ Review("signal_candidate")

\* A report on the signal reviews it whatever its scope.
ReviewForReport ==
    /\ Len(reviews) < MaxReviews
    /\ Review("report_publication")

ReadSignal(r) ==
    /\ reader[r].pc = "idle"
    /\ reader' = [reader EXCEPT ![r] = [@ EXCEPT !.pc = "signal_read", !.status = status]]
    /\ UNCHANGED <<case, status, reviews>>

\* The last statement; the payload is given out only for a READY preview.
ReadLatestReview(r) ==
    LET latest == IF reviews = <<>> THEN NoReviewRow ELSE Last(reviews)
    IN  /\ reader[r].pc = "signal_read"
        /\ reader' = [reader EXCEPT ![r] =
              [@ EXCEPT !.pc = "done", !.latest = latest,
                        !.payload = ShareBlockedReasons(reader[r].status, case.evidences,
                                                        latest.verdict) = {}]]
        /\ UNCHANGED <<case, status, reviews>>

AskAgain(r) ==
    /\ reader[r].pc = "done"
    /\ reader' = [reader EXCEPT ![r] = Idle]
    /\ UNCHANGED <<case, status, reviews>>

Next ==
    \/ ReviewCandidate
    \/ ReviewForReport
    \/ \E r \in Readers : ReadSignal(r) \/ ReadLatestReview(r) \/ AskAgain(r)

Spec == Init /\ [][Next]_vars

-----------------------------------------------------------------------------
\* A public payload is only given out for a signal whose evidences the rules
\* approve, all of them under a policy that allows it, and carries no label that
\* warns of the evidence (get_radar_signal_share_preview against a review that is
\* committed between its statements).
SharedIsSound ==
    \A r \in Readers : reader[r].payload =>
        /\ EvaluateSignal(case.signal, case.evidences) = "approved"
        /\ \A e \in ToSet(case.evidences) :
              /\ e.policy \in SafeSharePolicies
              /\ ShareEvidence(e).confidence # "low"
              /\ ShareEvidence(e).freshness # "may_be_expired"

\* A preview that shows a signal as reviewed has a review to show for it, with
\* the same verdict, whenever the review is committed.
PreviewsHaveTheirReview ==
    \A r \in Readers :
        reader[r].pc = "done" /\ reader[r].status # "candidate" =>
            reader[r].latest.verdict = reader[r].status

Brief(r) == SignalBrief(case.signal, reader[r].status, case.evidences, reader[r].latest)

\* However a review falls between its reads, a brief opens the report gate only
\* for evidence the rules approve.
ReportGateIsSound ==
    \A r \in Readers : reader[r].pc = "done" /\ Brief(r).report = "ok" =>
        EvaluateSignal(case.signal, case.evidences) = "approved"

\* The data agent of a brief is satisfied with nothing a share preview would label
\* as of low confidence or as expired.
DataAgentIsSound ==
    \A r \in Readers : reader[r].pc = "done" /\ Brief(r).data = "ok" =>
        \A e \in ToSet(case.evidences) :
            ShareEvidence(e).confidence # "low" /\ ShareEvidence(e).freshness # "may_be_expired"

\* A brief of a blocked signal names a blocking reason: the scope and priority
\* reasons stored before it never push it out of the bounded list of flags.
BlockersAreShown ==
    \A r \in Readers : reader[r].pc = "done" /\ Brief(r).shown = "blocked" =>
        Brief(r).flags \cap BlockingReasons # {}
=============================================================================
