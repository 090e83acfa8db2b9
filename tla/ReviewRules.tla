----------------------------- MODULE ReviewRules -----------------------------
(***************************************************************************)
(* The verdict of a review on a signal and its evidences, the scope in     *)
(* which candidates are reviewed, the matcher of forbidden trading         *)
(* language (governance/review.py), and what a share preview shows of a    *)
(* reviewed signal (governance/share.py).                                  *)
(*                                                                         *)
(* Confidence is in hundredths, ages are in hours and values in units of   *)
(* a quarter of the numeric tolerance.  A free text is the set of the      *)
(* words the rules look for in it: freshness and markers.                  *)
(*                                                                         *)
(* A definition marked "mutant" is a plausible mistake in the definition   *)
(* that follows it; nothing uses it but the tests of the properties.       *)
(***************************************************************************)
EXTENDS Integers, Sequences, FiniteSets, SequencesExt

CONSTANTS Terms,          \* the forbidden terms, as sequences of letters
          SafePhrases,    \* a sequence: the phrases are removed in this order
          Negations, Separators

\* Assumed of the constants by the modules that give them values.
TermsAssumption == \A t \in Terms : t \in Seq(UNION {ToSet(x) : x \in Terms}) /\ t # <<>>

-----------------------------------------------------------------------------
(***************************************************************************)
(* The matcher.  A text is a sequence of letters.                          *)
(***************************************************************************)
OccursAt(text, word, i) ==
    i + Len(word) - 1 <= Len(text) /\ SubSeq(text, i, i + Len(word) - 1) = word

\* str.replace(phrase, ""): from the left, the occurrences do not overlap.
WithoutPhrase(text, phrase) ==
    LET from[i \in 1..(Len(text) + 1)] ==
            IF i > Len(text) THEN <<>>
            ELSE IF OccursAt(text, phrase, i) THEN from[i + Len(phrase)]
            ELSE <<text[i]>> \o from[i + 1]
    IN  from[1]

MaskSafeLanguage(text) == FoldLeft(WithoutPhrase, text, SafePhrases)

NormalizeLanguage(text) == SelectSeq(text, LAMBDA c : c \notin Separators)

\* Every negation is shorter than the eight characters that are looked at.
SafelyNegated(text, i) ==
    \E n \in Negations : IsSuffix(n, SubSeq(text, 1, i - 1))

\* Looks past every negated occurrence for one that is not.
HasUnsafeTerm(text, term) ==
    LET from[i \in 1..(Len(text) + 1)] ==
            IF i > Len(text) THEN FALSE
            ELSE IF ~OccursAt(text, term, i) THEN from[i + 1]
            ELSE ~SafelyNegated(text, i) \/ from[i + Len(term)]
    IN  from[1]

MatchedTerms(text) ==
    LET reviewable == NormalizeLanguage(MaskSafeLanguage(text))
    IN  {t \in Terms : HasUnsafeTerm(reviewable, t)}

-----------------------------------------------------------------------------
(***************************************************************************)
(* The verdict.                                                            *)
(***************************************************************************)
LowConfidenceThreshold == 50
StaleSourceMaxAge == 48
NumericTolerance == 4
StaleMarkers == {"stale", "expired", "outdated", "too_old", "data_expired_cn", "source_expired_cn"}

\* A signal says how many evidences it has; the rows may have been lost.
MissingEvidence(signal, evidences) ==
    Len(evidences) = 0 \/ Len(evidences) < signal.evidence_count
CountMismatch(signal, evidences) ==
    Len(evidences) > 0 /\ Len(evidences) # signal.evidence_count

QualityStatuses(signal, evidences) ==
    ({signal.quality} \cup {e.quality : e \in ToSet(evidences)}) \ {"none"}

Distance(a, b) == IF a >= b THEN a - b ELSE b - a
ValuesConflict(a, b) == Distance(a, b) > NumericTolerance

\* A field both have with different values, or an evidence that says so itself.
EvidenceConflict(signal, evidences) ==
    \E e \in ToSet(evidences) :
        \/ e.conflict
        \/ \E f \in DOMAIN signal.metrics \cap DOMAIN e.metrics :
              ValuesConflict(signal.metrics[f], e.metrics[f])

\* A hint counted twice within one list of the signal or of an evidence.
DuplicateHints(signal, evidences) ==
    \E hints \in {signal.hints} \cup {e.hints : e \in ToSet(evidences)} : ~IsInjective(hints)

\* source_time holds the time, or none; a source dated after its collection has no age.
SourceAgeIsStale(e) ==
    \E t \in e.source_time : e.collected_at - t > StaleSourceMaxAge

FreshnessIsStale(e) == e.freshness \cap StaleMarkers # {}

StaleSource(evidences) ==
    \E e \in ToSet(evidences) : SourceAgeIsStale(e) \/ FreshnessIsStale(e)

LowConfidence(evidences) ==
    \E e \in ToSet(evidences) : e.confidence < LowConfidenceThreshold

ReviewReasons(signal, evidences) ==
    {r \in {"forbidden_trading_language"} : signal.forbidden
                \/ \E e \in ToSet(evidences) : e.forbidden}
    \cup {r \in {"missing_evidence"} : MissingEvidence(signal, evidences)}
    \cup {r \in {"failed_provider_quality"} : "failed" \in QualityStatuses(signal, evidences)}
    \cup {r \in {"evidence_count_mismatch"} : CountMismatch(signal, evidences)}
    \cup {r \in {"low_evidence_confidence"} : LowConfidence(evidences)}
    \cup {r \in {"provider_quality_needs_review"} :
            QualityStatuses(signal, evidences) \cap {"degraded", "unknown"} # {}}
    \cup {r \in {"evidence_conflict"} : EvidenceConflict(signal, evidences)}
    \cup {r \in {"duplicate_trigger_review_hints"} : DuplicateHints(signal, evidences)}
    \cup {r \in {"stale_source"} : StaleSource(evidences)}

BlockingReasons ==
    {"forbidden_trading_language", "missing_evidence", "failed_provider_quality"}

HumanFirst(signal, evidences) ==                             \* mutant
    LET reasons == ReviewReasons(signal, evidences)
    IN  IF reasons \ BlockingReasons # {} THEN "needs_human_review"
        ELSE IF reasons # {} THEN "blocked" ELSE "approved"

EvaluateSignal(signal, evidences) ==
    LET reasons == ReviewReasons(signal, evidences)
    IN  IF reasons \cap BlockingReasons # {} THEN "blocked"
        ELSE IF reasons # {} THEN "needs_human_review" ELSE "approved"

-----------------------------------------------------------------------------
(***************************************************************************)
(* Which candidates the review route takes.  markers are the words found   *)
(* in the subject type and anywhere in the metrics.                        *)
(***************************************************************************)
ScopeReasons(signal) ==
    {r \in {"p0_candidate"} : signal.priority = "P0"}
    \cup {r \in {"p1_quick_report_candidate"} : signal.priority = "P1" /\ signal.quick}
    \cup {r \in {"risk_candidate"} : "risk" \in signal.markers}
    \cup {r \in {"holding_watchlist_related_candidate"} : "holding" \in signal.markers}

PriorityReasons(signal) ==
    {r \in {"high_priority_review"} : signal.priority = "P0"}
    \cup {r \in {"quick_report_review"} : signal.quick}

\* The reasons stored with a review, in the order they are appended.
ReasonOrder ==
    <<"report_publication_review", "p0_candidate", "p1_quick_report_candidate",
      "risk_candidate", "holding_watchlist_related_candidate", "high_priority_review",
      "quick_report_review", "forbidden_trading_language", "missing_evidence",
      "evidence_count_mismatch", "low_evidence_confidence", "failed_provider_quality",
      "provider_quality_needs_review", "evidence_conflict",
      "duplicate_trigger_review_hints", "stale_source", "rule_review_passed">>

ContextualReviewReasons(context, signal, evidences) ==
    LET decision == ReviewReasons(signal, evidences)
        all == (IF context = "report_publication" THEN {"report_publication_review"}
                ELSE ScopeReasons(signal))
                 \cup PriorityReasons(signal) \cup decision
                 \cup {r \in {"rule_review_passed"} : decision = {}}
    IN  SelectSeq(ReasonOrder, LAMBDA r : r \in all)

-----------------------------------------------------------------------------
(***************************************************************************)
(* The share preview.  latest is the latest review or NoReview.            *)
(***************************************************************************)
NoReview == "no_review"
SafeSharePolicies == {"internal_summary_only", "public_summary"}

ShareBlockedReasons(status, evidences, latest) ==
    {r \in {"review_required"} : latest = NoReview}
    \cup {r \in {"latest_review_not_approved"} : latest \notin {NoReview, "approved"}}
    \cup {r \in {"signal_review_not_approved"} : status # "approved"}
    \cup {r \in {"unsafe_public_share_policy"} :
            \E e \in ToSet(evidences) : e.policy \notin SafeSharePolicies}
    \cup {r \in {"missing_evidence"} : evidences = <<>>}

ConfidenceLabel(confidence) ==
    CASE confidence >= 80 -> "high"
      [] confidence \in 50..79 -> "medium"
      [] confidence < 50 -> "low"

\* The markers in Chinese are not known here, the other stale ones go first.
FreshnessLabel(freshness) ==
    IF freshness \cap {"stale", "expired", "outdated", "too_old"} # {} THEN "may_be_expired"
    ELSE IF freshness \cap {"latest", "fresh", "current", "realtime"} # {} THEN "recent"
    ELSE IF freshness \cap {"unknown", "no_source_time"} # {} THEN "unknown"
    ELSE "to_be_confirmed"

ShareEvidence(e) ==
    [confidence |-> ConfidenceLabel(e.confidence), freshness |-> FreshnessLabel(e.freshness)]
=============================================================================
