---------------------------- MODULE MCReviewRules ----------------------------
(***************************************************************************)
(* ReviewRules over bounded inputs: every text up to a length in a small   *)
(* alphabet, and every set of up to three defects of a signal.             *)
(***************************************************************************)
EXTENDS ReviewRules

CONSTANT MaxText        \* bound on the length of a text

\* Assumed of the constants by the modules that give them values.
BoundsAssumption == MaxText \in Nat

\* bu: not, shi: is, mai hao: buy signal, bao: sure profit.  Two phrases are safe: "no sure
\* profit", whose term is also negated, and "is not a buy signal", whose term is not.
Letters == {"bu", "shi", "mai", "hao", "bao", ","}

\* What can be wrong with a signal (0) or an evidence (1, 2), one defect each.
Defects ==
    ({0} \X {"forbidden", "failed", "degraded", "hints", "lost", "extra"})
      \cup ({1, 2} \X {"forbidden", "failed", "unknown", "hints", "conflict", "metrics",
                        "stale", "marked", "marked_cn", "confidence"})

Quality(D, x) == IF <<x, "failed">> \in D THEN "failed"
                 ELSE IF <<x, "degraded">> \in D THEN "degraded"
                 ELSE IF <<x, "unknown">> \in D THEN "unknown" ELSE "ok"
Hints(D, x) == IF <<x, "hints">> \in D THEN <<"breadth", "leader", "breadth">>
               ELSE <<"breadth", "leader">>

SignalWith(D) ==
    [evidence_count |-> IF <<0, "lost">> \in D THEN 3 ELSE IF <<0, "extra">> \in D THEN 1 ELSE 2,
     forbidden |-> <<0, "forbidden">> \in D, quality |-> Quality(D, 0),
     hints |-> Hints(D, 0), metrics |-> [pct_change |-> 10, breadth |-> 20]]

EvidencesWith(D) ==
    [x \in {1, 2} |->
        [confidence |-> IF <<x, "confidence">> \in D THEN 49 ELSE 50,
         forbidden |-> <<x, "forbidden">> \in D, quality |-> Quality(D, x),
         hints |-> Hints(D, x), conflict |-> <<x, "conflict">> \in D,
         metrics |-> [pct_change |-> IF <<x, "metrics">> \in D THEN 15 ELSE 14],
         source_time |-> IF x = 1 THEN {0} ELSE {},
         collected_at |-> IF <<x, "stale">> \in D THEN 49 ELSE 48,
         freshness |-> {"latest"} \cup {m \in {"expired"} : <<x, "marked">> \in D}
                          \cup {m \in {"data_expired_cn"} : <<x, "marked_cn">> \in D},
         policy |-> "public_summary"]]

VARIABLES request, answer
vars == <<request, answer>>

Init ==
    /\ answer = <<>>
    /\ \/ \E n \in 0..MaxText : \E text \in [1..n -> Letters] :
              request = [kind |-> "text", text |-> text]
       \/ \E D \in {{}} \cup {{a, b, c} : a, b, c \in Defects} :
              request = [kind |-> "verdict", defects |-> D]

AnswerText ==
    /\ request.kind = "text"
    /\ answer' = <<MatchedTerms(request.text)>>

AnswerVerdict ==
    /\ request.kind = "verdict"
    /\ answer' = <<EvaluateSignal(SignalWith(request.defects), EvidencesWith(request.defects))>>

Next == /\ answer = <<>>
        /\ AnswerText \/ AnswerVerdict
        /\ UNCHANGED request
Spec == Init /\ [][Next]_vars

Answered(kind) == request.kind = kind /\ answer # <<>>
Reply == answer[1]

-----------------------------------------------------------------------------
\* Where a text shows a term, over separators, that no negation stands before.
Shows(text, term) ==
    LET letters == SelectSeq(text, LAMBDA c : c # ",")
    IN  \E i \in DOMAIN letters : OccursAt(letters, term, i) /\ ~SafelyNegated(letters, i)
HasSafePhrase(text) ==
    \E p \in ToSet(SafePhrases) : \E i \in DOMAIN text : OccursAt(text, p, i)
\* A negation may begin at the end of one field and end in the next.
EndsInNegation(text) ==
    LET letters == NormalizeLanguage(MaskSafeLanguage(text))
    IN  \E n \in Negations : \E k \in DOMAIN n : IsSuffix(SubSeq(n, 1, k), letters)

\* Safe phrases are masked before separators are dropped, so a separator takes a phrase
\* apart but hides nothing of its own: a text without an intact safe phrase has exactly
\* the terms it shows, and of the fields of a signal, which _reviewable_text joins with a
\* separator, a later one never excuses a term of an earlier one, nor an earlier one a
\* term of a later one unless it ends in a negation (matched_unsafe_trading_terms).
SeparatorsNeverHide ==
    Answered("text") =>
        /\ ~HasSafePhrase(request.text) => Reply = {t \in Terms : Shows(request.text, t)}
        /\ \A i \in {k \in DOMAIN request.text : request.text[k] = ","} :
              LET earlier == SubSeq(request.text, 1, i - 1)
                  later == SubSeq(request.text, i + 1, Len(request.text))
              IN  /\ MatchedTerms(earlier) \subseteq Reply
                  /\ EndsInNegation(earlier) \/ MatchedTerms(later) \subseteq Reply

\* A negated mention of a term never excuses a later one (_has_unsafe_term).
EarlierMentionsNeverExcuse ==
    Answered("text") =>
        Reply \subseteq MatchedTerms(<<"bu", "mai", "hao", "shi">> \o request.text)

Severity(verdict) == CASE verdict = "approved" -> 0 [] verdict = "needs_human_review" -> 1
                       [] verdict = "blocked" -> 2

\* One more defect anywhere in a signal or its evidences never improves the
\* verdict, and no defect is waved through: only a clean signal is approved.
\* Without a source time there is no age to be stale.
VerdictIsMonotone ==
    Answered("verdict") =>
        /\ Reply = "approved" <=> request.defects \subseteq {<<2, "stale">>}
        /\ \A d \in Defects :
              LET more == request.defects \cup {d}
              IN  Severity(EvaluateSignal(SignalWith(more), EvidencesWith(more)))
                    >= Severity(Reply)

\* A share preview of approved evidences never has to label one of them as of low
\* confidence or as expired: the review's thresholds and markers cover the labels'.
ApprovedHasSoundLabels ==
    Answered("verdict") /\ Reply = "approved" =>
        \A x \in {1, 2} :
            LET label == ShareEvidence(EvidencesWith(request.defects)[x])
            IN  label.confidence # "low" /\ label.freshness # "may_be_expired"
=============================================================================
