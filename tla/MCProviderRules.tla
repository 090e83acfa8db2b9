--------------------------- MODULE MCProviderRules ---------------------------
(***************************************************************************)
(* ProviderRules over bounded inputs: each initial state is a request, and *)
(* answer is empty until the request is evaluated.                         *)
(***************************************************************************)
EXTENDS ProviderRules, Sequences

CONSTANTS Required,     \* numbers of required columns
          RowCounts     \* numbers of rows

\* Assumed of the constants by the modules that give them values.
InputsAssumption == Required \subseteq Nat \ {0} /\ RowCounts \subseteq Nat

VARIABLES request, answer
vars == <<request, answer>>

\* One attempt of each kind that the readiness view tells apart.
Attempts == {NoAttempt,
             [result |-> "failure", rows |-> 0, missing |-> 0],
             [result |-> "success", rows |-> 0, missing |-> 0],
             [result |-> "success", rows |-> 3, missing |-> 1],
             [result |-> "success", rows |-> 3, missing |-> 0]}

Init ==
    /\ answer = <<>>
    /\ request \in
        [kind: {"daily"}, query: SUBSET DailyParameters]
          \cup [kind: {"readiness"}, token: BOOLEAN,
                latest: [TushareEndpoints -> Attempts]]
          \cup [kind: {"dataset"}, required: Required]

AnswerDaily ==
    /\ request.kind = "daily"
    /\ answer' = <<IF ValidDailyQuery(request.query)
                   THEN FetcherArguments("daily", request.query) ELSE {}>>

AnswerReadiness ==
    /\ request.kind = "readiness"
    /\ answer' = <<OverallReadiness(request.token, request.latest)>>

AnswerDataset ==
    /\ request.kind = "dataset"
    /\ answer' = <<[x \in RowCounts \X (0..request.required) |->
                      [status |-> QualityStatus(x[1], x[2]),
                       confidence |-> Confidence(x[1], request.required, x[2])]]>>

Next == /\ answer = <<>>
        /\ AnswerDaily \/ AnswerReadiness \/ AnswerDataset
        /\ UNCHANGED request
Spec == Init /\ [][Next]_vars

Answered(kind) == request.kind = kind /\ answer # <<>>
Reply == answer[1]

-----------------------------------------------------------------------------
\* A daily query that the route accepts is never sent without a date or a code,
\* nor with half of a range: routes/providers.py rejects and tushare.py fills in.
DailyQueriesAreBounded ==
    Answered("daily") /\ Reply # {} =>
        /\ Reply \cap {"trade_date", "ts_code"} # {}
        /\ "start_date" \in Reply <=> "end_date" \in Reply
        /\ "start_date" \in Reply => "ts_code" \in Reply /\ "trade_date" \notin Reply

\* The scheduling gate and the readiness checks of anns_d are computed apart and
\* agree: the one endpoint with a schedule is eligible exactly when it is ready.
EligibleIffReady ==
    request.kind = "readiness" =>
        (SchedulerEligible("anns_d", request.token, request.latest["anns_d"])
            <=> EndpointStatus("anns_d", request.token, request.latest["anns_d"]) = "ready")

Rank(status) == CASE status = "blocked" -> 0 [] status = "warning" -> 1
                  [] status = "ready" -> 2
Quality(attempt) == CASE attempt.result = "failure" -> 0
                      [] attempt.result = "none" -> 1
                      [] attempt.result = "success" ->
                            IF CheckStatus(attempt) = "ok" THEN 2 ELSE 1

\* No better attempt at an endpoint makes the overall readiness worse.
ReadinessIsMonotone ==
    Answered("readiness") =>
        \A e \in TushareEndpoints, a \in Attempts :
            Quality(a) >= Quality(request.latest[e]) =>
                Rank(OverallReadiness(request.token, [request.latest EXCEPT ![e] = a]))
                    >= Rank(Reply)

\* Confidence orders datasets as their quality does: every degraded one is below
\* every ok one, and neither an empty result nor a missing column raises it.
ConfidenceFollowsQuality ==
    Answered("dataset") =>
        \A x, y \in DOMAIN Reply :
            /\ Reply[x].status = "degraded" /\ Reply[y].status = "ok" =>
                  Reply[x].confidence < Reply[y].confidence
            /\ (x[1] = 0 \/ y[1] > 0) /\ x[2] >= y[2] =>
                  Reply[x].confidence <= Reply[y].confidence
=============================================================================
