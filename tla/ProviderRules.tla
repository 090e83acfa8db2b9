---------------------------- MODULE ProviderRules ----------------------------
(***************************************************************************)
(* What the providers decide about one attempt to fetch an endpoint, and   *)
(* what the readiness view of Tushare says about the latest attempts       *)
(* (providers/akshare.py, tushare.py, service.py, api/routes/providers.py).*)
(*                                                                         *)
(* An attempt is a record: its result is "failure" when the fetch raised,  *)
(* else "success" with a number of rows and of required columns missing.   *)
(* Confidence is in hundredths.                                            *)
(*                                                                         *)
(* A definition marked "mutant" is a plausible mistake in the definition   *)
(* that follows it; nothing uses it but the tests of the properties.       *)
(***************************************************************************)
EXTENDS Integers, FiniteSets

Larger(a, b) == IF a >= b THEN a ELSE b

\* The same function in akshare.py and tushare.py.
QualityStatus(rows, missing) ==
    IF rows <= 0 \/ missing > 0 THEN "degraded" ELSE "ok"

\* round(ratio, 2) of the share of the required columns that is present.
Confidence(rows, required, missing) ==
    IF rows <= 0 THEN 25
    ELSE IF missing <= 0 THEN 95
    ELSE Larger(45, (200 * Larger(required - missing, 0) + required)
                       \div (2 * Larger(required, 1)))

-----------------------------------------------------------------------------
(***************************************************************************)
(* Queries of the daily endpoint.  A query is the set of its parameters.   *)
(***************************************************************************)
DailyParameters == {"trade_date", "ts_code", "start_date", "end_date"}

\* _ensure_valid_tushare_daily_query raises in the other cases.
ValidDailyQuery(query) ==
    LET range == query \cap {"start_date", "end_date"}
    IN  /\ ~("trade_date" \in query /\ range # {})
        /\ range \in {{}, {"start_date", "end_date"}}
        /\ ~("ts_code" \notin query /\ range # {})

\* What is sent: the endpoint's own parameters, the caller's, today's date for
\* an endpoint by date that got none, and the list of columns.
FetcherArguments(endpoint, query) ==
    {"fields"}
        \cup query
        \cup (CASE endpoint = "stock_company" -> {"exchange"}
                [] endpoint = "stock_basic" -> {"exchange", "list_status"}
                [] endpoint = "anns_d" -> {"ann_date"}
                [] endpoint = "daily" -> IF query = {} THEN {"trade_date"} ELSE {})

-----------------------------------------------------------------------------
(***************************************************************************)
(* Readiness of Tushare for a schedule.                                    *)
(***************************************************************************)
TushareEndpoints == {"daily", "anns_d", "stock_company", "stock_basic"}
Implemented(endpoint) == endpoint \in TushareEndpoints
NoAttempt == [result |-> "none", rows |-> 0, missing |-> 0]

\* An attempt with every conversion done: what its log and its check say.
CheckStatus(attempt) ==
    IF attempt.result = "failure" THEN "failed"
    ELSE QualityStatus(attempt.rows, attempt.missing)

LatestFetchReadiness(latest) ==
    CASE latest.result = "none" -> "warning"
      [] latest.result = "success" -> IF latest.rows > 0 THEN "ok" ELSE "warning"
      [] latest.result = "failure" -> "fail"

\* The check read is the one of the latest log.
QualityReadiness(latest) ==
    IF latest.result = "none" THEN "warning"
    ELSE CASE CheckStatus(latest) = "ok" -> "ok"
           [] CheckStatus(latest) = "failed" -> "fail"
           [] CheckStatus(latest) = "degraded" -> "warning"

\* Only an endpoint with neither default parameters nor a date of its own warns.
QueryReadiness(endpoint) ==
    IF endpoint \in {"stock_company", "stock_basic", "anns_d", "daily"}
    THEN "ok" ELSE "warning"

ReadinessChecks(endpoint, token, latest) ==
    { IF token THEN "ok" ELSE "fail",
      IF Implemented(endpoint) THEN "ok" ELSE "fail",
      QueryReadiness(endpoint),
      LatestFetchReadiness(latest),
      QualityReadiness(latest) }

ProviderReadinessStatus(checks) ==
    CASE "fail" \in checks -> "blocked"
      [] "fail" \notin checks /\ "warning" \in checks -> "warning"
      [] OTHER -> "ready"

EndpointStatus(endpoint, token, latest) ==
    ProviderReadinessStatus(ReadinessChecks(endpoint, token, latest))

\* Computed apart from the checks above.
SchedulerEligible(endpoint, token, latest) ==
    /\ endpoint = "anns_d"
    /\ Implemented(endpoint) /\ token
    /\ latest.result = "success"
    /\ latest.rows > 0
    /\ CheckStatus(latest) = "ok"

WarningFirst(token, latest) ==                               \* mutant
    LET statuses == {EndpointStatus(e, token, latest[e]) : e \in TushareEndpoints}
    IN  CASE "warning" \in statuses -> "warning"
          [] "warning" \notin statuses /\ (~token \/ "blocked" \in statuses) -> "blocked"
          [] OTHER -> "ready"

OverallReadiness(token, latest) ==
    LET statuses == {EndpointStatus(e, token, latest[e]) : e \in TushareEndpoints}
    IN  CASE ~token \/ "blocked" \in statuses -> "blocked"
          [] token /\ statuses \cap {"blocked", "warning"} = {"warning"} -> "warning"
          [] OTHER -> "ready"
=============================================================================
