------------------------------ MODULE OpsViews ------------------------------
(***************************************************************************)
(* The read-only views of ops/service.py over the scan batches and the     *)
(* provider, quality, push and model logs: the overview with its alerts,   *)
(* the readiness verdict, the history, the failure summary and the trend   *)
(* buckets.  Each is read statement by statement while the workers go on   *)
(* writing.  Times are integers; bucket bounds are rounded to the unit as  *)
(* timedelta rounds to the microsecond.                                    *)
(***************************************************************************)
EXTENDS Integers, Sequences, FiniteSets, SequencesExt, FiniteSetsExt

CONSTANTS Statuses,        \* kind of log -> the statuses its rows are written with
          LOOKBACK,        \* the window of a view
          BUCKETS,         \* bucket_count of the trends
          LIMIT,           \* limit of the history
          StaleAfter,      \* RADAR_STALE_INTERVAL_MULTIPLIER scan intervals
          PushEnabled,     \* TELEGRAM_PUSH_ENABLED
          Views,           \* the views that are asked for: "overview", "history", "trends"
          Servers,         \* the server states an overview may meet
          Before,          \* the tables a model may begin with
          MaxRows, MaxTime \* bounds of the rows recorded by and by, and of the clock

LogKinds == <<"provider_fetch", "data_quality", "telegram_push", "model_call">>
Kinds == {"radar_scan"} \cup ToSet(LogKinds)
Order == <<"radar_scan">> \o LogKinds
\* the order of the kinds' names, the second sorting key of the history
KindOrder == <<"data_quality", "model_call", "provider_fetch", "radar_scan", "telegram_push">>

\* Assumed of the constants by the modules that give them values.
OpsAssumption ==
    /\ DOMAIN Statuses = Kinds /\ LOOKBACK \in Nat \ {0} /\ BUCKETS \in Nat \ {0}
    /\ LIMIT \in Nat \ {0} /\ StaleAfter \in Nat /\ PushEnabled \in BOOLEAN
    /\ Servers \subseteq [disk : {"ok", "low", "error"}, cpu : {"ok", "high", "error"},
                    memory : {"ok", "high", "error"}]
    /\ Views \subseteq {"overview", "history", "trends"} /\ \A b \in Before : DOMAIN b = Kinds

VARIABLES clock, rows, report
vars == <<clock, rows, report>>

Missing == <<>>
Resting == [pc |-> "idle"]

Healthy(kind) ==
    CASE kind = "data_quality" -> {"ok"}
      [] kind = "telegram_push" -> {"sent", "preview", "skipped"}
      [] kind = "radar_scan" -> Statuses["radar_scan"] \ {"failure"}
      [] OTHER -> {"success"}

Init == clock = 0 /\ rows \in Before /\ report = Resting

\* a worker appends a row; rows keep the order of their ids
Record(kind, status) ==
    /\ FoldFunction(LAMBDA s, n : Cardinality({i \in DOMAIN s : s[i].at >= 0}) + n, 0, rows) < MaxRows
    /\ rows' = [rows EXCEPT ![kind] = Append(@, [status |-> status, at |-> clock])]
    /\ UNCHANGED <<clock, report>>
FinishScan(i, status) ==
    /\ rows["radar_scan"][i].status = "running" /\ status # "running"
    /\ rows' = [rows EXCEPT !["radar_scan"][i].status = status]
    /\ UNCHANGED <<clock, report>>
Tick == clock < MaxTime /\ clock' = clock + 1 /\ UNCHANGED <<rows, report>>

InWindow(kind, since) == {i \in DOMAIN rows[kind] : rows[kind][i].at >= since}
_status_counts(kind, since) ==
    [s \in Statuses[kind] |-> Cardinality({i \in InWindow(kind, since) : rows[kind][i].status = s})]
Total(counts) == FoldFunction(+, 0, counts)
Unhealthy(kind, counts) ==
    FoldFunctionOnSet(+, 0, counts, DOMAIN counts \ Healthy(kind))
\* order_by(desc(time), desc(id)).limit(1)
Latest(kind) == IF rows[kind] = <<>> THEN Missing ELSE Last(rows[kind])

(* get_ops_overview, one action a statement *)
StartReport(server) ==
    /\ report.pc = "idle" /\ "overview" \in Views
    /\ report' = [pc |-> "latest", view |-> "overview", now |-> clock, since |-> clock - LOOKBACK, server |-> server,
                  latest |-> Missing, counts |-> <<>>,
                  bad |-> {k \in ToSet(LogKinds) : \E i \in InWindow(k, clock - LOOKBACK) :
                              rows[k][i].status \notin Healthy(k)}]
    /\ UNCHANGED <<clock, rows>>
ReadLatestScan ==
    /\ report.pc = "latest"
    /\ report' = [report EXCEPT !.pc = "radar_scan", !.latest = Latest("radar_scan")]
    /\ UNCHANGED <<clock, rows>>
NextRead(kind) ==
    LET i == CHOOSE n \in 1 .. 5 : Order[n] = kind IN IF i = 5 THEN "done" ELSE Order[i + 1]
ReadCounts(kind) ==
    /\ report.pc = kind
    /\ report' = [report EXCEPT !.pc = NextRead(kind),
                    !.counts = Append(@, <<kind, _status_counts(kind, report.since)>>)]
    /\ UNCHANGED <<clock, rows>>
CloseReport == report.pc = "done" /\ report' = Resting /\ UNCHANGED <<clock, rows>>

CountsOf(kind) == LET i == CHOOSE n \in DOMAIN report.counts : report.counts[n][1] = kind
                  IN report.counts[i][2]
Stale == report.latest = Missing \/ report.now - report.latest.at > StaleAfter
\* the failure rate is at least num/den (the code compares it rounded to four places)
FailureRate(num, den) ==
    LET counts == CountsOf("radar_scan") IN
    Total(counts) > 0 /\ Unhealthy("radar_scan", counts) * den >= Total(counts) * num

\* parts of the system with an alert: the code of _ops_alerts
_ops_alerts ==
    {p \in {"radar_freshness"} : report.latest = Missing \/ Stale}
    \cup {p \in {"radar_failure_rate"} : FailureRate(1, 5)}
    \cup {p \in ToSet(LogKinds) : Unhealthy(p, CountsOf(p)) > 0}
    \cup {p \in {"disk", "cpu", "memory"} : report.server[p] # "ok"}

_count_summary_readiness(kind, empty) ==
    LET c == CountsOf(kind) IN
    CASE Total(c) = 0 -> empty
      [] Total(c) > 0 /\ Unhealthy(kind, c) = Total(c) -> "fail"
      [] Unhealthy(kind, c) \in 1 .. Total(c) - 1 -> "warning"
      [] OTHER -> "ok"
_radar_freshness_readiness ==
    IF report.latest = Missing THEN "fail" ELSE IF Stale THEN "warning" ELSE "ok"
_radar_failure_readiness ==
    CASE Total(CountsOf("radar_scan")) = 0 -> "warning"
      [] FailureRate(1, 2) -> "fail"
      [] FailureRate(1, 5) /\ ~FailureRate(1, 2) -> "warning"
      [] OTHER -> "ok"
\* an unreadable disk fails, an unreadable CPU or memory warns
_server_disk_readiness == [ok |-> "ok", low |-> "warning", error |-> "fail"][report.server.disk]
_server_cpu_readiness == IF report.server.cpu = "ok" THEN "ok" ELSE "warning"
_server_memory_readiness == IF report.server.memory = "ok" THEN "ok" ELSE "warning"

_readiness_checks ==
    [p \in {"radar_freshness", "radar_failure_rate", "disk", "cpu", "memory"} \cup ToSet(LogKinds) |->
        CASE p = "radar_freshness" -> _radar_freshness_readiness
          [] p = "radar_failure_rate" -> _radar_failure_readiness
          [] p = "disk" -> _server_disk_readiness
          [] p = "cpu" -> _server_cpu_readiness
          [] p = "memory" -> _server_memory_readiness
          [] p = "telegram_push" /\ ~PushEnabled -> "ok"
          [] p = "model_call" -> _count_summary_readiness(p, "ok")
          [] OTHER -> _count_summary_readiness(p, "warning")]
_readiness_status ==
    LET seen == {_readiness_checks[p] : p \in DOMAIN _readiness_checks} IN
    CASE "fail" \in seen -> "blocked"
      [] "warning" \in seen /\ "fail" \notin seen -> "warning"
      [] OTHER -> "ready"

(* get_ops_history: five statements for the events, and five for the failure summary *)
SummaryStatuses(kind) == IF kind = "radar_scan" THEN {"failure"} ELSE Statuses[kind] \ Healthy(kind)
_failure_summary(kind, since) ==
    {[key |-> s, count |-> _status_counts(kind, since)[s]] :
        s \in {t \in SummaryStatuses(kind) : _status_counts(kind, since)[t] > 0}}

Event(kind, i) == [kind |-> kind, id |-> i, at |-> rows[kind][i].at, status |-> rows[kind][i].status]
Later(e, f) ==
    LET rank(k) == CHOOSE n \in 1 .. 5 : KindOrder[n] = k IN
    \/ e.at > f.at
    \/ e.at = f.at /\ rank(e.kind) > rank(f.kind)
    \/ e.at = f.at /\ e.kind = f.kind /\ e.id > f.id
\* every scan is an event, of the logs only the unhealthy rows
Eligible(kind, since) ==
    {Event(kind, i) : i \in {j \in InWindow(kind, since) :
        kind = "radar_scan" \/ rows[kind][j].status \notin Healthy(kind)}}
Newest(events, n) == {e \in events : Cardinality({f \in events : Later(f, e)}) < n}

\* what the tables hold in the window, by the counts of the overview
Held(kind, since) ==
    LET c == _status_counts(kind, since) IN [total |-> Total(c), bad |-> Unhealthy(kind, c)]
StartHistory ==
    /\ report.pc = "idle" /\ "history" \in Views
    /\ report' = [pc |-> "events", view |-> "history", kind |-> Order[1], since |-> clock - LOOKBACK,
                  events |-> {}, failures |-> <<>>,
                  known |-> UNION {Eligible(k, clock - LOOKBACK) : k \in Kinds},
                  held |-> [k \in Kinds |-> Held(k, clock - LOOKBACK)]]
    /\ UNCHANGED <<clock, rows>>
After(pc, next) ==
    IF NextRead(report.kind) = "done" THEN [report EXCEPT !.pc = next, !.kind = Order[1]]
    ELSE [report EXCEPT !.pc = pc, !.kind = NextRead(report.kind)]
ReadEvents ==
    /\ report.pc = "events"
    /\ report' = [After("events", "failures") EXCEPT
                    !.events = @ \cup Newest(Eligible(report.kind, report.since), LIMIT)]
    /\ UNCHANGED <<clock, rows>>
ReadFailures ==
    /\ report.pc = "failures"
    /\ report' = [After("failures", "done") EXCEPT
                    !.failures = Append(@, _failure_summary(report.kind, report.since))]
    /\ UNCHANGED <<clock, rows>>
recent_events == Newest(report.events, LIMIT)

(* get_ops_trends: a statement for each kind *)
RoundHalfEven(n, d) ==
    LET q == n \div d  r == n % d IN
    IF 2 * r < d THEN q ELSE IF 2 * r > d THEN q + 1 ELSE q + (q % 2)
_empty_trend_buckets ==
    [i \in 1 .. BUCKETS |->
        [from |-> report.since + RoundHalfEven((i - 1) * LOOKBACK, BUCKETS),
         to |-> IF i = BUCKETS THEN report.now
                ELSE report.since + RoundHalfEven(i * LOOKBACK, BUCKETS)]]
\* mutant: the end of the window belongs to no bucket
EndExcluded(at) == {i \in 1 .. BUCKETS : _empty_trend_buckets[i].from <= at /\ at < _empty_trend_buckets[i].to}
\* the first bucket that holds the time; the end of the window is in the last one
_trend_bucket_for(at) ==
    LET holds == {i \in 1 .. BUCKETS : _empty_trend_buckets[i].from <= at /\ at < _empty_trend_buckets[i].to} IN
    IF holds # {} THEN {Min(holds)} ELSE IF at = report.now THEN {BUCKETS} ELSE {}
Until(kind) == {i \in InWindow(kind, report.since) : rows[kind][i].at <= report.now}
_fill_status_trend_counts(kind, bucket, statuses) ==
    Cardinality({i \in Until(kind) :
        bucket \in _trend_bucket_for(rows[kind][i].at) /\ rows[kind][i].status \in statuses})
StartTrends ==
    /\ report.pc = "idle" /\ "trends" \in Views
    /\ report' = [pc |-> "trends", view |-> "trends", kind |-> Order[1], now |-> clock,
                  since |-> clock - LOOKBACK, counts |-> <<>>,
                  held |-> [k \in Kinds |-> Held(k, clock - LOOKBACK)]]
    /\ UNCHANGED <<clock, rows>>
ReadTrend ==
    /\ report.pc = "trends"
    /\ LET k == report.kind IN
       report' = [After("trends", "done") EXCEPT
          !.counts = Append(@, [b \in 1 .. BUCKETS |->
             [total |-> _fill_status_trend_counts(k, b, Statuses[k]),
              bad |-> _fill_status_trend_counts(k, b, Statuses[k] \ Healthy(k))]])]
    /\ UNCHANGED <<clock, rows>>

Next ==
    \/ \E k \in Kinds : \E s \in Statuses[k] : Record(k, s)
    \/ \E i \in DOMAIN rows["radar_scan"], s \in Statuses["radar_scan"] : FinishScan(i, s)
    \/ Tick
    \/ \E server \in Servers : StartReport(server)
    \/ ReadLatestScan
    \/ \E k \in Kinds : ReadCounts(k)
    \/ StartHistory \/ ReadEvents \/ ReadFailures
    \/ StartTrends \/ ReadTrend
    \/ CloseReport
Spec == Init /\ [][Next]_vars

-----------------------------------------------------------------------------
SumOver(S, f(_)) == FoldSet(LAMBDA x, n : f(x) + n, 0, S)

Ready(view) == report.pc = "done" /\ report.view = view

\* A verdict of ready, read while rows keep coming in, overlooks no bad fetch, quality
\* check, push or model call that was in the window when the report began.
ReadyMissesNothing ==
    Ready("overview") /\ _readiness_status = "ready" =>
        report.bad \subseteq (IF PushEnabled THEN {} ELSE {"telegram_push"})

\* The alerts and the readiness of one report, coded apart, agree: a part with an
\* alert is not ok (pushes only while they are enabled), and a part that is not ok has an
\* alert unless there was nothing to judge it by (the failure rate warns from a fifth and
\* fails from a half, the alert is for both).
AlertsMatchChecks ==
    Ready("overview") => \A p \in DOMAIN _readiness_checks :
        /\ p \in _ops_alerts /\ (p = "telegram_push" => PushEnabled) => _readiness_checks[p] # "ok"
        /\ _readiness_checks[p] # "ok" =>
              \/ p \in _ops_alerts
              \/ p \in ToSet(LogKinds) /\ Total(CountsOf(p)) = 0
              \/ p = "radar_failure_rate" /\ Total(CountsOf("radar_scan")) = 0

\* The failure summary, which a history reads after its events, counts each failure among
\* the events and all that the overview called unhealthy when the history was asked for,
\* and none that is not in the tables (_failure_summary against _status_counts).
FailureSummaryAgrees ==
    Ready("history") => \A n \in 1 .. 5 :
        LET k == Order[n]  summary == report.failures[n]
            counted(s) == SumOver({e \in summary : e.key = s}, LAMBDA e : e.count)
        IN  /\ \A s \in SummaryStatuses(k) :
                  Cardinality({e \in recent_events : e.kind = k /\ e.status = s}) <= counted(s)
            /\ SumOver(summary, LAMBDA e : e.count) \in
                  report.held[k].bad .. Held(k, report.since).bad

\* The history lists the newest events of all kinds together: none that was there when it
\* was asked for and that it leaves out is newer than one it shows, and it is full when
\* there were enough.
NewestEventsListed ==
    Ready("history") =>
        LET shown(e) == \E f \in recent_events : f.kind = e.kind /\ f.id = e.id IN
        /\ \A e \in report.known : shown(e) \/ \A f \in recent_events : Later(f, e)
        /\ Cardinality(recent_events) \in
              (IF Cardinality(report.known) < LIMIT THEN Cardinality(report.known) ELSE LIMIT) .. LIMIT

\* The buckets share out the window: each row of it that was there when the trends were
\* asked for is in one bucket, and none that has come after its end, so the totals and the
\* failures add up to those of an overview read between the first statement and the last.
TrendsAddUp ==
    Ready("trends") => \A n \in 1 .. 5 :
        LET k == Order[n]  bad == {i \in Until(k) : rows[k][i].status \notin Healthy(k)} IN
        /\ SumOver(1 .. BUCKETS, LAMBDA b : report.counts[n][b].total)
              \in report.held[k].total .. Cardinality(Until(k))
        /\ SumOver(1 .. BUCKETS, LAMBDA b : report.counts[n][b].bad)
              \in report.held[k].bad .. Cardinality(bad)
=============================================================================
