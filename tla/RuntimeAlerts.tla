---------------------------- MODULE RuntimeAlerts ----------------------------
(***************************************************************************)
(* From samples of a running API to the alert payload: the report of       *)
(* server_runtime_check, the summary of server_monitor_check, the payload  *)
(* and dedupe key of server_alert_payload, and the verdict of the evidence *)
(* exporter on the same reads.                                             *)
(*                                                                         *)
(* A sample maps each endpoint to [ok, body]: ok is FALSE after an HTTP    *)
(* error or an unusable answer, and the body of an HTTP error is used all  *)
(* the same.  Bodies are the parts read: the status of health_ready and    *)
(* readiness, the alert codes of the overview, the failure keys of the     *)
(* history with their counts, both empty when there is no body.            *)
(***************************************************************************)
EXTENDS Naturals, Sequences, FiniteSets, SequencesExt

CONSTANTS TopFailures, TopWarnings  \* the summary's list limits

NoBody == "none"
RUNTIME_ENDPOINTS == <<"health", "health_ready", "ops_overview", "ops_history", "ops_readiness">>
\* ops_trends is read by the monitor service only when it is asked for
EndpointsOf(sample) ==
    RUNTIME_ENDPOINTS \o (IF "ops_trends" \in DOMAIN sample THEN <<"ops_trends">> ELSE <<>>)
Body(sample, e) == sample[e].body

Failure(i, e) == [sample |-> i, endpoint |-> e]
Warning(kind, id, detail) == [kind |-> kind, id |-> id, detail |-> detail]

health_ready_status(sample) ==
    IF Body(sample, "health_ready") = NoBody THEN "unknown" ELSE Body(sample, "health_ready")
_readiness_status(body) == IF body \in {"ready", "warning", "blocked"} THEN body ELSE "unknown"

SampleFailures(i, sample) ==
    LET unread == SelectSeq(EndpointsOf(sample), LAMBDA e : ~sample[e].ok)
        readiness == _readiness_status(Body(sample, "ops_readiness")) IN
    [n \in 1 .. Len(unread) |-> Failure(i, unread[n])]
      \o (IF sample["health_ready"].ok /\ health_ready_status(sample) # "ready"
          THEN <<Failure(i, "health_ready")>> ELSE <<>>)
      \o (IF sample["ops_readiness"].ok /\ readiness \in {"blocked", "unknown"}
          THEN <<Failure(i, "ops_readiness")>> ELSE <<>>)

SampleWarnings(sample) ==
    LET alerts == Body(sample, "ops_overview")
        failures == SelectSeq(Body(sample, "ops_history"), LAMBDA f : f.count > 0) IN
    [n \in DOMAIN alerts |-> Warning("ops_alert", alerts[n], "message")]
      \o [n \in DOMAIN failures |-> Warning("failure_summary", failures[n].key, failures[n].count)]
      \o (IF sample["ops_readiness"].ok /\ _readiness_status(Body(sample, "ops_readiness")) = "warning"
          THEN <<Warning("readiness_warning", "warning", "")>> ELSE <<>>)

AlertCounts(samples) ==
    LET codes == FlattenSeq([i \in DOMAIN samples |-> Body(samples[i], "ops_overview")]) IN
    [c \in ToSet(codes) |-> Cardinality({n \in DOMAIN codes : codes[n] = c})]

build_runtime_report(samples, failOnWarning) ==
    LET failures == FlattenSeq([i \in DOMAIN samples |-> SampleFailures(i, samples[i])])
        warnings == FlattenSeq([i \in DOMAIN samples |-> SampleWarnings(samples[i])]) IN
    [failures |-> failures, warnings |-> warnings, alertCounts |-> AlertCounts(samples),
     failOnWarning |-> failOnWarning,
     status |-> IF failures # <<>> \/ (failOnWarning /\ warnings # <<>>) THEN "fail" ELSE "ok"]
RuntimeExit(report) == IF report.status = "ok" THEN 0 ELSE 1

Take(s, n) == SubSeq(s, 1, IF Len(s) < n THEN Len(s) ELSE n)

build_monitor_summary(report) ==
    LET status == CASE report.failures # <<>> -> "blocked"
                    [] report.failures = <<>> /\ report.warnings # <<>> -> "warning"
                    [] OTHER -> "ok" IN
    [status |-> status, runtimeStatus |-> report.status,
     strict |-> status = "warning" /\ report.status = "fail" /\ report.failOnWarning,
     failureCount |-> Len(report.failures), warningCount |-> Len(report.warnings),
     alertCounts |-> report.alertCounts,
     topFailures |-> Take(report.failures, TopFailures), topWarnings |-> Take(report.warnings, TopWarnings)]
exit_code_for_monitor_report(summary, failOnWarning) ==
    IF summary.status = "blocked" \/ (summary.status = "warning" /\ failOnWarning) THEN 1 ELSE 0

severity_for_status(status) ==
    [blocked |-> "critical", warning |-> "warning", ok |-> "info"][status]
should_notify_for_status(status, suppressWarning, includeOk) ==
    CASE status = "blocked" -> TRUE
      [] status = "warning" -> ~suppressWarning
      [] OTHER -> includeOk

\* an item as the fingerprint and the message see it
build_alert_items(summary, maxItems) ==
    Take([n \in DOMAIN summary.topFailures |->
            [severity |-> "critical", kind |-> "failure", id |-> summary.topFailures[n].endpoint,
             detail |-> "error"]]
         \o [n \in DOMAIN summary.topWarnings |->
            [severity |-> "warning", kind |-> summary.topWarnings[n].kind, id |-> summary.topWarnings[n].id,
             detail |-> summary.topWarnings[n].detail]], maxItems)

\* mutant: the counts are left out of the fingerprint
KeyWithoutCounts(summary, items) ==
    [status |-> summary.status, runtimeStatus |-> summary.runtimeStatus, alertCounts |-> summary.alertCounts,
     first |-> [n \in DOMAIN Take(items, 3) |-> <<items[n].severity, items[n].kind, items[n].id>>]]
build_dedupe_key(summary, items) ==
    [status |-> summary.status, runtimeStatus |-> summary.runtimeStatus,
     failureCount |-> summary.failureCount, warningCount |-> summary.warningCount,
     alertCounts |-> summary.alertCounts,
     first |-> [n \in DOMAIN Take(items, 3) |-> <<items[n].severity, items[n].kind, items[n].id>>]]

build_alert_payload(summary, options) ==
    LET items == build_alert_items(summary, options.maxItems) IN
    [status |-> summary.status, severity |-> severity_for_status(summary.status),
     notify |-> should_notify_for_status(summary.status, options.suppressWarning, options.includeOk),
     key |-> build_dedupe_key(summary, items), items |-> items,
     truncated |-> Len(summary.topFailures) + Len(summary.topWarnings) > Len(items)]

\* export_ops_evidence: its own verdict on one round of reads
build_evidence_report(sample) ==
    CASE \E e \in ToSet(EndpointsOf(sample)) : ~sample[e].ok -> "error"
      [] (\A e \in ToSet(EndpointsOf(sample)) : sample[e].ok)
           /\ _readiness_status(Body(sample, "ops_readiness")) = "blocked" -> "blocked"
      [] OTHER -> "ok"
exit_code_for_evidence(status, sample) == IF status \in {"blocked", "error"} THEN 1 ELSE 0
=============================================================================
