--------------------------- MODULE MCRuntimeAlerts ---------------------------
(***************************************************************************)
(* One monitor run on one or two samples, then a second one after the API  *)
(* has changed: an endpoint stopped answering, or only counts moved.       *)
(***************************************************************************)
EXTENDS RuntimeAlerts

VARIABLES samples, options, first, second
vars == <<samples, options, first, second>>

Read(ok, bodies) == {[ok |-> ok, body |-> b] : b \in bodies}
Unread(e) == [ok |-> FALSE, body |-> IF e \in {"ops_overview", "ops_history"} THEN <<>> ELSE NoBody]
Reads(e, bodies) == Read(TRUE, bodies) \cup {Unread(e)}
Count(k, n) == <<[key |-> k, count |-> n]>>
Histories == {<<>>, Count("fetch", 0), Count("fetch", 1), Count("fetch", 1) \o Count("push", 2)}
Plain == [ok |-> TRUE, body |-> "ok"]
AllSamples ==
    {[health |-> h, health_ready |-> hr, ops_overview |-> ov, ops_history |-> hi, ops_readiness |-> re] :
        h \in Reads("health", {"ok"}), hr \in Reads("health_ready", {"ready", "not_ready"}) \cup Read(FALSE, {"not_ready"}),
        ov \in Reads("ops_overview", {<<>>, <<"stalled">>, <<"stalled", "disk">>}) \cup Read(FALSE, {<<"stalled">>}),
        hi \in Reads("ops_history", Histories), re \in Reads("ops_readiness", {"ready", "warning", "blocked", "other"})}
WithTrends(s) == [e \in DOMAIN s \cup {"ops_trends"} |-> IF e = "ops_trends" THEN Plain ELSE s[e]]
SampleLists ==
    {<<s>> : s \in AllSamples} \cup {<<WithTrends(s)>> : s \in AllSamples}
    \cup {<<s, s>> : s \in AllSamples}
AllOptions == [failOnWarning : BOOLEAN, suppressWarning : BOOLEAN, includeOk : BOOLEAN, maxItems : {2, 8}]

None == <<>>
Outcome(list, opts) ==
    LET report == build_runtime_report(list, opts.failOnWarning)
        summary == build_monitor_summary(report) IN
    [report |-> report, summary |-> summary, payload |-> build_alert_payload(summary, opts)]

Init == samples = None /\ options \in AllOptions /\ first = None /\ second = None

Monitor(list) ==
    /\ samples' = list
    /\ first' = [change |-> "first"] @@ Outcome(list, options)
    /\ UNCHANGED <<options, second>>

\* endpoint e of the last sample no longer answers
Worsen(e) ==
    /\ samples # None /\ second = None
    /\ e \in DOMAIN Last(samples) /\ ~ \E n \in DOMAIN first.report.failures :
            first.report.failures[n] = Failure(Len(samples), e)
    /\ second' = [change |-> "worse"] @@ Outcome([samples EXCEPT ![Len(samples)][e] = Unread(e)], options)
    /\ UNCHANGED <<samples, options, first>>

MoreOften(f) == IF f.count > 0 THEN [f EXCEPT !.count = @ + 1] ELSE f
\* the same trouble again, only its counts have grown
Persist ==
    /\ samples # None /\ second = None
    /\ second' = [change |-> "same"] @@ Outcome([i \in DOMAIN samples |->
          [samples[i] EXCEPT !["ops_history"].body = [n \in DOMAIN @ |-> MoreOften(@[n])]]], options)
    /\ UNCHANGED <<samples, options, first>>

Next ==
    \/ samples = None /\ \E list \in SampleLists : Monitor(list)
    \/ \E e \in ToSet(RUNTIME_ENDPOINTS) \cup {"ops_trends"} : Worsen(e)
    \/ Persist
Spec == Init /\ [][Next]_vars

\* Trouble of any sample: what the operator would want to be woken for.
Trouble(sample) ==
    \/ \E e \in DOMAIN sample : ~sample[e].ok
    \/ sample["health_ready"].body # "ready"
    \/ sample["ops_readiness"].body \notin {"ready", "warning"}

\* A trouble in any sample is a critical alert that notifies, and nothing else is one;
\* neither --suppress-warning-notify nor an item limit takes it back.
TroubleIsAlerted ==
    first # None =>
        (first.payload.severity = "critical" /\ first.payload.notify
            <=> \E i \in DOMAIN samples : Trouble(samples[i]))

\* The runtime check and the monitor, run with the same flags, exit alike.
ExitsAgree ==
    first # None => RuntimeExit(first.report)
        = exit_code_for_monitor_report(first.summary, options.failOnWarning)

\* Reads the evidence exporter calls blocked or failed fail the runtime check as well.
EvidenceAgrees ==
    first # None => \A i \in DOMAIN samples :
        exit_code_for_evidence(build_evidence_report(samples[i]), samples[i]) <= RuntimeExit(first.report)

\* When one more endpoint stops answering the alert gets another dedupe key: the
\* sent alert of the lesser trouble does not suppress it.
WorseIsNewAlert ==
    second # None /\ second.change = "worse" => second.payload.key # first.payload.key

\* Trouble that persists, with only its counts growing, keeps its key and is
\* suppressed: a standing alert does not flood the chats.
StandingAlertKeepsKey ==
    second # None /\ second.change = "same" => second.payload.key = first.payload.key
=============================================================================
