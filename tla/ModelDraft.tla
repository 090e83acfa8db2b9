------------------------------ MODULE ModelDraft ------------------------------
(***************************************************************************)
(* The model draft of a radar signal: provider settings and their          *)
(* readiness check, the call with its fallback, the sanitizing of what     *)
(* comes back, and the audit log (ai/model_client.py,                      *)
(* ai/analysis_output.py, audit/model_audit.py,                            *)
(* audit/model_provider_readiness.py, radar/service.py).                   *)
(*                                                                         *)
(* Texts are told apart by what the sanitizer sees in them: "plain",       *)
(* "terms" (unsafe trading terms), "link" (a source locator) or NoText.    *)
(* A base URL is told apart by how urlparse takes it.                      *)
(*                                                                         *)
(* A definition marked "mutant" is a plausible mistake in the definition   *)
(* that follows it; nothing uses it but the tests of the properties.       *)
(***************************************************************************)
EXTENDS Integers, Sequences, SequencesExt, FiniteSets

CONSTANTS
    SettingsSpace,   \* settings the server may have been started with
    Payloads,        \* contents a provider may return
    MaxDraftItems    \* items of a list that are kept

\* Assumed of the constants by the modules that give them values.
ItemsAssumption == MaxDraftItems \in Nat
UrlsAssumption == \A s \in SettingsSpace :
    s.url \in {"absent", "good", "not_http", "no_host", "bad_port", "credentials"}

NoText == "none"
NoModel == ""

VARIABLES settings, pc, calls, content, logs, reply
draftVars == <<settings, pc, calls, content, logs, reply>>

NoReply == [model |-> "none", draft |-> "none", shown |-> {}, label |-> FALSE, log |-> 0]

DraftInit ==
    /\ settings \in SettingsSpace
    /\ pc = "start" /\ calls = <<>> /\ content = "none" /\ logs = <<>> /\ reply = NoReply

Enabled(s) == s.enabled /\ s.provider # "disabled"

-----------------------------------------------------------------------------
(***************************************************************************)
(* evaluate_model_provider_readiness: seven checks and the worst of them.  *)
(***************************************************************************)
ProviderCheck(s) == IF s.provider \in {"disabled", "openai", "custom"} THEN "ok" ELSE "fail"

EnablementCheck(s) ==
    IF ~s.enabled THEN IF s.provider = "disabled" THEN "ok" ELSE "warn"
    ELSE IF s.provider = "disabled" THEN "fail" ELSE "ok"

PrimaryModelCheck(s) == IF Enabled(s) /\ s.primary = NoModel THEN "fail" ELSE "ok"

FallbackModelCheck(s) == IF Enabled(s) /\ s.fallback = NoModel THEN "warn" ELSE "ok"

CredentialCheck(s) ==
    IF ~Enabled(s) THEN "ok"
    ELSE IF s.provider = "openai" /\ s.openaiKey THEN "ok"
    ELSE IF s.provider = "custom" /\ s.modelKey THEN "ok" ELSE "fail"

CustomBaseUrlCheck(s) ==
    IF ~s.enabled \/ s.provider # "custom" \/ s.url = "good" THEN "ok" ELSE "fail"

RawPromptStorageCheck(s) == IF s.rawPrompt THEN "warn" ELSE "ok"

ReadinessChecks(s) ==
    <<ProviderCheck(s), EnablementCheck(s), PrimaryModelCheck(s), FallbackModelCheck(s),
      CredentialCheck(s), CustomBaseUrlCheck(s), RawPromptStorageCheck(s)>>

OverallStatus(checks) ==
    IF "fail" \in ToSet(checks) THEN "fail" ELSE IF "warn" \in ToSet(checks) THEN "warn" ELSE "ok"

Readiness(s) == OverallStatus(ReadinessChecks(s))

-----------------------------------------------------------------------------
\* _validate_custom_base_url, written apart from the readiness check.
ValidBaseUrl(kind) == kind \notin {"absent", "not_http", "no_host", "bad_port", "credentials"}

\* build_model_client raises ModelProviderConfigError.
ConfigError(s) ==
    \/ s.provider = "openai" /\ ~s.openaiKey
    \/ s.provider = "custom" /\ (~s.modelKey \/ ~ValidBaseUrl(s.url))
    \/ s.provider \notin {"openai", "custom"}

\* The connection test of the settings page, up to its one call.
ConnectionTestCalls(s) == Enabled(s) /\ Readiness(s) = "ok" /\ ~ConfigError(s)

-----------------------------------------------------------------------------
Finish(r) == pc' = "done" /\ reply' = r
Unavailable(status, log) ==
    [NoReply EXCEPT !.model = status, !.draft = "not_available", !.log = log]

CallDisabled ==
    /\ pc = "start" /\ ~Enabled(settings)
    /\ Finish(Unavailable("disabled", 0))
    /\ UNCHANGED <<settings, calls, content, logs>>

NoPrimaryModel ==
    /\ pc = "start" /\ Enabled(settings) /\ settings.primary = NoModel
    /\ pc' = "degraded"
    /\ UNCHANGED <<settings, calls, content, logs, reply>>

\* The provider returns usable content, or the call fails: an HTTP or transport
\* error, a body that is not JSON, no choices or empty content.
Call(model, status, failed) ==
    \/ /\ ConfigError(settings)
       /\ pc' = failed /\ UNCHANGED <<calls, content>>
    \/ /\ ~ConfigError(settings)
       /\ calls' = Append(calls, model)
       /\ \/ pc' = failed /\ UNCHANGED content
          \/ pc' = status /\ content' \in Payloads

CallPrimary ==
    /\ pc = "start" /\ Enabled(settings) /\ settings.primary # NoModel
    /\ Call(settings.primary, "ok", "primary_failed")
    /\ UNCHANGED <<settings, logs, reply>>

FallbackUsable(s) == s.fallback # NoModel /\ s.fallback # s.primary

CallFallback ==
    /\ pc = "primary_failed" /\ FallbackUsable(settings)
    /\ Call(settings.fallback, "fallback_ok", "degraded")
    /\ UNCHANGED <<settings, logs, reply>>

SkipFallback ==
    /\ pc = "primary_failed" /\ ~FallbackUsable(settings)
    /\ pc' = "degraded"
    /\ UNCHANGED <<settings, calls, content, logs, reply>>

\* record_model_degradation commits its row; without the row there is no reply.
Log(status, draft, previous) ==
    logs' = Append(logs, [status |-> status, draft |-> draft, previous |-> previous])

RecordDegraded ==
    /\ pc = "degraded"
    /\ Log("degraded", "none", 0)
    /\ Finish(Unavailable("degraded", Len(logs')))
    /\ UNCHANGED <<settings, calls, content>>

RecordFallback ==
    /\ pc = "fallback_ok"
    /\ Log("fallback", "none", 0)
    /\ pc' = "fallback"
    /\ UNCHANGED <<settings, calls, content, reply>>

-----------------------------------------------------------------------------
(***************************************************************************)
(* parse_model_analysis_draft: unsafe terms anywhere among the values block *)
(* the draft before anything is cut or redacted.                           *)
(***************************************************************************)

PayloadText(p) == {p.summary, p.extra} \cup ToSet(p.items)

BoundedText(t) == IF t = "link" THEN "redacted" ELSE t
\* The first MaxDraftItems items that have a text.
BoundedTextList(ts) ==
    LET texts == {i \in DOMAIN ts : ts[i] # NoText}
    IN  {BoundedText(ts[i]) : i \in {i \in texts :
            Cardinality({j \in texts : j <= i}) <= MaxDraftItems}}

DraftStatus(p) ==
    IF p.kind # "object" THEN "degraded"
    ELSE IF "terms" \in PayloadText(p) THEN "blocked" ELSE "ok"

Shown(p) == ({BoundedText(p.summary)} \cup BoundedTextList(p.items)) \ {NoText}

ReplyWithDraft ==
    /\ pc \in {"ok", "fallback"} /\ DraftStatus(content) = "ok"
    /\ Finish([model |-> pc, draft |-> "ok", shown |-> Shown(content),
               label |-> content.label, log |-> Len(logs)])
    /\ UNCHANGED <<settings, calls, content, logs>>

ForgetPreviousLog ==                                         \* mutant
    /\ pc \in {"ok", "fallback"} /\ DraftStatus(content) # "ok"
    /\ Log("degraded", DraftStatus(content), 0)
    /\ Finish([NoReply EXCEPT !.model = pc, !.draft = DraftStatus(content), !.log = Len(logs')])
    /\ UNCHANGED <<settings, calls, content>>

RecordBadDraft ==
    /\ pc \in {"ok", "fallback"} /\ DraftStatus(content) # "ok"
    /\ Log("degraded", DraftStatus(content), Len(logs))
    /\ Finish([NoReply EXCEPT !.model = pc, !.draft = DraftStatus(content), !.log = Len(logs')])
    /\ UNCHANGED <<settings, calls, content>>

AuditFails ==
    /\ \/ pc \in {"degraded", "fallback_ok"}
       \/ pc \in {"ok", "fallback"} /\ DraftStatus(content) # "ok"
    /\ Finish([NoReply EXCEPT !.model = "error"])
    /\ UNCHANGED <<settings, calls, content, logs>>

DraftNext ==
    \/ CallDisabled \/ NoPrimaryModel \/ CallPrimary \/ CallFallback \/ SkipFallback
    \/ RecordDegraded \/ RecordFallback \/ AuditFails
    \/ ReplyWithDraft \/ RecordBadDraft

DraftSpec == DraftInit /\ [][DraftNext]_draftVars

-----------------------------------------------------------------------------
Answered == pc = "done" /\ reply.model # "error"

\* Every reply that is not the primary model's sound draft names a log that says
\* why, a bad draft of a fallback points back to the log of the fallback, and a
\* sound draft of the primary model or a disabled provider leaves no log.
OutcomesAreAudited ==
    Answered =>
        IF reply.model = "disabled" \/ (reply.model = "ok" /\ reply.draft = "ok")
        THEN logs = <<>> /\ reply.log = 0
        ELSE /\ reply.log = Len(logs) /\ logs # <<>>
             /\ LET last == Last(logs)
                IN  IF reply.draft = "ok" THEN last.status = "fallback"
                    ELSE /\ last.status = "degraded"
                         /\ (reply.model = "fallback" =>
                                last.previous = 1 /\ logs[1].status = "fallback")

\* What a reader of a draft sees has no unsafe terms and no source locators, and a
\* draft with unsafe terms in any value, shown or not, shows nothing.
DraftsAreClean ==
    Answered =>
        /\ reply.shown \cap {"terms", "link"} = {}
        /\ (reply.model \in {"ok", "fallback"} /\ content.kind = "object"
               /\ "terms" \in {content.summary, content.extra} \cup ToSet(content.items)
            => reply.shown = {} /\ ~reply.label /\ reply.draft = "blocked")

\* With model analysis enabled the readiness check fails exactly when no draft could
\* reach a provider, and a connection test that gets to its call uses settings with
\* which drafts do, though the three judge the settings by separate code.
ReadinessPredictsCalls ==
    pc = "done" =>
        /\ settings.enabled => (Readiness(settings) # "fail" <=> calls # <<>>)
        /\ ConnectionTestCalls(settings) => calls # <<>> /\ calls[1] = settings.primary

\* Whatever the primary model and the fallback answer, the reply names the log that says
\* why, shows nothing unsafe, and the readiness check foretold whether a call was made
\* (ai/model_client.py, audit/model_audit.py).
DraftsAreAudited == OutcomesAreAudited /\ DraftsAreClean /\ ReadinessPredictsCalls
=============================================================================
