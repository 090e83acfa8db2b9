-------------------------- MODULE DeliveryAcceptance --------------------------
(***************************************************************************)
(* server_delivery_acceptance.py: runs of the acceptance over one evidence *)
(* directory, on a server whose API and OPS status change meanwhile.       *)
(*                                                                         *)
(* A stage is a helper process.  Its steps read the server or write one    *)
(* evidence file each; then the run reads the files back from the          *)
(* directory, where another run may have written in between.               *)
(*                                                                         *)
(* A server has the parts of one of DeployCheck that may be out of order   *)
(* here (the others are BaseServer's) and four more: ops, the OPS status   *)
(* behind /ops/readiness and /ops/overview ("ok", "warning" or "blocked"), *)
(* and db, alertEnv, service, the verdicts of the inventory, the alert env *)
(* check and the service verification on what they read.                   *)
(***************************************************************************)
EXTENDS Naturals, Sequences, SequencesExt, FiniteSets, Functions, TLC

CONSTANTS Runs, Servers, BaseServer,
          ArgSets,      \* the command lines
          Leftovers,    \* what an earlier acceptance may have left in the directory
          MaxChanges, MaxFaults   \* bounds: changes of the server, helpers that die

Deploy == INSTANCE DeployCheck

VARIABLES
    server,   \* what the helpers see
    files,    \* evidence file -> status read from it
    run,      \* run -> its progress
    changes, faults
vars == <<server, files, run, changes, faults>>

Pseudo == {"checks", "samples"}   \* steps that write nothing
EvidenceFiles ==
    {"tushare", "model", "deploy", "backup_check", "backup_preflight", "retention", "restore", "inventory",
     "ops_evidence", "runtime", "monitor", "payload", "preview", "env_check", "service_verify"}

PRODUCTION_READINESS_PRESET_FLAGS ==
    {"contract", "systemd", "telegram", "tushare", "model", "ops_evidence", "alert", "env_check", "sample",
     "inventory"}
apply_production_readiness_preset(args) ==
    args \cup (IF "preset" \in args THEN PRODUCTION_READINESS_PRESET_FLAGS ELSE {})
DeployFlags(args) ==
    {"containers", "api", "m5"} \cup (args \cap {"sample", "contract", "telegram", "systemd", "tushare", "model"})

\* the stages, each with the steps of its helper; a skipped stage has none
If(condition, s) == IF condition THEN s ELSE <<>>
Stage(name, steps) == [name |-> name, steps |-> steps]
StageSpecs(args) ==
    << Stage("deploy_preflight", <<"checks">> \o If("tushare" \in args, <<"tushare">>)
                                 \o If("model" \in args, <<"model">>) \o <<"deploy">>),
       Stage("backup_check", If("skip_backup" \notin args, <<"backup_check", "backup_preflight">>)),
       Stage("backup_retention", If("skip_retention" \notin args, <<"retention">>)) >>
    \o If("restore" \in args, <<Stage("restore_check", <<"restore">>)>>)
    \o If("inventory" \in args, <<Stage("database_inventory", <<"inventory">>)>>)
    \o <<Stage("runtime_check", If("skip_runtime" \notin args,
                 <<"samples">> \o If("ops_evidence" \in args, <<"ops_evidence">>) \o <<"runtime">>))>>
    \o If("alert" \in args, <<Stage("monitor_alert_payload", <<"samples", "monitor", "payload">>),
                              Stage("telegram_alert_preview", <<"preview">>)>>)
    \o If("env_check" \in args, <<Stage("telegram_alert_env_check", <<"env_check">>)>>)
    \o If("service" \in args, <<Stage("telegram_alert_service_verify", <<"service_verify">>)>>)
build_stage_specs(args) == StageSpecs(apply_production_readiness_preset(args))
FilesOf(stage) == ToSet(stage.steps) \ Pseudo

-----------------------------------------------------------------------------
(* the helpers *)
\* server_runtime_check and server_monitor_check on one set of samples
Sampled(s) ==
    IF s.api # "ready" \/ s.ops = "blocked" THEN "blocked" ELSE s.ops
OpsEvidence(s) ==
    IF s.api # "ready" THEN "error" ELSE IF s.ops = "blocked" THEN "blocked" ELSE "ok"
Runtime(sampled, args) ==
    IF sampled = "blocked" \/ ("strict" \in args /\ sampled = "warning") THEN "fail" ELSE "ok"

Whole == server @@ BaseServer   \* the server of DeployCheck
\* the verdict of a step; memory holds those of the helper's earlier steps
Verdict(step, args, memory) ==
    CASE step = "checks" -> Deploy!build_report(DeployFlags(apply_production_readiness_preset(args)), Whole).status
      [] step = "tushare" -> Deploy!check_tushare_anns_d_beat_enablement(Whole)
      [] step = "model" -> server.model
      [] step = "deploy" -> memory["checks"]
      [] step = "backup_check" -> Deploy!OkIf(server.pgdump)
      [] step = "backup_preflight" -> Deploy!build_report({"backup"}, Whole).status
      [] step \in {"retention", "restore"} -> "ok"
      [] step = "inventory" -> server.db
      [] step = "samples" -> Sampled(server)
      [] step = "ops_evidence" -> OpsEvidence(server)
      [] step = "runtime" -> Runtime(memory["samples"], args)
      [] step \in {"monitor", "payload"} -> memory["samples"]
      [] step = "preview" -> IF files["payload"] = "ok" THEN "skipped" ELSE "preview"
      [] step = "env_check" -> server.alertEnv
      [] step = "service_verify" -> server.service
\* every helper exits with 1 when what it reports is a failure
ExitCode(memory) == IF Range(memory) \cap {"fail", "error", "blocked"} # {} THEN 1 ELSE 0

-----------------------------------------------------------------------------
(* the acceptance *)
Health == [api |-> server.api, ops |-> server.ops]
NotStarted == [pc |-> "idle"]
Began(args) ==
    [pc |-> "helper", args |-> args, stage |-> 1, step |-> 1, memory |-> <<>>, results |-> <<>>,
     status |-> "none", exit |-> 0,
     old |-> EvidenceFiles,    \* files nobody has written since the run began
     lost |-> {},              \* files read back while still old
     seen |-> {Health}]        \* the states of API and OPS while the run went on

Init ==
    /\ server \in Servers /\ run = [r \in Runs |-> NotStarted]
    /\ \E left \in Leftovers : files = [f \in EvidenceFiles |-> left]
    /\ changes = 0 /\ faults = 0

Specs(r) == build_stage_specs(run[r].args)
CurrentStage(r) == Specs(r)[run[r].stage]
AtStep(r) == run[r].pc = "helper" /\ run[r].step <= Len(CurrentStage(r).steps)
Step(r) == CurrentStage(r).steps[run[r].step]

Start(r) ==
    /\ run[r].pc = "idle"
    /\ \E args \in ArgSets : "plan" \notin args /\ run' = [run EXCEPT ![r] = Began(args)]
    /\ UNCHANGED <<server, files, changes, faults>>
\* --plan-only: no helper runs
plan_acceptance(r) ==
    /\ run[r].pc = "idle"
    /\ \E args \in ArgSets :
          /\ "plan" \in args
          /\ run' = [run EXCEPT ![r] = [Began(args) EXCEPT !.pc = "done", !.status = "planned"]]
    /\ UNCHANGED <<server, files, changes, faults>>

WriteFile(runs, f) == [q \in Runs |-> IF runs[q].pc = "idle" THEN runs[q] ELSE [runs[q] EXCEPT !.old = @ \ {f}]]
HelperStep(r) ==
    /\ AtStep(r) /\ (Step(r) = "preview" => files["payload"] \notin {"missing", "invalid_json"})
    /\ LET verdict == Verdict(Step(r), run[r].args, run[r].memory)
           next == [run EXCEPT ![r].step = @ + 1, ![r].memory = (Step(r) :> verdict) @@ @]
       IN  IF Step(r) \in Pseudo THEN run' = next /\ UNCHANGED files
           ELSE /\ files' = [files EXCEPT ![Step(r)] = verdict]
                /\ run' = WriteFile(next, Step(r))
    /\ UNCHANGED <<server, changes, faults>>
\* killed, or stopped by an error of its own, with the file it was about to write not begun
\* or cut off; server_alert_telegram ends so when it cannot read the payload
UnreadablePayload(r) == Step(r) = "preview" /\ files["payload"] \in {"missing", "invalid_json"}
HelperDies(r) ==
    /\ AtStep(r) /\ (faults < MaxFaults \/ UnreadablePayload(r))
    /\ faults' = IF UnreadablePayload(r) THEN faults ELSE faults + 1
    /\ LET next == [run EXCEPT ![r].step = Len(CurrentStage(r).steps) + 1, ![r].memory = (Step(r) :> "fail") @@ @]
       IN  \/ run' = next /\ UNCHANGED files
          \/ /\ Step(r) \notin Pseudo /\ ~UnreadablePayload(r)
             /\ files' = [files EXCEPT ![Step(r)] = "invalid_json"]
             /\ run' = WriteFile(next, Step(r))
    /\ UNCHANGED <<server, changes>>

\* mutant: the exit code of the helper is not looked at
EvidenceOnly(exitCode, statuses) ==
    IF statuses \cap {"fail", "error", "blocked", "missing", "invalid_json"} # {} THEN "fail"
    ELSE IF statuses \cap {"warn", "warning"} # {} THEN "warn" ELSE "ok"
stage_status_from_evidence(exitCode, statuses) ==
    CASE exitCode # 0 \/ statuses \cap {"fail", "error", "blocked", "missing", "invalid_json"} # {} -> "fail"
      [] exitCode = 0 /\ statuses \cap {"fail", "error", "blocked", "missing", "invalid_json"} = {}
           /\ statuses \cap {"warn", "warning"} # {} -> "warn"
      [] OTHER -> "ok"

Result(r) ==
    IF CurrentStage(r).steps = <<>> THEN "skipped"
    ELSE stage_status_from_evidence(ExitCode(run[r].memory), {files[f] : f \in FilesOf(CurrentStage(r))})
build_report(results) == Deploy!Worst(results)
MainExit(status, args) == IF status = "fail" \/ (status = "warn" /\ "strict" \in args) THEN 1 ELSE 0

StopsAfter(result, args) == "fail_fast" \in args /\ result = "fail"
run_stage(r) ==
    /\ run[r].pc = "helper" /\ run[r].step > Len(CurrentStage(r).steps)
    /\ LET results == Append(run[r].results, Result(r))
           over == run[r].stage = Len(Specs(r)) \/ StopsAfter(Result(r), run[r].args)
           read == [run[r] EXCEPT !.results = results, !.stage = @ + 1, !.step = 1, !.memory = <<>>,
                                  !.lost = @ \cup (FilesOf(CurrentStage(r)) \cap run[r].old)]
       IN  run' = [run EXCEPT ![r] =
               IF ~over THEN read
               ELSE [read EXCEPT !.pc = "done", !.stage = 1, !.status = build_report(results),
                                 !.exit = MainExit(build_report(results), run[r].args)]]
    /\ UNCHANGED <<server, files, changes, faults>>

\* the API comes and goes and so do the OPS warnings behind it
ServerChanges ==
    /\ changes < MaxChanges /\ changes' = changes + 1
    /\ \E api \in {"ready", "not_ready", "down"}, ops \in {"ok", "warning", "blocked"} :
          /\ server' = [server EXCEPT !.api = api, !.ops = ops]
          /\ server' # server
          /\ run' = [r \in Runs |-> IF run[r].pc = "helper" THEN [run[r] EXCEPT !.seen = @ \cup {Health'}] ELSE run[r]]
    /\ UNCHANGED <<files, faults>>

Next ==
    \/ \E r \in Runs : Start(r) \/ plan_acceptance(r) \/ HelperStep(r) \/ HelperDies(r) \/ run_stage(r)
    \/ ServerChanges
Spec == Init /\ [][Next]_vars

-----------------------------------------------------------------------------
Statuses == {"missing", "invalid_json", "ok", "warn", "warning", "fail", "error", "blocked", "preview", "skipped"}
TypeOK ==
    /\ files \in [EvidenceFiles -> Statuses] /\ changes \in 0 .. MaxChanges /\ faults \in 0 .. MaxFaults
    /\ \A r \in Runs : run[r].pc \in {"idle", "helper", "done"}

Accepted(r) == run[r].pc = "done" /\ run[r].status # "planned" /\ run[r].exit = 0
Expected(r) == UNION {FilesOf(Specs(r)[i]) : i \in DOMAIN Specs(r)}

\* A run that ends with 0 has read every evidence file of every stage its command line
\* names, and each was written while it went on: what an earlier acceptance left in the
\* directory is never taken for an answer, also when helpers die (run_stage).
AcceptedIsFresh ==
    \A r \in Runs : Accepted(r) =>
        /\ Len(run[r].results) = Len(Specs(r))
        /\ run[r].lost = {} /\ Expected(r) \cap run[r].old = {}

\* A run ends with 0 only if the server was ready at some moment of it and, unless the
\* sampling was skipped, at some moment ready without a blocked OPS status.
AcceptedWasReady ==
    \A r \in Runs : Accepted(r) =>
        /\ \E s \in run[r].seen : s.api = "ready"
        /\ "skip_runtime" \notin run[r].args => \E s \in run[r].seen : s.api = "ready" /\ s.ops # "blocked"

\* With one run at a time, --fail-on-warning ends with 0 only if no evidence file the run
\* asked for holds a warning, whichever helper it is from.
StrictMeansNoWarning ==
    \A r \in Runs : Accepted(r) /\ "strict" \in run[r].args =>
        \A f \in Expected(r) : files[f] \notin {"warn", "warning"}
=============================================================================
