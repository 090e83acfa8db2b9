----------------------------- MODULE DeployCheck -----------------------------
(***************************************************************************)
(* The deployment preflight, server_deploy_check.py: the checks its flags  *)
(* ask for, each ok, warn or fail, the report and the exit code.           *)
(*                                                                         *)
(* A server is what the checks see:                                        *)
(*   envFile, config, image, containers, pgdump   whether each is in order  *)
(*   services   the resolved compose file, by service name                 *)
(*   units      unit file -> "ok", "missing", "invalid" or "drifted"       *)
(*   api        "ready", "not_ready" (503 from /health/ready) or "down"    *)
(*   signals    "none", "no_id", "bad_brief" or "good"                     *)
(*   telegram   the answer of /telegram/status                             *)
(*   tushare    [samples, token, beat, interval] for the Beat checklist    *)
(*   model      status of the model provider readiness                     *)
(***************************************************************************)
EXTENDS Naturals, Sequences, FiniteSets, SequencesExt

Flags == {"strict_env", "build", "containers", "contract", "systemd", "backup", "api",
          "m5", "sample", "telegram", "tushare", "model"}
OkIf(condition) == IF condition THEN "ok" ELSE "fail"

-----------------------------------------------------------------------------
(* the server compose contract *)
SERVER_COMPOSE_REQUIRED_SERVICES == {"api", "worker", "beat", "postgres", "redis"}
SERVER_COMPOSE_RUNTIME_SERVICES == {"api", "worker", "beat"}
SERVER_COMPOSE_RUNTIME_ENV_KEYS ==
    {"APP_ENV", "DATABASE_URL", "REDIS_URL", "CELERY_BROKER_URL", "CELERY_RESULT_BACKEND",
     "RADAR_SCAN_INTERVAL_SECONDS"}
RightValue(key) ==
    CASE key = "APP_ENV" -> {"server"}
      [] key = "DATABASE_URL" -> {"postgres"}
      [] key = "RADAR_SCAN_INTERVAL_SECONDS" -> {"300", "60"}
      [] OTHER -> {"redis"}

RuntimeEnvRight(service) ==
    \A key \in SERVER_COMPOSE_RUNTIME_ENV_KEYS :
        key \in DOMAIN service.env /\ service.env[key] \in RightValue(key)
DependenciesRight(service) ==
    \A d \in {"postgres", "redis"} : d \in DOMAIN service.deps /\ service.deps[d] = "service_healthy"
ApiRight(service) == [target |-> "8000", published |-> "8000"] \in service.ports /\ service.health
\* mutant: a worker that also schedules passes
WorkerMaySchedule(service) == {"celery", "-A", "app", "worker"} \subseteq service.tokens
WorkerRight(service) ==
    {"celery", "-A", "app", "worker"} \subseteq service.tokens /\ "beat" \notin service.tokens
BeatRight(service) ==
    {"celery", "-A", "app", "beat", "--schedule"} \subseteq service.tokens /\ "worker" \notin service.tokens

check_server_compose_contract(services) ==
    LET Runtime(Right(_)) == OkIf(\A n \in SERVER_COMPOSE_RUNTIME_SERVICES :
                                     n \in DOMAIN services /\ Right(services[n]))
        One(name, Right(_)) == OkIf(name \in DOMAIN services /\ Right(services[name]))
        Restarts(service) == service.restart = "unless-stopped"
    IN  << OkIf(SERVER_COMPOSE_REQUIRED_SERVICES \subseteq DOMAIN services),
           Runtime(RuntimeEnvRight), Runtime(DependenciesRight), One("api", ApiRight),
           One("worker", WorkerRight), One("beat", BeatRight), Runtime(Restarts) >>

-----------------------------------------------------------------------------
(* the other checks *)
check_systemd_units(units) ==
    LET With(what) == {u \in DOMAIN units : units[u] = what}
        parsed == SetToSeq(With("ok") \cup With("drifted") \cup With("forbidden"))
    IN  << OkIf(With("missing") = {}), OkIf(With("invalid") = {}) >>
          \o (IF parsed = <<>> THEN <<>> ELSE << OkIf(With("forbidden") = {}) >>)
          \o [i \in DOMAIN parsed |-> OkIf(units[parsed[i]] # "drifted")]

check_radar_signal_analysis_smoke(server, required) ==
    CASE server.api = "down" \/ server.signals = "no_id" -> <<"fail">>
      [] server.api # "down" /\ server.signals = "none" -> <<IF required THEN "fail" ELSE "warn">>
      [] OTHER -> <<"ok", OkIf(server.signals = "good")>>

\* the eleven endpoints, of which /health/ready answers 503 while something is down
check_m5_smoke(server, required) ==
    << OkIf(server.api # "down"), OkIf(server.api = "ready") >>
      \o check_radar_signal_analysis_smoke(server, required)

telegram_status(allowlist, required, bound, active) ==
    [requireBinding |-> required, allowed |-> Cardinality(allowlist), bound |-> bound, active |-> active]
TelegramStatus(answer) ==
    CASE answer.requireBinding -> "strict"
      [] ~answer.requireBinding /\ answer.allowed > 0 -> "listed"
      [] ~answer.requireBinding /\ answer.allowed = 0 /\ answer.active > 0 -> "bound"
      [] ~answer.requireBinding /\ answer.allowed = 0 /\ answer.active = 0 /\ answer.bound > 0 -> "closed"
      [] OTHER -> "open"
check_telegram_strict_binding_readiness(server) ==
    IF server.api = "down" THEN "fail"
    ELSE IF TelegramStatus(server.telegram) \in {"strict", "listed", "bound"} THEN "ok" ELSE "warn"

\* the checklist of check_tushare_anns_d_beat_enablement.py, in its offline mode
BeatGates(t) ==
    << OkIf(t.samples), OkIf(t.samples), IF t.token THEN "ok" ELSE "warn",
       CASE t.beat = "unreadable" -> "fail" [] t.beat = "on" -> "warn" [] t.beat = "off" -> "ok",
       OkIf(t.interval), "warn", "warn" >>
Worst(statuses) ==
    IF "fail" \in ToSet(statuses) THEN "fail" ELSE IF "warn" \in ToSet(statuses) THEN "warn" ELSE "ok"
check_tushare_anns_d_beat_enablement(server) == Worst(BeatGates(server.tushare))

-----------------------------------------------------------------------------
If(condition, statuses) == IF condition THEN statuses ELSE <<>>
checks(args, server) ==
    << IF server.envFile THEN "ok" ELSE IF "strict_env" \in args THEN "fail" ELSE "warn",
       OkIf(server.config), OkIf(server.config) >>
      \o If("build" \in args, <<OkIf(server.image)>>)
      \o If("containers" \in args, <<OkIf(server.containers)>>)
      \o If("contract" \in args, check_server_compose_contract(server.services))
      \o If("systemd" \in args, check_systemd_units(server.units))
      \o If("backup" \in args, <<OkIf(server.pgdump)>>)
      \o If("api" \in args, <<OkIf(server.api # "down"), OkIf(server.api = "ready")>>)
      \o If("m5" \in args, check_m5_smoke(server, "sample" \in args))
      \o If("telegram" \in args, <<check_telegram_strict_binding_readiness(server)>>)
      \o If("tushare" \in args, <<check_tushare_anns_d_beat_enablement(server)>>)
      \o If("model" \in args, <<server.model>>)

build_report(args, server) ==
    LET status == Worst(checks(args, server))
    IN  [status |-> status, exit |-> IF "fail" \in ToSet(checks(args, server)) THEN 1 ELSE 0]
=============================================================================
