---------------------------- MODULE MCDeployCheck ----------------------------
(***************************************************************************)
(* The preflight of servers that differ from a good one in one or two      *)
(* respects, under a few flags and under nearly all of them, and the       *)
(* compose contract of the repository's compose files after one change.    *)
(***************************************************************************)
EXTENDS DeployCheck

-----------------------------------------------------------------------------
(***************************************************************************)
(* Servers: the one the repository's compose and unit files describe, and  *)
(* those that differ from it in one respect.                               *)
(***************************************************************************)
\* docker-compose.server.yml as it resolves without variables in .env
Env == [key \in SERVER_COMPOSE_RUNTIME_ENV_KEYS |->
           CASE key = "APP_ENV" -> "server" [] key = "DATABASE_URL" -> "postgres"
             [] key = "RADAR_SCAN_INTERVAL_SECONDS" -> "300" [] OTHER -> "redis"]
Service(tokens, ports) ==
    [env |-> Env, deps |-> [d \in {"postgres", "redis"} |-> "service_healthy"], health |-> ports # {},
     restart |-> "unless-stopped", tokens |-> tokens, ports |-> ports]
Port(published) == [target |-> "8000", published |-> published]
Celery == {"celery", "-A", "app"}
Services ==
    [n \in SERVER_COMPOSE_REQUIRED_SERVICES |->
        CASE n = "api" -> Service({}, {Port("8000")})
          [] n = "worker" -> Service(Celery \cup {"worker"}, {})
          [] n = "beat" -> Service(Celery \cup {"beat", "--schedule"}, {})
          [] OTHER -> Service({}, {})]
Without(f, k) == [x \in DOMAIN f \ {k} |-> f[x]]
Runtime == SERVER_COMPOSE_RUNTIME_SERVICES
Drifted ==
    {Without(Services, n) : n \in DOMAIN Services}
    \cup {[Services EXCEPT ![n].env = Without(@, k)] : n \in Runtime, k \in DOMAIN Env}
    \cup {[Services EXCEPT ![n].env["DATABASE_URL"] = "elsewhere"] : n \in Runtime}
    \cup {[Services EXCEPT ![n].env["CELERY_BROKER_URL"] = "elsewhere"] : n \in Runtime}
    \cup {[Services EXCEPT ![n].deps["redis"] = "service_started"] : n \in Runtime}
    \cup {[Services EXCEPT ![n].deps = Without(@, "postgres")] : n \in Runtime}
    \cup {[Services EXCEPT ![n].restart = "no"] : n \in Runtime}
    \cup {[Services EXCEPT ![n].tokens = @ \cup {"worker", "beat"}] : n \in {"worker", "beat"}}
    \cup {[Services EXCEPT !["beat"].tokens = @ \ {"--schedule"}], [Services EXCEPT !["api"].health = FALSE]}

Good ==
    [envFile |-> TRUE, config |-> TRUE, image |-> TRUE, containers |-> TRUE, pgdump |-> TRUE, services |-> Services,
     units |-> [u \in {"compose", "timer"} |-> "ok"], api |-> "ready", signals |-> "good",
     telegram |-> [requireBinding |-> TRUE, allowed |-> 0, bound |-> 0, active |-> 0],
     tushare |-> [samples |-> TRUE, token |-> TRUE, beat |-> "off", interval |-> TRUE], model |-> "ok"]
Open == [requireBinding |-> FALSE, allowed |-> 0, bound |-> 0, active |-> 0]
Worse(s) ==
    {[s EXCEPT !.envFile = FALSE], [s EXCEPT !.config = FALSE], [s EXCEPT !.containers = FALSE], [s EXCEPT !.image = FALSE],
     [s EXCEPT !.pgdump = FALSE], [s EXCEPT !.api = "not_ready"], [s EXCEPT !.api = "down"],
     [s EXCEPT !.signals = "none"], [s EXCEPT !.signals = "no_id"], [s EXCEPT !.signals = "bad_brief"],
     [s EXCEPT !.telegram = Open], [s EXCEPT !.tushare.token = FALSE], [s EXCEPT !.tushare.beat = "unreadable"],
     [s EXCEPT !.tushare.samples = FALSE], [s EXCEPT !.model = "warn"], [s EXCEPT !.model = "fail"]}
    \cup {[s EXCEPT !.units["timer"] = w] : w \in {"missing", "invalid", "drifted", "forbidden"}}
    \cup {[s EXCEPT !.services = d] : d \in Drifted}
-----------------------------------------------------------------------------
VARIABLES args, server, answer
vars == <<args, server, answer>>

\* a few flags, or all but one
FlagSets == UNION {kSubset(n, Flags) : n \in (0..4) \cup {Cardinality(Flags) - 1, Cardinality(Flags)}}
Init == args \in FlagSets /\ server = Good /\ answer = <<>>
\* --require-radar-signal-analysis-sample needs --check-m5-smoke
Check(s) ==
    /\ answer = <<>> /\ ("sample" \in args => "m5" \in args)
    /\ server' = s /\ answer' = build_report(args, s)
    /\ UNCHANGED args
CheckOneFault == \E s \in {Good} \cup Worse(Good) : Check(s)
CheckTwoFaults == "m5" \notin args /\ \E s \in Worse([Good EXCEPT !.api = "down"]) : Check(s)
Next == CheckOneFault \/ CheckTwoFaults
Spec == Init /\ [][Next]_vars

Answered == answer # <<>>
Rank(status) == CASE status = "ok" -> 0 [] status = "warn" -> 1 [] status = "fail" -> 2

\* Asking for one more check never makes the verdict better or a failing exit code zero
\* (main appends what each flag asks for).
MoreChecksNeverHelp ==
    Answered => \A f \in {g \in Flags \ args : g = "sample" => "m5" \in args} :
        LET more == build_report(args \cup {f}, server)
        IN  Rank(more.status) >= Rank(answer.status) /\ more.exit >= answer.exit

\* A preflight that exits with 0 has met nothing out of order among what was asked for: it
\* may only have noticed a missing .env, an empty list of signals, an open bot, a Beat
\* or a model that is not set up.
PassedIsSound ==
    Answered /\ answer.exit = 0 =>
        /\ server.config
        /\ "strict_env" \in args => server.envFile
        /\ "build" \in args => server.image
        /\ "containers" \in args => server.containers
        /\ "contract" \in args => server.services \notin Drifted
        /\ "systemd" \in args => server.units = Good.units
        /\ "backup" \in args => server.pgdump
        /\ args \cap {"api", "m5"} # {} => server.api = "ready"
        /\ "m5" \in args => server.signals \in {"good"} \cup (IF "sample" \in args THEN {} ELSE {"none"})
        /\ "telegram" \in args => server.api # "down"
        /\ "tushare" \in args => server.tushare.samples /\ server.tushare.beat # "unreadable"
        /\ "model" \in args => server.model # "fail"
=============================================================================
