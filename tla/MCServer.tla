------------------------------ MODULE MCServer ------------------------------
(***************************************************************************)
(* What is changed and run by hand on a server: chat bindings, holdings    *)
(* and settings; alerts and acceptance.  Each behaviour is one component   *)
(* of the list below, alone (Registers): one of the three hosts,           *)
(* TelegramAccess, AlertDelivery and SettingsEnv, or one of the INSTANCEs. *)
(***************************************************************************)
EXTENDS TelegramAccess, AlertDelivery, SettingsEnv, Registers, TLC

CONSTANTS Components,   \* the components that are checked
          Clearable     \* the keys a save may clear

RequestSymmetry == Permutations(Requests)

\* Three requests on the holdings of two users.
Portfolio == INSTANCE PortfolioItems WITH
    Users <- {"ann", "bob"}, KnownUsers <- {"ann", "bob"}, Tables <- {"holdings"},
    Codes <- {"c1"}, Ids <- {1}, MaxFaults <- 0,
    users <- v1, items <- v2, lastId <- v3, req <- v4, faults <- v5

\* Three requests of every kind about two chats; the allowlist is empty, names one chat and
\* the other in a spelling that does not count, or names no chat at all.
Entry(c, canonical) == [chat |-> c, canonical |-> canonical]
MCEnvLists == {{}, {Entry(1, FALSE), Entry(2, TRUE)}, {Entry(0, FALSE)}}

\* Bindings, patches and messages with the preflight's check made in every state.
Bindings == INSTANCE TelegramAccess WITH
    Requests <- {"r1", "r2"}, Chats <- {1, 2}, Users <- {"u"}, EnvLists <- MCEnvLists,
    Kinds <- {"message", "bind", "patch"}, MaxFaults <- 1,
    env <- v1, requireBinding <- v2, bindings <- v3, req <- v4, sent <- v5, span <- v6,
    faults <- v7
DeployPreflight == INSTANCE DeployCheck

\* The host's settings file with a key of each kind, two processes, a form and hand edits.
MCKindOf == [token |-> "checked", flag |-> "bool", seconds |-> "number", database |-> "other"]
MCLine(k, v) == [key |-> k, value |-> v]
MCStartFiles == {<<MCLine("token", "v1"), MCLine("#", "blank"), MCLine("database", "v1"),
                  MCLine("flag", "v1")>>}
Raw(k) == IF MCKindOf[k] = "other" THEN {"v1"} ELSE {"v1", "v2", "blank", "bad"}
MCPayloads ==
    {[values |-> f, clear |-> c] :
        f \in {g \in UNION {[ks -> UNION {Raw(k) : k \in ks}] :
                            ks \in {j \in SUBSET DOMAIN MCKindOf : Cardinality(j) <= 1}} :
                  \A k \in DOMAIN g : g[k] \in Raw(k)},
        c \in {{}} \cup {{k} : k \in Clearable}}
MCBaseEnv == [k \in DOMAIN MCKindOf |-> "unset"]

\* The same with a file in each container, in which a key stands twice, and a key set in the
\* environment of all.
Container == INSTANCE SettingsEnv WITH
    StartFiles <- {<<MCLine("flag", "v1"), MCLine("flag", "v2")>>}, Shared <- FALSE,
    BaseEnv <- [MCBaseEnv EXCEPT !["token"] = "v1"],
    files <- v1, environ <- v2, cached <- v3, reply <- v4, saved <- v5, saves <- v6, edits <- v7

\* The host's runs of the alert script: the service's and an operator's command lines, and
\* env files good and bad.
Opt(service, send, dedupe, ignore) ==
    [service |-> service, send |-> send, dedupe |-> dedupe, ignore |-> ignore]
Service == Opt(TRUE, TRUE, TRUE, FALSE)
EnvOf(ids) == [file |-> "regular", exposed |-> FALSE, readable |-> TRUE, malformed |-> FALSE,
               token |-> TRUE, ids |-> ids, exported |-> {}]
TwoChats == EnvOf(<<"c1", "c2">>)
SomeEnvs == {EnvOf(<<"c1", "c2", "c2">>), EnvOf(<<>>), EnvOf(<<"bad", "c1">>),
             EnvOf(<<"c1", "c2", "c3">>), [TwoChats EXCEPT !.token = FALSE],
             [TwoChats EXCEPT !.exposed = TRUE], [TwoChats EXCEPT !.exported = {"token"}],
             [TwoChats EXCEPT !.exported = {"ids"}]}
SomeOptions == {Service, Opt(FALSE, FALSE, FALSE, FALSE), Opt(FALSE, TRUE, TRUE, TRUE)}

\* The service with two alerts for one chat, refusals of Telegram and runs that die,
\* all within one cooldown (CalmAlert is the service over several).
Alert == INSTANCE AlertDelivery WITH
    Slots <- {"r1"}, AlertKeys <- {"k1", "k2"},
    EnvFiles <- {EnvOf(<<"c1">>)}, Options <- {Service},
    DEFAULT_MAX_RECIPIENTS <- 2, Ttl <- 1, MaxClock <- 0, Serial <- TRUE, MayFail <- TRUE,
    MayCrash <- TRUE,
    clock <- v1, payload <- v2, content <- v3, stateIno <- v4, tempIno <- v5, run <- v6,
    evidence <- v7, delivered <- v8

\* The service while nothing fails, over more than one window.
CalmAlert == INSTANCE AlertDelivery WITH
    Slots <- {"r1"}, AlertKeys <- {"k1", "k2"}, EnvFiles <- {TwoChats}, Options <- {Service},
    DEFAULT_MAX_RECIPIENTS <- 2, Ttl <- 2, MaxClock <- 3, Serial <- TRUE, MayFail <- FALSE,
    MayCrash <- FALSE,
    clock <- v1, payload <- v2, content <- v3, stateIno <- v4, tempIno <- v5, run <- v6,
    evidence <- v7, delivered <- v8

\* Two overlapping runs without the service.
AlertOverlap == INSTANCE AlertDelivery WITH
    Slots <- {"r1", "r2"}, AlertKeys <- {"k1"}, EnvFiles <- {TwoChats},
    Options <- {Opt(FALSE, TRUE, TRUE, FALSE)}, DEFAULT_MAX_RECIPIENTS <- 2, Ttl <- 1,
    MaxClock <- 1, Serial <- FALSE, MayFail <- TRUE, MayCrash <- FALSE,
    clock <- v1, payload <- v2, content <- v3, stateIno <- v4, tempIno <- v5, run <- v6,
    evidence <- v7, delivered <- v8

\* Acceptances of servers that differ from a good one, under several command lines.
Fixtures == INSTANCE MCDeployCheck WITH args <- v1, server <- v2, answer <- v3
MCBase == Fixtures!Good
GoodServer ==
    [api |-> "ready", signals |-> "good", telegram |-> MCBase.telegram, model |-> "ok",
     pgdump |-> TRUE, ops |-> "ok", db |-> "ok", alertEnv |-> "ok", service |-> "ok"]
MCServers ==
    {GoodServer, [GoodServer EXCEPT !.db = "warn", !.signals = "none", !.alertEnv = "warn"],
     [GoodServer EXCEPT !.pgdump = FALSE], [GoodServer EXCEPT !.model = "warn", !.service = "fail"],
     [GoodServer EXCEPT !.telegram = Fixtures!Open]}
Short == {"skip_backup", "skip_retention"}
MCArgSets ==
    {{}, {"plan"}, {"preset", "strict"}, {"inventory", "env_check", "strict"},
     {"telegram", "restore", "model", "ops_evidence", "service", "fail_fast"},
     Short \cup {"skip_runtime", "sample", "strict"}}
Acceptance == INSTANCE DeliveryAcceptance WITH
    Runs <- {"r1"}, Servers <- MCServers, BaseServer <- MCBase, ArgSets <- MCArgSets,
    Leftovers <- {"missing", "ok"}, MaxChanges <- 1, MaxFaults <- 1,
    server <- v1, files <- v2, run <- v3, changes <- v4, faults <- v5

\* Two acceptances that share a directory.
SharedAcceptance == INSTANCE DeliveryAcceptance WITH
    Runs <- {"r1", "r2"},
    Servers <- {GoodServer}, BaseServer <- MCBase, ArgSets <- {Short \cup {"alert"}},
    Leftovers <- {"ok"}, MaxChanges <- 1, MaxFaults <- 0,
    server <- v1, files <- v2, run <- v3, changes <- v4, faults <- v5

ASSUME Assumptions ==
    /\ ChatsAssumption /\ EnvAssumption /\ FaultsAssumption
    /\ Portfolio!UsersAssumption /\ Portfolio!TablesAssumption /\ Portfolio!BoundsAssumption
    /\ KeysAssumption /\ ValuesAssumption
    /\ Container!KeysAssumption /\ Container!ValuesAssumption
    /\ Alert!DeliveryAssumption /\ CalmAlert!DeliveryAssumption
    /\ DeliveryAssumption /\ AlertOverlap!DeliveryAssumption

-----------------------------------------------------------------------------
SumInit ==
    /\ component \in Components /\ Init /\ AlertInit /\ SettingsInit
    /\ component # "access" => env = {} /\ ~requireBinding
    /\ \/ component \in {"access", "alert_options", "editor"} /\ Unused1
       \/ component = "portfolio" /\ Portfolio!Init /\ Unused6
       \/ component = "bindings" /\ Bindings!Init /\ Unused8
       \/ component = "container" /\ Container!SettingsInit /\ Unused8
       \/ component = "alert" /\ Alert!AlertInit /\ Unused9
       \/ component = "calm_alert" /\ CalmAlert!AlertInit /\ Unused9
       \/ component = "alert_overlap" /\ AlertOverlap!AlertInit /\ Unused9
       \/ component = "acceptance" /\ Acceptance!Init /\ Unused6
       \/ component = "shared_acceptance" /\ SharedAcceptance!Init /\ Unused6

hosts == <<vars, alertVars, settingsVars>>

SumNext ==
    \/ component = "access" /\ Next /\ UNCHANGED <<alertVars, settingsVars, registers>>
    \/ component = "alert_options" /\ AlertNext /\ UNCHANGED <<vars, settingsVars, registers>>
    \/ component = "portfolio" /\ Portfolio!Next /\ UNCHANGED <<hosts, Rest6>>
    \/ component = "bindings" /\ Bindings!Next /\ UNCHANGED <<hosts, Rest8>>
    \/ component = "editor" /\ SettingsNext /\ UNCHANGED <<vars, alertVars, registers>>
    \/ component = "container" /\ Container!SettingsNext /\ UNCHANGED <<hosts, Rest8>>
    \/ component = "alert" /\ Alert!AlertNext /\ UNCHANGED <<hosts, Rest9>>
    \/ component = "calm_alert" /\ CalmAlert!AlertNext /\ UNCHANGED <<hosts, Rest9>>
    \/ component = "alert_overlap" /\ AlertOverlap!AlertNext /\ UNCHANGED <<hosts, Rest9>>
    \/ component = "acceptance" /\ Acceptance!Next /\ UNCHANGED <<hosts, Rest6>>
    \/ component = "shared_acceptance" /\ SharedAcceptance!Next /\ UNCHANGED <<hosts, Rest6>>

SumSpec == SumInit /\ [][SumNext]_<<hosts, registers>>

-----------------------------------------------------------------------------
\* A step changes what its request names and nothing else: rows of its own user, the
\* columns of its patch, no deleted row, and rows stay keyed; the permission of a chat only
\* at the request to change it; the other keys of the settings file, and none by a form sent
\* back as it was read.  In a container the saves keep their promises as well
\* (portfolio/service.py, telegram/binding_service.py, settings/service.py).
OnlyNamedThingsChange ==
    [][/\ component = "portfolio" =>
             /\ Portfolio!RowsAreKeyed'
             /\ Portfolio!OwnRowsOnly /\ Portfolio!UpdatesMerge /\ Portfolio!DeletedStaysDeleted
       /\ component = "access" => AllowedOnlyOnRequest
       /\ component = "editor" => OtherKeysSurvive /\ SaveOfReadIsNeutral
       /\ component = "container" => Container!OtherKeysSurvive /\ Container!ValidSavesWork']_<<hosts, registers>>

\* settings/schemas.py says clear is for any key: a save that clears one works as well.
AnyKeyMayBeCleared == component = "editor" => ValidSavesWork

\* What was recorded stays: a dedupe entry is neither lost nor replaced by an older one; and
\* the other instances of AlertDelivery stay true (server_alert_telegram.py).
RecordedStays ==
    [][/\ component = "alert" => Alert!RememberedStays /\ Alert!AlertsAreTrue'
       /\ component = "calm_alert" => CalmAlert!RememberedStays /\ CalmAlert!AlertsAreTrue'
       /\ component = "alert_options" => RememberedStays
       /\ component = "alert_overlap" => AlertOverlap!AlertsAreTrue']_<<hosts, registers>>

Readiness ==
    DeployPreflight!TelegramStatus(DeployPreflight!telegram_status(v1, v2,
        Cardinality(Bindings!Bound(v3)), Cardinality(Bindings!ActiveBindings(v3))))
Strangers == {c \in {1, 2} : ~Bindings!EnvAllows(c) /\ v3[c] = Bindings!NoRow}

\* An acceptance that ends with 0 has read evidence of its own time for every stage it was
\* asked for, of a server that was ready, and with --fail-on-warning no warning, though
\* helpers die and the server changes; the preflight calls the bot open exactly when it
\* answers strangers, and closed or bound only when it is
\* (server_delivery_acceptance.py, server_deploy_check.py).
AcceptedIsSound ==
    /\ component = "acceptance" =>
          /\ Acceptance!TypeOK
          /\ Acceptance!AcceptedIsFresh
          /\ Acceptance!AcceptedWasReady
          /\ Acceptance!StrictMeansNoWarning
    /\ component = "shared_acceptance" =>
          SharedAcceptance!AcceptedIsFresh /\ SharedAcceptance!AcceptedWasReady
    /\ component = "bindings" =>
          /\ Strangers # {} =>
                (Readiness = "open" <=> Strangers \cap Bindings!AuthorizedChats(v3) # {})
          /\ Readiness = "closed" => Bindings!AuthorizedChats(v3) = {}
          /\ Readiness = "bound" => Bindings!AuthorizedChats(v3) # {}
=============================================================================
