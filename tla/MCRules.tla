------------------------------- MODULE MCRules -------------------------------
(***************************************************************************)
(* The pure rules of the program over bounded inputs, the score runs that  *)
(* store what some of them say, and the signals that others make of a      *)
(* series of scans.  Each behaviour is one component of the list below,    *)
(* alone (Registers): one of the hosts, ScoreRecords and SubjectLifecycle, *)
(* or one set of rules evaluated on one request.                           *)
(***************************************************************************)
EXTENDS ScoreRecords, SubjectLifecycle, Registers

\* The components that are checked.
CONSTANT Components

\* Three overlapping score runs of one signal, and a review of it.
MCWindows == <<1, 3>>
NoRecord == [status |-> "absent"]
MCSignal == [priority |-> "P1", stage |-> "developing", review |-> "candidate", evidence |-> 2,
             continuity |-> NoRecord, quality |-> NoRecord]

\* Any series of scans of one subject, with rows around every threshold.
MCRows == [pct: {-10, 14, 15, 30, 35, 50, 65, 70}, rising: {0, 5, 10, 15}, falling: {0, 5, 10},
           leader: {0}]
            \cup [pct: {-10, 14}, rising: {0, 10}, falling: {0, 10}, leader: {50}]
MCEvents == [type: {"", "regulatory"}, severity: {"", "minor", "major"}, score: {0, 84, 85}]

hosts == <<vars, subjectVars>>

\* Every daily query, every combination of latest attempts, datasets with the numbers of
\* required columns the endpoints declare.
Provider == INSTANCE MCProviderRules WITH
    Required <- {3, 4, 5, 6, 8, 9, 10, 11}, RowCounts <- {0, 1, 2},
    request <- v1, answer <- v2

\* Every text of up to six letters, every set of up to three defects of a signal.
Review == INSTANCE MCReviewRules WITH
    Terms <- {<<"mai", "hao">>, <<"bao">>},
    SafePhrases <- <<<<"bu", "bao">>, <<"bu", "shi", "mai", "hao">>>>,
    Negations <- {<<"bu">>}, Separators <- {","}, MaxText <- 6,
    request <- v1, answer <- v2

\* Rows around every threshold, small pools, three candidates at most kept.
Signals == INSTANCE MCSignalRules WITH
    Pcts <- {0, 14, 15, 29, 30, 49, 50, 65}, Counts <- {0, 1, 5, 9, 10, 12},
    Pools <- {0, 1, 2, 3, 4, 6}, MaxSignals <- 3,
    request <- v1, answer <- v2

\* Signals at every threshold of a component, each beside a better one.
Scores == INSTANCE MCScoreRules WITH request <- v1, answer <- v2

\* A monitor run on one or two samples and a second one after the API has changed.
Alerts == INSTANCE MCRuntimeAlerts WITH
    TopFailures <- 5, TopWarnings <- 10,
    samples <- v1, options <- v2, first <- v3, second <- v4

\* Servers with one or two faults under every set of preflight flags.
Preflight == INSTANCE MCDeployCheck WITH args <- v1, server <- v2, answer <- v3

ASSUME Assumptions ==
    /\ RunsAssumption /\ WindowsAssumption /\ AgesAssumption /\ BoundsAssumption
    /\ SignalAssumption /\ RowsAssumption
    /\ Provider!InputsAssumption /\ Review!BoundsAssumption /\ Review!TermsAssumption
    /\ Signals!InputsAssumption

-----------------------------------------------------------------------------
SumInit ==
    /\ component \in Components /\ Init /\ SubjectInit
    /\ component # "subject" => source = "sector"
    /\ \/ component \in {"records", "subject"} /\ Unused1
       \/ component = "provider" /\ Provider!Init /\ Unused3
       \/ component = "review" /\ Review!Init /\ Unused3
       \/ component = "signals" /\ Signals!Init /\ Unused3
       \/ component = "scores" /\ Scores!Init /\ Unused3
       \/ component = "alerts" /\ Alerts!Init /\ Unused5
       \/ component = "preflight" /\ Preflight!Init /\ Unused4

SumNext ==
    \/ component = "records" /\ Next /\ UNCHANGED <<subjectVars, registers>>
    \/ component = "subject" /\ SubjectNext /\ UNCHANGED <<vars, registers>>
    \/ component = "provider" /\ Provider!Next /\ UNCHANGED <<hosts, Rest3>>
    \/ component = "review" /\ Review!Next /\ UNCHANGED <<hosts, Rest3>>
    \/ component = "signals" /\ Signals!Next /\ UNCHANGED <<hosts, Rest3>>
    \/ component = "scores" /\ Scores!Answer /\ UNCHANGED <<hosts, Rest3>>
    \/ component = "alerts" /\ Alerts!Next /\ UNCHANGED <<hosts, Rest5>>
    \/ component = "preflight" /\ Preflight!Next /\ UNCHANGED <<hosts, Rest4>>

SumSpec == SumInit /\ [][SumNext]_<<hosts, registers>>

-----------------------------------------------------------------------------
\* No separator of itself hides a forbidden term, no field of a signal excuses a term of
\* another but by a negation at its end, and no negated mention excuses a later one; no
\* defect improves a verdict, and what is approved gets sound share labels
\* (governance/review.py, governance/share.py).
ReviewIsStrict ==
    component = "review" =>
        /\ Review!SeparatorsNeverHide
        /\ Review!EarlierMentionsNeverExcuse
        /\ Review!VerdictIsMonotone
        /\ Review!ApprovedHasSoundLabels

\* The scheduling gate and the readiness view agree, no better attempt makes a provider
\* less ready and no emptier dataset surer, and no daily query is unbounded
\* (providers/service.py, akshare.py, tushare.py, routes/providers.py).
ReadinessIsCoherent ==
    component = "provider" =>
        /\ Provider!EligibleIffReady
        /\ Provider!ReadinessIsMonotone
        /\ Provider!ConfidenceFollowsQuality
        /\ Provider!DailyQueriesAreBounded

\* The bands of the rules leave no gap, the keyword lists agree, and the limit of a scan
\* cuts nothing for something of a lower priority (radar/rules.py, radar/service.py).
CandidatesAreRanked ==
    component = "signals" =>
        /\ Signals!PriorityIsMonotone
        /\ Signals!SentimentIsMonotone
        /\ Signals!CriticalTitlesAreP0
        /\ Signals!CutKeepsPriorities

\* More evidence never lowers a score and age never raises it, the windows of a signal are
\* complete in their order, and what is blocked never gets the band of strong attention
\* (scores/service.py).
ScoresFollowEvidence ==
    component = "scores" =>
        /\ Scores!ScoresAreInRange
        /\ Scores!ScoresFollowEvidence
        /\ Scores!WindowsCompleteInOrder
        /\ Scores!BlockedIsNeverStrong

\* Trouble in any sample is a critical alert that notifies and nothing else is one; worse
\* trouble is a new alert, standing trouble is not; the runtime check, the monitor and
\* the evidence export do not contradict each other (infra/scripts).
TroubleIsAlerted ==
    component = "alerts" =>
        /\ Alerts!TroubleIsAlerted
        /\ Alerts!WorseIsNewAlert
        /\ Alerts!StandingAlertKeepsKey
        /\ Alerts!ExitsAgree
        /\ Alerts!EvidenceAgrees

\* A preflight that exits with 0 has met nothing out of order among what it was asked for,
\* and asking for more never helps (server_deploy_check.py).
PassedIsSound ==
    component = "preflight" => Preflight!PassedIsSound /\ Preflight!MoreChecksNeverHelp
=============================================================================
