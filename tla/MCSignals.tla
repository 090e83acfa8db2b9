------------------------------ MODULE MCSignals ------------------------------
(***************************************************************************)
(* From scans to reports: what a signal becomes.  Each behaviour is one    *)
(* component of the list below, alone (Registers): one of the hosts,       *)
(* RadarScan, with scans one after another, and ModelDraft, or one of the  *)
(* INSTANCEs.                                                              *)
(***************************************************************************)
EXTENDS RadarScan, ModelDraft, Registers

\* The components that are checked.
CONSTANT Components

\* Three overlapping scans of two subjects, one of them found twice, and a reader, while
\* P2 signals run out of their window.
Found(k, p) == [key |-> k, priority |-> p]
MCContents == {<<>>, <<Found("k1", "P0"), Found("k2", "P2")>>,
               <<Found("k1", "P2"), Found("k2", "P2"), Found("k1", "P2")>>}
View == INSTANCE RadarView WITH
    Contents <- MCContents, Readers <- {"r1"}, P2Window <- 0, Limit <- 1, MaxBatches <- 3,
    MaxTime <- 1,
    now <- v1, batches <- v2, reader <- v3

\* Two readers against up to three reviews of signals of every verdict, in and out of the
\* scope of the review route.
EvidenceCase(confidence, policy, freshness) ==
    [confidence |-> confidence, forbidden |-> FALSE, quality |-> "ok", hints |-> <<>>,
     conflict |-> FALSE, metrics |-> <<>>, source_time |-> {}, collected_at |-> 0,
     freshness |-> freshness, policy |-> policy]
SignalCase(priority, quick, markers, forbidden, quality) ==
    [priority |-> priority, quick |-> quick, markers |-> markers, evidence_count |-> 1,
     forbidden |-> forbidden, quality |-> quality, hints |-> <<>>, metrics |-> <<>>]
MCCases ==
    [signal: {SignalCase("P0", FALSE, {"risk"}, f, q) : f \in BOOLEAN, q \in {"ok", "degraded"}}
                \cup {SignalCase("P1", TRUE, {}, f, "ok") : f \in BOOLEAN}
                \cup {SignalCase("P2", FALSE, {}, FALSE, q) : q \in {"ok", "failed"}},
     evidences: {<<EvidenceCase(c, p, f)>> : c \in {49, 50, 82}, p \in {"public_summary", "private"},
                                         f \in {{"latest"}, {"latest", "stale"}}}
                \cup {<<>>}]
Governance == INSTANCE SignalGovernance WITH
    Terms <- {}, SafePhrases <- {}, Negations <- {}, Separators <- {},
    Cases <- MCCases, Readers <- {"r1", "r2"}, MaxReviews <- 3,
    case <- v1, status <- v2, reviews <- v3, reader <- v4

\* Daily and weekly reports while one signal, one report and one push come in.
Counts == INSTANCE ReportBook WITH
    Users <- {"u"}, Requests <- {"q1"}, Types <- {"quick"}, Periods <- {"daily", "weekly"},
    Verdicts <- {"approved"}, DAY <- 2, DAYS <- 2, OFFSET <- 1, TopLimit <- 1,
    MaxSignals <- 1, MaxReports <- 1, MaxPushes <- 1, MaxTime <- 3,
    clock <- v1, signals <- v2, reports <- v3, pushes <- v4, request <- v5, reader <- v6, last <- v7

\* Two users who ask for reports of the same signal at the same time.
Reports == INSTANCE ReportBook WITH
    Users <- {"u", "v"}, Requests <- {"q1", "q2"}, Types <- {"quick", "deep"}, Periods <- {},
    Verdicts <- {"approved", "needs_human_review", "blocked"}, DAY <- 2, DAYS <- 2, OFFSET <- 1,
    TopLimit <- 1, MaxSignals <- 1, MaxReports <- 3, MaxPushes <- 0, MaxTime <- 1,
    clock <- v1, signals <- v2, reports <- v3, pushes <- v4, request <- v5, reader <- v6, last <- v7

\* Periodic reports that name one of two signals.
Top == INSTANCE ReportBook WITH
    Users <- {"u"}, Requests <- {"q1"}, Types <- {"quick"}, Periods <- {"daily", "weekly"},
    Verdicts <- {"approved"}, DAY <- 2, DAYS <- 2, OFFSET <- 1, TopLimit <- 1,
    MaxSignals <- 2, MaxReports <- 0, MaxPushes <- 0, MaxTime <- 2,
    clock <- v1, signals <- v2, reports <- v3, pushes <- v4, request <- v5, reader <- v6, last <- v7

\* Three score runs of one signal, one after another, with reviews between them.
NoRecord == [status |-> "absent"]
MCSignal == [priority |-> "P1", stage |-> "developing", review |-> "candidate", evidence |-> 2,
             continuity |-> NoRecord, quality |-> NoRecord]
SerialScores == INSTANCE ScoreRecords WITH
    Runs <- {1, 2, 3}, MaxActive <- 1, Windows <- <<1, 3, 5, 10>>,
    Ages <- {0, 5, 24, 30, 72, 100, 240}, Signal <- MCSignal, MaxFaults <- 1,
    ReviewedAs <- {"needs_human_review", "approved"},
    age <- v1, review <- v2, records <- v3, run <- v4, faults <- v5

\* A model draft under every combination of settings, with a few contents.
MCSettings ==
    [enabled : BOOLEAN, provider : {"disabled", "openai", "custom", "other"}, primary : {"", "a"},
     fallback : {"", "a", "b"}, openaiKey : BOOLEAN, modelKey : BOOLEAN,
     url : {"absent", "good", "not_http", "no_host", "bad_port", "credentials"},
     rawPrompt : BOOLEAN]
PlainItems(n) == [i \in 1..n |-> "plain"]
DraftOf(summary, items, extra, label) ==
    [kind |-> "object", summary |-> summary, items |-> items, extra |-> extra, label |-> label]
MCPayloads ==
    {[kind |-> "not_json"], [kind |-> "not_object"],
     DraftOf("plain", PlainItems(4), "none", TRUE), DraftOf("link", <<"link", "none", "plain">>, "link", TRUE),
     DraftOf("plain", PlainItems(4), "terms", TRUE), DraftOf("terms", PlainItems(4), "none", FALSE),
     DraftOf("plain", <<"plain", "plain", "plain", "terms">>, "none", TRUE)}
\* Where nothing is drafted the settings are these.
SomeSettings == CHOOSE s \in SettingsSpace : TRUE

hosts == <<vars, draftVars>>

ASSUME Assumptions ==
    /\ View!BoundsAssumption /\ View!ContentsAssumption
    /\ Governance!ReviewsAssumption /\ Governance!TermsAssumption
    /\ Governance!ConfidenceAssumption
    /\ Counts!BookAssumption /\ Reports!BookAssumption /\ Top!BookAssumption
    /\ SerialScores!RunsAssumption /\ SerialScores!WindowsAssumption
    /\ SerialScores!AgesAssumption /\ SerialScores!BoundsAssumption
    /\ SerialScores!SignalAssumption
    /\ ItemsAssumption /\ UrlsAssumption

-----------------------------------------------------------------------------
SumInit ==
    /\ component \in Components /\ Init /\ DraftInit
    /\ component # "draft" => settings = SomeSettings
    /\ \/ component \in {"scan", "draft"} /\ Unused1
       \/ component = "view" /\ View!Init /\ Unused4
       \/ component = "governance" /\ Governance!Init /\ Unused5
       \/ component = "counts" /\ Counts!Init /\ Unused8
       \/ component = "reports" /\ Reports!Init /\ Unused8
       \/ component = "top" /\ Top!Init /\ Unused8
       \/ component = "serial_scores" /\ SerialScores!Init /\ Unused6

SumNext ==
    \/ component = "scan" /\ Next /\ UNCHANGED <<draftVars, registers>>
    \/ component = "draft" /\ DraftNext /\ UNCHANGED <<vars, registers>>
    \/ component = "view" /\ View!Next /\ UNCHANGED <<hosts, Rest4>>
    \/ component = "governance" /\ Governance!Next /\ UNCHANGED <<hosts, Rest5>>
    \/ component = "counts" /\ Counts!Next /\ UNCHANGED <<hosts, Rest8>>
    \/ component = "reports" /\ Reports!Next /\ UNCHANGED <<hosts, Rest8>>
    \/ component = "top" /\ Top!Next /\ UNCHANGED <<hosts, Rest8>>
    \/ component = "serial_scores" /\ SerialScores!Next /\ UNCHANGED <<hosts, Rest6>>

SumSpec == SumInit /\ [][SumNext]_<<hosts, registers>>

-----------------------------------------------------------------------------
\* Readers of the overview and the list, while scans open, end and fail, get whole scans,
\* never one older than a finished scan they could see, and the same signals, each
\* subject counted once (radar/service.py).
ReadersAgree ==
    component = "view" =>
        /\ View!RepliesAreWhole
        /\ View!HiddenByNewerScan
        /\ View!OverviewAndListAgree
        /\ View!SubjectsAreCountedOnce

\* The share preview and the research brief, whose reads a review may fall between, let out
\* only what the rules approve, show no verdict without its review and hide no blocking
\* reason (governance/share.py, radar/service.py).
GatesAgree ==
    component = "governance" =>
        /\ Governance!TypeOK
        /\ Governance!SharedIsSound
        /\ Governance!PreviewsHaveTheirReview
        /\ Governance!ReportGateIsSound
        /\ Governance!DataAgentIsSound
        /\ Governance!BlockersAreShown

\* All reports of a signal agree in status and label and none is of a blocked signal;
\* what a periodic report names leads its signals (reports/service.py).
ReportsAgree ==
    /\ component = "reports" => Reports!ReportsAgree
    /\ component = "top" => Top!TopSubjectsLead

\* Figures move one way.  Made again within its local day or week, a periodic report never
\* counts less, though its tables are read one after the other and reports are dated
\* before they are seen.  While score runs do not overlap, a record written again gains at
\* most what a review of its signal between them has gained, a window that was complete
\* stays so, and what a record says of its composite, details, status and components is of
\* one scoring (reports/service.py, scores/service.py).
FiguresMoveOneWay ==
    [][/\ component = "counts" => Counts!CountsGrow
       /\ component = "serial_scores" =>
             SerialScores!ScoresAge /\ SerialScores!RecordsAreOfOneScoring']_<<hosts, registers>>
=============================================================================
