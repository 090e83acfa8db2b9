\* Overlapping score runs, and one set of rules after another, each with its inputs.
SPECIFICATION SumSpec
CONSTANTS
    Runs = {1, 2, 3}
    MaxActive = 3
    Windows <- MCWindows
    Ages = {23, 24, 25, 73}
    Signal <- MCSignal
    ReviewedAs = {"approved"}
    MaxFaults = 1
    Rows <- MCRows
    Events <- MCEvents
    Components = {"records", "subject", "provider", "review", "signals", "scores", "alerts", "preflight"}
INVARIANTS
    ReviewIsStrict
    ReadinessIsCoherent
    CandidatesAreRanked
    ScoresFollowEvidence
    TroubleIsAlerted
    PassedIsSound
    RecordsOfOneRun
    SubjectsDevelop
CHECK_DEADLOCK FALSE
