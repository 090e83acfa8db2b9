\* One component after another: scans, and each INSTANCE with its constants.
SPECIFICATION SumSpec
CONSTANTS
    Components = {"scan", "view", "governance", "counts", "reports", "top",
                  "serial_scores", "draft"}
    Workers = {w1}
    Batches = {1, 2, 3}
    Keys = {k1}
    Trigger = 2
    Window = 1
    HistoryLimit = 2
    MaxSignals = 2
    MaxTime = 2
    MaxErrors = 0
    MaxLosses = 0
    MaxLate = 0
    SettingsSpace <- MCSettings
    Payloads <- MCPayloads
    MaxDraftItems = 3
INVARIANTS
    CountsAreTrue
    ReadersAgree
    GatesAgree
    ReportsAgree
    DraftsAreAudited
PROPERTIES
    FiguresMoveOneWay
CHECK_DEADLOCK FALSE
