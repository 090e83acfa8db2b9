SPECIFICATION Spec
CONSTANTS
    Workers = {w1, w2}
    Batches = {1, 2}
    Keys = {k1}
    Trigger = 2
    Window = 1
    HistoryLimit = 2
    MaxSignals = 1
    MaxTime = 2
    MaxErrors = 1
    MaxLosses = 1
    MaxLate = 1
    w1 = w1
    w2 = w2
    k1 = k1
INVARIANTS
    TypeOK
    OutcomesAreSound
    RunningHasWorker
    QuickHasEvidence
PROPERTIES
    ImplementsBoard
