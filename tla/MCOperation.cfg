\* One component after another: the collections, the backups, and each INSTANCE with its constants.
SPECIFICATION SumSpec
CONSTANTS
    Components = {"collection", "backups", "overview", "server_alerts", "history"}
    Collectors = {c1, c2}
    Plan <- MCPlan
    Datasets <- MCDatasets
    Viewer = TRUE
    MaxStarts = 2
    MaxErrors = 1
    MaxRetries = 1
    NTables = 1
    RETENTION = 1
    Uses <- MCUses
    MaxTime = 3
    MaxVersion = 2
    MaxFiles = 3
    MaxFailures = 1
SYMMETRY CollectorSymmetry
INVARIANTS
    CollectionsAreWhole
    ViewsAgree
PROPERTIES
    BackupsHold
CHECK_DEADLOCK FALSE
