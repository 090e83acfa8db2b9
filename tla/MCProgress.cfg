\* One component after another: the host's requests, and each INSTANCE with its constants.
SPECIFICATION SumFairSpec
CONSTANTS
    Components = {"push", "scan", "pipeline", "alert", "portfolio", "collection"}
    Requests = {"q1", "q2"}
    Users = {"ann"}
    KnownUsers = {}
    Tables = {"holdings"}
    Codes = {"c1"}
    Ids = {1}
    MaxFaults = 1
INVARIANT RowsAreKeyed
PROPERTIES
    RunsSettle
    ScansSettle
    AlertReachesEveryone
    RequestsEnd
CHECK_DEADLOCK FALSE
