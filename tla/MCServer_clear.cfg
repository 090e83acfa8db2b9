\* Saves that clear a key which is no secret.
SPECIFICATION SumSpec
CONSTANTS
    Clearable = {"token", "flag"}
    Requests = {q1, q2, q3}
    Chats = {1, 2}
    Users = {"u"}
    EnvLists <- MCEnvLists
    Kinds = {"push", "message", "bind", "patch"}
    MaxFaults = 0
    Slots = {"s1"}
    AlertKeys = {"k1"}
    EnvFiles <- SomeEnvs
    Options <- SomeOptions
    DEFAULT_MAX_RECIPIENTS = 2
    Ttl = 1
    MaxClock = 1
    Serial = TRUE
    MayFail = TRUE
    MayCrash = FALSE
    Processes = {"api", "worker"}
    KindOf <- MCKindOf
    GoodValues = {"v1", "v2"}
    FalseValue = "v2"
    StartFiles <- MCStartFiles
    Shared = TRUE
    BaseEnv <- MCBaseEnv
    SettingsPayloads <- MCPayloads
    MaxSaves = 2
    MaxEdits = 1
    Components = {"editor"}
INVARIANTS
    AnyKeyMayBeCleared
CHECK_DEADLOCK FALSE
