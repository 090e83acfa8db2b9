SPECIFICATION Spec
CONSTANTS
    Runs = {r1, r2}
    Scheduled = {r1, r2}
    Configured = {r1, r2}
    Chats = {11, 12}
    OutsideUsers = {12}
    Signals = {1, 4}
    Scans = {1, 2}
    SignalsOf <- MCSignalsOf
    Priority <- MCPriority
    Verdict <- MCVerdict
    MaxActive = 1
    MaxTries = 2
    MaxFaults = 1
    r1 = r1
    r2 = r2
SYMMETRY RunSymmetry
INVARIANTS
    RepeatsOnlyUnrecorded
PROPERTIES
    ImplementsLedger
