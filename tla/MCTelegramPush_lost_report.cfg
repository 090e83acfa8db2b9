SPECIFICATION Spec
CONSTANTS
    Runs = {r1, r2}
    Scheduled = {r1, r2}
    Configured = {r1, r2}
    Chats = {11, 12}
    OutsideUsers = {12}
    Signals = {1, 2}
    Scans = {1}
    SignalsOf <- MCSignalsOf
    Priority <- MCPriority
    Verdict <- MCVerdict
    MaxActive = 1
    MaxTries = 2
    MaxFaults = 0
    r1 = r1
    r2 = r2
PROPERTIES
    SkippedPushHasReports
