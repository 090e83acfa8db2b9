\* Ticks for one process and for two, with a retry, and a process that dies or the worker with all of them.
SPECIFICATION Spec
CONSTANTS
    Workers = {w1, w2}
    MAX_RETRIES = 1
    MaxBeats = 2
    MaxDeaths = 1
SYMMETRY AlikeWorkers
INVARIANTS
    PushesFollowScans
CHECK_DEADLOCK FALSE
