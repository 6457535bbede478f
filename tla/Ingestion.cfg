SPECIFICATION Spec
CONSTANTS
    Procs = {"monitor", "backfill"}
    Wanted <- MonitorAndBackfill
    LastBar = 4
    Changing = {3}
    Launch = 2
    LocalNow = 5
    ServerStart = 4
    ServerEnd = 5
    PageLimit = 2
    MaxAttempts = 2
    Errors <- TwoErrors
    MaxFaults = 2
    MaxRuns = 1
    None = None
INVARIANTS
    OkIsComplete
    CandlesAreFinalOrGuessed
    WalkIsNotLost
PROPERTIES
    StoreIsWriteOnce
CHECK_DEADLOCK FALSE
