SPECIFICATION Spec
CONSTANTS
    MaxProcs = 2
    MaxTime = 4
    HangAfter = 1
    StartupGrace = 1
    StableAfter = 3
    BackoffBase = 1
    BackoffMax = 2
    Hour = 6
    MaxPerHour = 1
    GracefulTimeout = 1
    Deadline = 0
    WarmUp = 2
    BeatEvery = 1
    ByHand = TRUE
    Sleeps = TRUE
    BusyReads = TRUE
    MaxInterrupts = 1
INVARIANTS
    OnlyTheWatchedLives
CHECK_DEADLOCK FALSE
