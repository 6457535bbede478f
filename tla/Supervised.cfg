SPECIFICATION FairSpec
CONSTANTS
    MaxProcs = 3
    MaxTime = 6
    HangAfter = 2
    StartupGrace = 2
    StableAfter = 3
    BackoffBase = 1
    BackoffMax = 2
    Hour = 4
    MaxPerHour = 1
    GracefulTimeout = 1
    Deadline = 5
    WarmUp = 2
    BeatEvery = 1
    ByHand = FALSE
    Sleeps = FALSE
    BusyReads = FALSE
    MaxInterrupts = 2
INVARIANTS
    LaunchesAreJustified
    AbandonedIsDead
PROPERTIES
    OnlyHungIsKilled
    SupervisorRecovers
CHECK_DEADLOCK FALSE
