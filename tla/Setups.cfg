SPECIFICATION Spec
CONSTANTS
    StructureBars = 1
    TTL = 2
    RecentClosed = 1
    HoldBars = 1
    Zone = 2
    Touch = 1
    RangeMin = 4
    RangeMax = 20
    SweepByStructure = FALSE
    Bars <- AllBars
    Histories <- CalmOrBroken
    MaxBars = 10
    MaxAnalyses = 2
INVARIANTS
    TriggersAreNotForgotten
    NoConflicts
    LogPassesAudit
    OutcomeIsFirstEvent
    PullbackIsFirstReturn
CHECK_DEADLOCK FALSE
