SPECIFICATION FairSpec
CONSTANTS
    N = 1
    Symbols = {"BTC"}
    SymbolOf <- LongSymbol
    NameInside <- SameName
    Series = {"btc"}
    Base <- LongBase
    Context <- LongContext
    Length <- LongLength
    FirstClose <- LongFirst
    RequiredBars = 2
    Grace = 1
    StaleAfter = 1
    Poll = 1
    ApiDownAfter = 2
    MaxRuntime = 9
    StructureOn = TRUE
    SetupOn = TRUE
    Operator = TRUE
    UnitMaxAttempts = 2
    BackoffBase = 1
    BackoffMax = 2
    SyncFaults <- TestFaults
    MaxLost <- LongLost
    StartTime = 5
    MaxTime = 8
    MaxRestarts = 0
INVARIANTS
    AttemptBudget
    StepsAreSettled
PROPERTIES
    StopIsHonoured
CHECK_DEADLOCK FALSE
