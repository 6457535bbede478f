SPECIFICATION Spec
CONSTANTS
    N = 2
    Symbols = {"BTC", "ETH"}
    SymbolOf <- TwoSymbol
    NameInside <- SameName
    Series = {"btc", "eth"}
    Base <- TwoBase
    Context <- TwoContext
    Length <- TwoLength
    FirstClose <- TwoFirst
    RequiredBars = 2
    Grace = 1
    StaleAfter = 1
    Poll = 1
    ApiDownAfter = 1
    MaxRuntime = 2
    StructureOn = FALSE
    SetupOn = FALSE
    Operator = FALSE
    UnitMaxAttempts = 1
    BackoffBase = 1
    BackoffMax = 2
    SyncFaults <- StoreFault
    MaxLost <- TwoLost
    StartTime = 4
    MaxTime = 7
    MaxRestarts = 1
INVARIANTS
    TickCoversUnits
    OkIsPersisted
    MarkIsStored
    HolesAreLostBars
CHECK_DEADLOCK FALSE
