SPECIFICATION PairSpec
CONSTANTS
    EntryOn = "confirmed"
    EnabledTypes = {"breakout"}
    AllowedFits = {"allowed"}
    StopBufferAtr = 1
    FixedRisk = 1680
    RiskPct = 10
    OpenRiskPct = 21
    MaxLeverage = 3
    MaxPositions = 2
    DailyLossPct = 9
    KillPct = 10
    HardPct = 14
    Instruments <- Rules
    Slippage = 1
    TakerFee = 1
    MakerFee = 0
    FundingTimes = {4, 6}
    FundingRate = 1
    TakeProfitR = 1
    MaxHold = 3
    Symbols <- ThreeSymbols
    Bars <- BarsOf
    Replays <- ReplayLists
    Modes <- BothModes
    InitialEquity = 400
    BarsPerDay = 3
    LastBar = 5
INVARIANTS
    StopIsForGood
    BooksBalance
    StatisticsAgree
    FundingIsPaidOnce
    ExitIsConservative
    NoHindsight
    GateReproducesV1
CHECK_DEADLOCK FALSE
