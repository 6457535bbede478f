SPECIFICATION StructureSpec
CONSTANTS
    SwingLeft = 1
    SwingRight = 1
    MinBars = 3
    WindowBars = 8
    ByWick = FALSE
    Tolerance = 1
    AtrFrom = 3
    EqMaxSeparation = 4
    LevelExpiry = 4
    RecentEvents = 2
    RecentSweepBars = 2
    Candles <- AllCandles
    StoredCandles <- Begun
    MaxCandles = 9
    MaxSaves = 2
INVARIANTS
    ActiveIsUntouched
    BreakAndLevelAgree
    BreaksAreTimeless
CHECK_DEADLOCK FALSE
