SPECIFICATION Spec
CONSTANTS
    p1 = p1
    p2 = p2
    None = None
    Procs <- MCProcs
    Series <- MCSeries
    Btc = "BTC"
    BtcStep = 2
    Initial <- MCInitial
    Late <- MCLate
    Need <- MCNeed
    Figures <- MCFigures
    Config <- MCConfig
    Requests <- MCRequests
    Versions = {1, 2, 3}
    Formulas <- MCFormulas
    Lookback = 2
    MaxAsks = 2
SYMMETRY Swap
INVARIANTS
    SameInputsSameRegime
    PointInTime
CHECK_DEADLOCK FALSE
