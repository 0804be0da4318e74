CONSTANTS
    OrderQty = 2
    MaxInventory = 2
    FastPeriod = 1
    SlowPeriod = 3
    SignalBand = 1
    MaxAdverse = 2
    Mids = {4, 8, 12}
    Unit = 32
    QueueCap = 3
    SideCap = 3
    CancelCap = 2
    MaxTicks <- MCMaxTicks
    MaxFlight = 2
    Totals = {1, 2, 5}
    SliceCounts = {3}
    Weights = {0, 1, 3}
    JitterNum = 1
    JitterDen = 2
    RateNum = 2
    RateDen = 3
    Trades = {1, 2, 4}
    MaxVolume = 10
    MaxStarts = 1
SPECIFICATION TradingSpec
CHECK_DEADLOCK FALSE
INVARIANTS StrategiesKeepTrack ParentQuantityIsExact PovTracksMarket
PROPERTIES MomentumHoldsOneDirection ScheduleCompletes
