CONSTANTS
    Threads = {t1, t2}
    OpenThreshold <- MCOpenThreshold
    Deltas <- MCDeltas
    PnlBound = 6
    MaxResets = 2
    Callers = {c1, c2}
    Burst = 2
    Scale = 2
    RateScaled = 2
    NsPerSec = 3
    IntMax = 11
    MaxTime = 8
    Reservers = {r1, r2}
    MaxNetQty = 2
    MaxNotional = 6
    MaxQty = 2
    Prices = {0, 3, 4}
    MaxOrders = 4
SPECIFICATION RiskSpec
CHECK_DEADLOCK FALSE
INVARIANTS BreachBlocksOrders RateIsKept
           WithinLimits NetIsSumOfReservations
PROPERTIES BreachIsNotMissed
