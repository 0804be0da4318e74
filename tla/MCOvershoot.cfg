CONSTANTS
    Totals = {1}
    SliceCounts = {3}
    Weights = {0, 1}
    JitterNum = 1
    JitterDen = 2
    RateNum = 2
    RateDen = 3
    Trades = {1}
    MaxVolume = 2
    MaxStarts = 1
SPECIFICATION AlgosSpec
CHECK_DEADLOCK FALSE
INVARIANTS NeverOvershoots
