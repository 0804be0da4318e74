CONSTANTS
    MaxQty = 2
    Prices = {2, 5}
    MaxFills = 4
    Ticks = {2, 3, 5}
    MaxOrderQty = 3
    Slippage = 1
    FillRatios <- MCFillRatios
    MaxOrders = 2
    MaxQuotes = 3
    QuotesPerDay = 1
SPECIFICATION BacktestSpec
CHECK_DEADLOCK FALSE
INVARIANTS BooksBalance AverageIsNotOlder BacktestReconciles
