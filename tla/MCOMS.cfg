CONSTANTS
    MaxOrders = 2
    MaxQty = 3
    MaxTotal = 4
    PoolSize = 2
    QueueCap = 1
    MaxDup = 1
SPECIFICATION FairSpec
CHECK_DEADLOCK FALSE
INVARIANTS StatusMatchesQuantity OmsReconciles
PROPERTIES TerminalIsFinal LateReportIsIsolated ExecutedGetsFilled
