CONSTANTS
    MaxConnects = 1
    MaxOrders = 1
    MaxReports = 1
SPECIFICATION FixSpec
CHECK_DEADLOCK FALSE
INVARIANTS CompleteMessagesAreParsed
