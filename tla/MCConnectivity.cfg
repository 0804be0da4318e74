CONSTANTS
    MinBackoff = 2
    MaxBackoff = 7
    MaxCount = 4
    MaxStarts = 3
    MaxConnects = 2
    MaxOrders = 1
    MaxReports = 1
    HeaderLen = 2
    BufferLen = 4
    AckLen = 1
    FillLen = 2
    MaxBody = 3
    MaxLinks = 2
    MaxMessages = 2
SPECIFICATION ConnectivitySpec
CHECK_DEADLOCK FALSE
INVARIANTS StoppedIsDisconnected NoDescriptorLeak WireInSequence
           LiveSessionIsActive ReportsAreDelivered
PROPERTIES CallsReturn LinkIsReported
