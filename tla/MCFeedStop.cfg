CONSTANTS
    Exchange = "INTERNAL"
    BatchSize = 1
    PacketMax = 1
    QueueDepth = 2
    MaxPackets = 1
    Instruments = {i1}
    MarketDepth = 2
    MaxLevels = 3
    MaxSnapshots = 1
SPECIFICATION FairSpec
CHECK_DEADLOCK FALSE
PROPERTIES StopEndsRun
