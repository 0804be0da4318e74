CONSTANTS
    Exchange = "INTERNAL"
    BatchSize = 2
    PacketMax = 2
    QueueDepth = 2
    MaxPackets = 2
    Instruments = {i1, i2}
    MarketDepth = 2
    MaxLevels = 3
    MaxSnapshots = 1
SPECIFICATION FairSpec
CHECK_DEADLOCK FALSE
INVARIANTS EventsAreAccounted SnapshotIsWhole
PROPERTIES FeedStops
