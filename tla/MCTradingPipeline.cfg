CONSTANTS
    MaxReq = 4
    Signed <- MCSigned
    QueueCap = 1
    CloidCap = 1
    TrackCap = 1
    PoolSize = 2
    MaxNetQty = 2
SPECIFICATION FairSpec
CHECK_DEADLOCK FALSE
INVARIANTS FillsAreBookedRight OrderAliveWhileInUse
PROPERTIES EverySentOrderIsBooked WorkersExit
