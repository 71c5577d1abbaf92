SPECIFICATION FairSpec
CONSTANTS
    Services = {"direct", "detector", "pool"}
    DetectEvery = 2
    MinBackoff = 1
    MaxBackoff = 3
    MaxBarren = 2
    Workers = {w1, w2}
    Requests = {r1}
    QueueSize = 2
    MaxFrames = 3
    MaxConnects = 2
INVARIANTS NoSendOnClosed PoolIsSound ReaderIsSound
PROPERTIES CancelledExits
CHECK_DEADLOCK FALSE
