SPECIFICATION FairSpec
CONSTANTS
    Services = {"direct", "detector", "pool"}
    DetectEvery = 2
    MinBackoff = 1
    MaxBackoff = 3
    MaxBarren = 2
    Workers = {w1}
    Requests = {r1}
    QueueSize = 1
    MaxFrames = 1
    MaxConnects = 1
PROPERTIES FailureExits
CHECK_DEADLOCK FALSE
