SPECIFICATION Spec
CONSTANTS
    Services = {"detector"}
    DetectEvery = 2
    MinBackoff = 1
    MaxBackoff = 3
    MaxBarren = 2
    Workers = {w1, w2}
    Requests = {r1}
    QueueSize = 2
    MaxFrames = 4
    MaxConnects = 2
INVARIANTS SessionLives
CHECK_DEADLOCK FALSE
