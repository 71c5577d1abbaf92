SPECIFICATION Spec
CONSTANTS
    Services = {"pool"}
    DetectEvery = 2
    MinBackoff = 1
    MaxBackoff = 3
    MaxBarren = 2
    Workers = {w1}
    Requests = {r1}
    QueueSize = 1
    MaxFrames = 3
    MaxConnects = 1
INVARIANTS EveryFramePushed
CHECK_DEADLOCK FALSE
