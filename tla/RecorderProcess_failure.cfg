SPECIFICATION Spec
CONSTANTS
    Cameras = {c1, c2}
    Watched = c1
    QueueSize = 1
    MaxFrames = 2
    HttpFails = TRUE
    InPipe = 1
    OutPipe = 1
    Lookahead = 1
    OutFails = FALSE
    Crashes = FALSE
INVARIANTS NothingLeftOpenEver
CHECK_DEADLOCK FALSE
