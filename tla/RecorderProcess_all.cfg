SPECIFICATION FairSpec
CONSTANTS
    Cameras = {c1, c2}
    Watched = c1
    QueueSize = 1
    MaxFrames = 3
    HttpFails = TRUE
    InPipe = 1
    OutPipe = 1
    Lookahead = 1
    OutFails = TRUE
    Crashes = TRUE
INVARIANTS CamerasAreClosed ReturnIsTrusted
PROPERTIES WaitsEnd
CHECK_DEADLOCK FALSE
