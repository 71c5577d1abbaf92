SPECIFICATION BackendSpec
CONSTANTS
    Conns = {c1, c2}
    Cameras = {k1}
    None = none
    MaxFrames = 1
    MaxFailures = 1
    Sessions = {s1}
    CameraIds = {k1}
    NoSession = nosession
    ChanCap = 1
    SockCap = 1
    MaxFanned = 3
    MaxRestarts = 1
INVARIANTS ShownIsSending
CHECK_DEADLOCK FALSE
