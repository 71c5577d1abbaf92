SPECIFICATION IFairSpec
CONSTANTS
    Sessions = {s1, s2}
    CameraIds = {cam1}
    NoSession = NoSession
    ChanCap = 1
    SockCap = 1
    MaxFanned = 3
    MaxRestarts = 1
INVARIANTS ViewIsSound
PROPERTIES GetsThrough
CHECK_DEADLOCK FALSE
