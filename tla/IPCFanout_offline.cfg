SPECIFICATION IFairSpec
CONSTANTS
    Sessions = {s1}
    CameraIds = {cam1}
    NoSession = NoSession
    ChanCap = 1
    SockCap = 1
    MaxFanned = 4
    MaxRestarts = 1
PROPERTIES OfflineReachesConsumer
CHECK_DEADLOCK FALSE
