SPECIFICATION FairSpec
CONSTANTS
    Publishers = {worker1, worker2}
    Viewers = {v1, v2}
    Free = Free
    SubBuf = 1
    CreateOnSubscribe = TRUE
    MaxFrame = 2
    MaxOffline = 1
INVARIANTS HubIsSound NoSendOnClosed
PROPERTIES Progress
CHECK_DEADLOCK FALSE
