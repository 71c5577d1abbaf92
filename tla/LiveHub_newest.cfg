SPECIFICATION Spec
CONSTANTS
    Publishers = {reader}
    Viewers = {v1}
    Free = Free
    SubBuf = 2
    CreateOnSubscribe = TRUE
    MaxFrame = 4
    MaxOffline = 0
INVARIANTS ViewersHoldLatest
CHECK_DEADLOCK FALSE
