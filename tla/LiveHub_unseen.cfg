SPECIFICATION Spec
CONSTANTS
    Publishers = {reader}
    Viewers = {v1}
    Free = Free
    SubBuf = 2
    CreateOnSubscribe = TRUE
    MaxFrame = 2
    MaxOffline = 0
INVARIANTS OnlySeenAreListed
CHECK_DEADLOCK FALSE
