SPECIFICATION Spec
CONSTANTS
    Publishers = {reader}
    Viewers = {v1}
    Free = Free
    SubBuf = 2
    CreateOnSubscribe = TRUE
    MaxFrame = 2
    MaxOffline = 0
PROPERTIES OfflineOnlyWhenSilent
CHECK_DEADLOCK FALSE
