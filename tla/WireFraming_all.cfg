SPECIFICATION FairSpec
CONSTANTS
    MaxSize = 2
    MaxMessages = 2
INVARIANTS FramingIsSound
PROPERTIES Delivered
CHECK_DEADLOCK FALSE
