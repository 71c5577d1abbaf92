SPECIFICATION FairSpec
CONSTANTS
    Publishers = {reader}
    Subs = {c1, c2}
    Free = Free
    MaxFrame = 2
    Limits = {0, 1}
INVARIANTS ClientsBounded NoSendOnClosed SubscribersServed
PROPERTIES ShutDown ReaderServed
CHECK_DEADLOCK FALSE
