SPECIFICATION FFairSpec
CONSTANTS
    Cameras = {c1, c2}
    Camera = c1
    Modes = {TRUE, FALSE}
    Pictures = {p1, p2}
    Broken = broken
    None = none
    MaxEvents = 3
    MaxExits = 1
INVARIANTS FeedIsSound
PROPERTIES StreamIsKeptUp NoStaleData
CHECK_DEADLOCK FALSE
