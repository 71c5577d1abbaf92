SPECIFICATION FSpec
CONSTANTS
    Cameras = {c1}
    Camera = c1
    Modes = {TRUE}
    Pictures = {p1, p2}
    Broken = broken
    None = none
    MaxEvents = 5
    MaxExits = 2
PROPERTIES NoStaleDataEver
CHECK_DEADLOCK FALSE
