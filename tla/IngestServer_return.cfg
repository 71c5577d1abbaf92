SPECIFICATION FairSSpec
CONSTANTS
    Conns = {c1}
    Cameras = {cam1}
    None = None
    MaxFrames = 1
    MaxFailures = 2
PROPERTIES ReturnsOnceCancelled
CHECK_DEADLOCK FALSE
