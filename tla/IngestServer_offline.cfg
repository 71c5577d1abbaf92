SPECIFICATION SSpec
CONSTANTS
    Conns = {c1, c2}
    Cameras = {cam1}
    None = None
    MaxFrames = 1
    MaxFailures = 2
INVARIANTS OfflineMeansStopped
CHECK_DEADLOCK FALSE
