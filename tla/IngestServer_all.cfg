SPECIFICATION FairSSpec
CONSTANTS
    Conns = {c1, c2}
    Cameras = {cam1, cam2}
    None = None
    MaxFrames = 1
    MaxFailures = 2
INVARIANTS ServerIsSound OfflineClosesEveryCamera
PROPERTIES EndsForGood
CHECK_DEADLOCK FALSE
