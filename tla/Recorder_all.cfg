SPECIFICATION FairSpec
CONSTANTS
    MaxTime = 3
    Interval = 1
    Durations = {2, 3}
    Keep = 1
    MaxRuns = 2
    Faults = {"begin", "start", "write", "encoder", "writer", "rename", "metadata", "unlink",
              "link", "list", "remove", "discard"}
INVARIANTS ArchiveIsSound EncoderMatchesSegment NoStrandedTmp
PROPERTIES PruneBounds ImplementsSegmentLife Stops
CHECK_DEADLOCK FALSE
