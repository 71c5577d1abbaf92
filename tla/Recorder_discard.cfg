SPECIFICATION Spec
CONSTANTS
    MaxTime = 3
    Interval = 1
    Durations = {2, 3}
    Keep = 1
    MaxRuns = 1
    Faults = {"metadata"}
INVARIANTS FailedLeavesNothing
CHECK_DEADLOCK FALSE
