SPECIFICATION ASpec
CONSTANTS
    MaxSegments = 3
    KeepFiles = 1
    Limit = 0
    CallSets = {{"UsageBytes"}}
INVARIANTS GaugeCountsPresent
