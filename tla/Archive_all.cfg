SPECIFICATION AFairSpec
CONSTANTS
    MaxSegments = 3
    KeepFiles = 2
    Limit = 1
    CallSets = {{"List", "Open"}, {"UsageBytes"}}
INVARIANTS AnswersAreSound
PROPERTIES GaugeSettles
