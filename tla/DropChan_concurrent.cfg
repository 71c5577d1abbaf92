SPECIFICATION FairSpec
CONSTANTS
    Producers = {p1, p2}
    Cap = 2
    MaxSends = 3
INVARIANTS QueueIsSound SoleProducerExact LossBounds
PROPERTIES SendReturns
CHECK_DEADLOCK FALSE
