SPECIFICATION FairSpec
CONSTANTS
    Producers = {p1}
    Cap = 2
    MaxSends = 6
INVARIANTS SoleProducerExact
PROPERTIES ImplementsKeepNewest
CHECK_DEADLOCK FALSE
