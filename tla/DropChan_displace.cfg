SPECIFICATION Spec
CONSTANTS
    Producers = {p1}
    Cap = 2
    MaxSends = 4
PROPERTIES DisplaceOnlyWhenFull
CHECK_DEADLOCK FALSE
