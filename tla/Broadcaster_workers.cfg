SPECIFICATION BSpec
CONSTANTS
    Publishers = {worker1, worker2}
    Subs = {s1}
    Free = Free
    MaxFrame = 3
INVARIANTS CaughtUp
CHECK_DEADLOCK FALSE
