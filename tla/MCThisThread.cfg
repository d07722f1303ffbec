\* A root and two other coroutines; other threads push while this one sleeps.
SPECIFICATION FairSpec
CONSTANTS
    Root = root
    Children = {c1, c2}
    root = root
    c1 = c1
    c2 = c2
    Foreign = {c1}
    Racing = FALSE
    Durations = {1, 3}
    Slumber = 2
    MaxSuspend = 4
INVARIANTS TypeOK ResultReady GoesOnOnce OnTime PrunesCanceled
PROPERTIES Termination
CHECK_DEADLOCK FALSE
