\* Two block_on calls, whose coroutines sleep, yield, block and notify each other; one is
\* notified by other threads, too.
SPECIFICATION FairSpec
CONSTANTS
    Threads = {t1, t2}
    Holders = {}
    Outside = {t1}
    Peers = {t1, t2}
    Batch = 1
    Spurious = TRUE
    MaxSuspend = 2
INVARIANTS Inv1 NoOrphanedWork WorkIsAttended DeadlineIsAttended
PROPERTIES DrainsToResult Termination
CHECK_DEADLOCK FALSE
