\* One block_on call whose coroutine is notified by another thread.
SPECIFICATION FairSpec
CONSTANTS
    Threads = {t1}
    Holders = {}
    Outside = {t1}
    Peers = {}
    Batch = 2
    Spurious = FALSE
    MaxSuspend = 1
PROPERTIES NotifiedIsResumed
CHECK_DEADLOCK FALSE
