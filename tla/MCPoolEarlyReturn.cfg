\* Two block_on calls; one starts while the other ends.
SPECIFICATION Spec
CONSTANTS
    Threads = {t1, t2}
    Holders = {}
    Outside = {}
    Peers = {t1, t2}
    Batch = 2
    Spurious = FALSE
    MaxSuspend = 1
INVARIANTS ResultReady
CHECK_DEADLOCK FALSE
