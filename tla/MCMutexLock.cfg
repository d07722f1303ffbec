\* Four tasks lock and unlock under fair scheduling.
SPECIFICATION FairSpec
CONSTANTS
    Tasks = {t1, t2, t3, t4}
    t1 = t1
    t2 = t2
    t3 = t3
    t4 = t4
INVARIANTS FreeIsAnnounced
PROPERTIES IsLock FreeIsAcquired
