\* Everybody may abort; the task is suspended up to four times.
SPECIFICATION FairSpec
CONSTANTS
    Aborters = {"owner", "task", "other"}
    MaxSuspend = 4
INVARIANTS OwnerResumedOnce OutcomeReady AbortDecides
PROPERTIES OwnerResumed DetachedRuns Destroyed
CHECK_DEADLOCK FALSE
