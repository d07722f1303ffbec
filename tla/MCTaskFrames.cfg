\* Two executors with two threads each; up to three coroutines on the stack.
SPECIFICATION FairSpec
CONSTANTS
    Executors = {home, pool}
    Home = home
    home = home
    pool = pool
    PerExecutor = 2
    Cancelable = TRUE
    MaxDepth = 3
    MaxSteps = 7
INVARIANTS OneResumer UnitsCounted NotAbandoned ResultPassed
PROPERTIES Implements Returns
CHECK_DEADLOCK FALSE
