\* All three combinators, with a parent that somebody holds and one that nobody does.
SPECIFICATION FairSpec
CONSTANTS
    Children = {c1, c2, c3}
    First = c1
    c1 = c1
    c2 = c2
    c3 = c3
    Kinds = {"timeout", "all", "any"}
    MaxSuspend = 2
INVARIANTS TypeOK OnlyFirstDies ResumedOnce OutcomeReady WaitsForChildren
PROPERTIES Continues CleansUp
CHECK_DEADLOCK FALSE
