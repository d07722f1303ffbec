\* A Timeout of one task.
SPECIFICATION Spec
CONSTANTS
    Children = {c1}
    First = c1
    c1 = c1
    Kinds = {"timeout"}
    MaxSuspend = 1
INVARIANTS StackAlive
CHECK_DEADLOCK FALSE
