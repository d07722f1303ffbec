\* Two tasks share the receiver; senders may be cancelled.
SPECIFICATION Spec
CONSTANTS
    Senders = {s1, s2, s3}
    First = s1
    Receivers = {r1, r2}
    s1 = s1
    s2 = s2
    s3 = s3
    r1 = r1
    r2 = r2
    Bounded = TRUE
    Limit = 2
    Cancelable = {s1, s2, s3}
    MaxSends = 2
    MaxExpired = 2
SYMMETRY Symmetry
INVARIANTS ValuesAnnounced
PROPERTIES Implements
CHECK_DEADLOCK FALSE
