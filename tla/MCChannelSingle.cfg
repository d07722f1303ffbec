\* One task on the receiver, nobody is cancelled, fair scheduling.
SPECIFICATION FairSpec
CONSTANTS
    Senders = {s1, s2, s3}
    First = s1
    Receivers = {r1}
    s1 = s1
    s2 = s2
    s3 = s3
    r1 = r1
    Bounded = TRUE
    Limit = 2
    Cancelable = {}
    MaxSends = 2
    MaxExpired = 0
INVARIANTS RoomAnnounced ClosureAnnounced
PROPERTIES Delivers Closes
CHECK_DEADLOCK FALSE
