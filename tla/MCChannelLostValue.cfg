\* One task receives, again and again, under a Timeout.
SPECIFICATION FairSpec
CONSTANTS
    Senders = {s1}
    First = s1
    Receivers = {r1}
    s1 = s1
    r1 = r1
    Bounded = TRUE
    Limit = 1
    Cancelable = {r1}
    MaxSends = 1
    MaxExpired = 2
PROPERTIES Delivers
CHECK_DEADLOCK FALSE
