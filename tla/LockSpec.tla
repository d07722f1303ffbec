------------------------------ MODULE LockSpec ------------------------------
(***************************************************************************)
(* What alonite::Mutex promises: a lock with one owner at most.  A task    *)
(* requests it, owns it and releases it.  Nothing is promised about the    *)
(* order in which the requests are served.                                 *)
(***************************************************************************)
CONSTANT Tasks

VARIABLES owners, requests

vars == <<owners, requests>>

Init == owners = {} /\ requests = {}

Request(t) ==
    /\ t \notin owners \cup requests
    /\ requests' = requests \cup {t}
    /\ UNCHANGED owners

Acquire(t) ==
    /\ t \in requests /\ owners = {}
    /\ owners' = {t}
    /\ requests' = requests \ {t}

Release(t) ==
    /\ t \in owners
    /\ owners' = owners \ {t}
    /\ UNCHANGED requests

Next == \E t \in Tasks : Request(t) \/ Acquire(t) \/ Release(t)

Spec == Init /\ [][Next]_vars

\* A free lock that is requested is acquired.
Progress == WF_vars(\E t \in Tasks : Acquire(t))
=============================================================================
