---------------------------- MODULE ChannelSpec -----------------------------
(***************************************************************************)
(* What a channel of include/alonite/mpsc.h promises, with no condition    *)
(* variables, notifications or counters: a buffer of at most Limit values  *)
(* between cloneable senders and the tasks that share one receiver.  An    *)
(* operation is requested and then either takes effect or is refused       *)
(* because the channel has closed.                                         *)
(***************************************************************************)
EXTENDS Integers, Sequences

CONSTANTS
    Senders,     \* sender handles, and the tasks that use them
    First,       \* the sender that channel() returns
    Receivers,   \* the tasks that share the receiver
    Bounded,     \* channel(Limit), or unbound_channel()
    Limit,       \* capacity of a bounded channel
    Cancelable   \* tasks that may be cancelled in the middle of an operation

VARIABLES
    buffer,      \* the values sent and not yet received; a value is its sender
    senders,     \* the handles that exist
    open,        \* whether the receiver exists
    pending      \* the tasks that have an operation under way

vars == <<buffer, senders, open, pending>>

HasRoom == ~Bounded \/ Len(buffer) < Limit

Init ==
    /\ buffer = <<>> /\ senders = {First} /\ open = TRUE /\ pending = {}

Clone(s) ==
    /\ s \notin senders /\ senders # {}
    /\ senders' = senders \cup {s}
    /\ UNCHANGED <<buffer, open, pending>>

DropSender(s) ==
    /\ s \in senders \ pending
    /\ senders' = senders \ {s}
    /\ UNCHANGED <<buffer, open, pending>>

DropReceiver ==
    /\ open /\ pending \cap Receivers = {}
    /\ open' = FALSE
    /\ UNCHANGED <<buffer, senders, pending>>

Request(x) ==
    /\ x \in (senders \cup (IF open THEN Receivers ELSE {})) \ pending
    /\ pending' = pending \cup {x}
    /\ UNCHANGED <<buffer, senders, open>>

CompleteSend(s) ==
    /\ s \in Senders \cap pending /\ open /\ HasRoom
    /\ buffer' = Append(buffer, s)
    /\ pending' = pending \ {s}
    /\ UNCHANGED <<senders, open>>

\* try_send either takes effect at once or has none.
TrySend(s) ==
    /\ s \in senders \ pending /\ open /\ HasRoom
    /\ buffer' = Append(buffer, s)
    /\ UNCHANGED <<senders, open, pending>>

RefuseSend(s) ==
    /\ s \in Senders \cap pending /\ ~open
    /\ pending' = pending \ {s}
    /\ UNCHANGED <<buffer, senders, open>>

CompleteRecv(r) ==
    /\ r \in Receivers \cap pending /\ buffer # <<>>
    /\ buffer' = Tail(buffer)
    /\ pending' = pending \ {r}
    /\ UNCHANGED <<senders, open>>

\* recv() returns no value only when there is none and there will be none.
RefuseRecv(r) ==
    /\ r \in Receivers \cap pending /\ buffer = <<>> /\ senders = {}
    /\ pending' = pending \ {r}
    /\ UNCHANGED <<buffer, senders, open>>

Abandon(x) ==
    /\ x \in Cancelable \cap pending
    /\ pending' = pending \ {x}
    /\ UNCHANGED <<buffer, senders, open>>

Next ==
    \/ \E s \in Senders : \/ Clone(s) \/ DropSender(s)
                          \/ CompleteSend(s) \/ TrySend(s) \/ RefuseSend(s)
    \/ \E r \in Receivers : CompleteRecv(r) \/ RefuseRecv(r)
    \/ \E x \in Senders \cup Receivers : Request(x) \/ Abandon(x)
    \/ DropReceiver

Spec == Init /\ [][Next]_vars

\* While a value and a receiver are there, some receiver takes a value; while
\* there is room and a sender, some sender puts one.
Delivery ==
    /\ WF_vars(\E r \in Receivers : CompleteRecv(r))
    /\ WF_vars(\E s \in Senders : CompleteSend(s))

\* Everybody who is waiting learns that the channel has closed.
Closure ==
    /\ \A r \in Receivers : WF_vars(RefuseRecv(r))
    /\ \A s \in Senders : WF_vars(RefuseSend(s))

FairSpec == Spec /\ Delivery /\ Closure
=============================================================================
