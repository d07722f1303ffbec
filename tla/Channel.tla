------------------------------ MODULE Channel -------------------------------
(***************************************************************************)
(* mpsc::channel and mpsc::unbound_channel of include/alonite/mpsc.h: the  *)
(* shared state (UnboundState and State) with its mutex, its queue and the *)
(* two condition variables, the Sender handles and the Receiver, which     *)
(* several tasks may share.                                                *)
(*                                                                         *)
(* Every critical section of the shared state is one step: a task that     *)
(* finds nothing to do enqueues itself in a condition variable before the  *)
(* mutex is released.  The notifications come after the mutex has been     *)
(* released and are steps of their own.  A task that has been notified is  *)
(* "woken" until it has been resumed, by the notifier itself when both run *)
(* on one executor, and has locked the mutex.                              *)
(***************************************************************************)
EXTENDS Continuations, FiniteSets

CONSTANTS
    Senders,     \* Sender handles; a task that uses one has the handle's name
    First,       \* the handle that channel() returns
    Receivers,   \* tasks that share the Receiver
    Bounded,     \* State (channel) or UnboundState (unbound_channel)
    Limit,       \* limit of a bounded channel
    Cancelable,  \* tasks that Timeout, WhenAny or abort() may destroy
    MaxSends,    \* bound: how many values one sender sends
    MaxExpired   \* bound: expired references that are enqueued at a time

ASSUME ChannelAssumption ==
    /\ IsFiniteSet(Senders) /\ IsFiniteSet(Receivers)
    /\ Senders \cap Receivers = {}
    /\ First \in Senders
    /\ Expired \notin Senders \cup Receivers
    /\ Bounded \in BOOLEAN
    /\ Limit \in Nat \ {0}
    /\ Cancelable \subseteq Senders \cup Receivers
    /\ MaxSends \in Nat /\ MaxExpired \in Nat

VARIABLES
    pc,           \* [Tasks -> Location]: where each task is in its operation
    rx,           \* the Receiver: "open", "closing" (dec_receiver) or "gone"
    queue,        \* Seq(Senders): the values; a value is named by its sender
    closed,       \* closed
    senderCount,  \* sender_count
    consumers,    \* continuations of consumer_cv
    producers,    \* continuations of producer_cv
    sends         \* [Senders -> Nat]: the sends a sender has started

vars == <<pc, rx, queue, closed, senderCount, consumers, producers, sends>>

Tasks    == Senders \cup Receivers
\* "notify": the mutex released, the notification still to come.
\* "closing": the same for the last sender, in its destructor.
Location == {"absent", "idle", "running", "waiting", "woken", "notify", "closing", "gone"}

Init ==
    /\ pc = [x \in Tasks |-> IF x \in Senders \ {First} THEN "absent" ELSE "idle"]
    /\ rx = "open"
    /\ queue = <<>> /\ closed = FALSE /\ senderCount = 1
    /\ consumers = <<>> /\ producers = <<>>
    /\ sends = [s \in Senders |-> 0]

Goes(x, l) == pc' = [pc EXCEPT ![x] = l]

Wake(X, x, l) ==
    pc' = [y \in Tasks |-> IF y \in X THEN "woken" ELSE IF y = x THEN l ELSE pc[y]]

HasLock(x) == pc[x] \in {"running", "woken"}

-----------------------------------------------------------------------------
(***************************************************************************)
(* Sender                                                                  *)
(***************************************************************************)

\* Mutant: the copy is not counted.
Clone_Uncounted(s, u) ==
    /\ pc[s] = "idle" /\ pc[u] = "absent"
    /\ Goes(u, "idle")
    /\ UNCHANGED <<rx, queue, closed, senderCount, consumers, producers, sends>>

\* Sender(Sender const&), hence inc_sender().
Clone(s, u) ==
    /\ pc[s] = "idle" /\ pc[u] = "absent"
    /\ senderCount' = senderCount + 1
    /\ Goes(u, "idle")
    /\ UNCHANGED <<rx, queue, closed, consumers, producers, sends>>

Send(s) ==
    /\ pc[s] = "idle" /\ sends[s] < MaxSends
    /\ sends' = [sends EXCEPT ![s] = @ + 1]
    /\ Goes(s, "running")
    /\ UNCHANGED <<rx, queue, closed, senderCount, consumers, producers>>

\* Mutant: one value too many.
HasRoom_OffByOne == ~Bounded \/ Len(queue) <= Limit

HasRoom == ~Bounded \/ Len(queue) < Limit

\* push(): throw ClosedError, ...
PushClosed(s) ==
    /\ HasLock(s) /\ closed
    /\ Goes(s, "idle")
    /\ UNCHANGED <<rx, queue, closed, senderCount, consumers, producers, sends>>

\* Mutant: the notification is left out when the queue was not empty.
Push_NotifyIfEmpty(s) ==
    /\ HasLock(s) /\ ~closed /\ HasRoom
    /\ queue' = Append(queue, s)
    /\ Goes(s, IF queue = <<>> THEN "notify" ELSE "idle")
    /\ UNCHANGED <<rx, closed, senderCount, consumers, producers, sends>>

\* ... or push_back, ...
Push(s) ==
    /\ HasLock(s) /\ ~closed /\ HasRoom
    /\ queue' = Append(queue, s)
    /\ Goes(s, "notify")
    /\ UNCHANGED <<rx, closed, senderCount, consumers, producers, sends>>

\* ... or co_await producer_cv.wait(lock).
PushWait(s) ==
    /\ HasLock(s) /\ ~closed /\ ~HasRoom
    /\ producers' = Enqueue(producers, s)
    /\ Goes(s, "waiting")
    /\ UNCHANGED <<rx, queue, closed, senderCount, consumers, sends>>

\* try_push(), where it does anything: the other outcomes, false and ClosedError,
\* change nothing.
TrySend(s) ==
    /\ Bounded
    /\ pc[s] = "idle" /\ sends[s] < MaxSends /\ ~closed /\ HasRoom
    /\ sends' = [sends EXCEPT ![s] = @ + 1]
    /\ queue' = Append(queue, s)
    /\ Goes(s, "notify")
    /\ UNCHANGED <<rx, closed, senderCount, consumers, producers>>

\* Mutant: the last sender does not notify.
DropSender_Silent(s) ==
    /\ pc[s] = "idle"
    /\ senderCount' = senderCount - 1
    /\ closed' = (closed \/ senderCount = 1)
    /\ Goes(s, "gone")
    /\ UNCHANGED <<rx, queue, consumers, producers, sends>>

\* ~Sender(), hence dec_sender().
DropSender(s) ==
    /\ pc[s] = "idle"
    /\ senderCount' = senderCount - 1
    /\ closed' = (closed \/ senderCount = 1)
    /\ Goes(s, IF senderCount = 1 THEN "closing" ELSE "gone")
    /\ UNCHANGED <<rx, queue, consumers, producers, sends>>

\* consumer_cv.notify_one(), after a value has been pushed or the last sender has
\* closed the channel.
NotifyConsumer(s) ==
    /\ pc[s] \in {"notify", "closing"}
    /\ consumers' = PopFront(consumers)
    /\ Wake(NotifiedOne(consumers), s, IF pc[s] = "closing" THEN "gone" ELSE "idle")
    /\ UNCHANGED <<rx, queue, closed, senderCount, producers, sends>>

-----------------------------------------------------------------------------
(***************************************************************************)
(* Receiver                                                                *)
(***************************************************************************)

Receive(r) ==
    /\ pc[r] = "idle" /\ rx = "open"
    /\ Goes(r, "running")
    /\ UNCHANGED <<rx, queue, closed, senderCount, consumers, producers, sends>>

\* Mutant: a producer is notified only when the queue was full.
Pop_NotifyIfFull(r) ==
    /\ HasLock(r) /\ queue # <<>>
    /\ queue' = Tail(queue)
    /\ Goes(r, IF Bounded /\ Len(queue) = Limit THEN "notify" ELSE "idle")
    /\ UNCHANGED <<rx, closed, senderCount, consumers, producers, sends>>

\* pop(): the first value, ...
Pop(r) ==
    /\ HasLock(r) /\ queue # <<>>
    /\ queue' = Tail(queue)
    /\ Goes(r, IF Bounded THEN "notify" ELSE "idle")
    /\ UNCHANGED <<rx, closed, senderCount, consumers, producers, sends>>

\* Mutant: closed is looked at before the queue.
PopClosed_First(r) ==
    /\ HasLock(r) /\ closed
    /\ Goes(r, "idle")
    /\ UNCHANGED <<rx, queue, closed, senderCount, consumers, producers, sends>>

\* ... or nullopt, ...
PopClosed(r) ==
    /\ HasLock(r) /\ queue = <<>> /\ closed
    /\ Goes(r, "idle")
    /\ UNCHANGED <<rx, queue, closed, senderCount, consumers, producers, sends>>

\* ... or co_await consumer_cv.wait(lock).
PopWait(r) ==
    /\ HasLock(r) /\ queue = <<>> /\ ~closed
    /\ consumers' = Enqueue(consumers, r)
    /\ Goes(r, "waiting")
    /\ UNCHANGED <<rx, queue, closed, senderCount, producers, sends>>

\* State::pop notifies one producer of the room it has made.
NotifyProducer(r) ==
    /\ pc[r] = "notify"
    /\ producers' = PopFront(producers)
    /\ Wake(NotifiedOne(producers), r, "idle")
    /\ UNCHANGED <<rx, queue, closed, senderCount, consumers, sends>>

\* ~Receiver(), hence dec_receiver(): nobody uses the Receiver any more.
DropReceiver ==
    /\ rx = "open" /\ \A r \in Receivers : pc[r] = "idle"
    /\ closed' = TRUE
    /\ rx' = IF Bounded THEN "closing" ELSE "gone"
    /\ UNCHANGED <<pc, queue, senderCount, consumers, producers, sends>>

\* Mutant: notify_one() in the place of notify_all().
NotifyAllProducers_One ==
    /\ rx = "closing"
    /\ rx' = "gone"
    /\ producers' = PopFront(producers)
    /\ pc' = [x \in Tasks |-> IF x \in NotifiedOne(producers) THEN "woken" ELSE pc[x]]
    /\ UNCHANGED <<queue, closed, senderCount, consumers, sends>>

\* State::dec_receiver notifies all producers.
NotifyAllProducers ==
    /\ rx = "closing"
    /\ rx' = "gone"
    /\ producers' = <<>>
    /\ pc' = [x \in Tasks |-> IF x \in NotifiedAll(producers) THEN "woken" ELSE pc[x]]
    /\ UNCHANGED <<queue, closed, senderCount, consumers, sends>>

-----------------------------------------------------------------------------
NumExpired == Cardinality({i \in DOMAIN (consumers \o producers) :
                              (consumers \o producers)[i] = Expired})

\* The last strong reference to a task that waits is dropped: its operation is
\* destroyed and its weak reference expires where it is.  A woken task is kept
\* alive by the notifier, or by the Work that the notifier has scheduled.  Only
\* notifications remove expired references: the code sets no bound to them.
Cancel(x) ==
    /\ x \in Cancelable /\ pc[x] = "waiting" /\ NumExpired < MaxExpired
    /\ Goes(x, "idle")
    /\ consumers' = Expire(consumers, x)
    /\ producers' = Expire(producers, x)
    /\ UNCHANGED <<rx, queue, closed, senderCount, sends>>

SenderStep(s) == PushClosed(s) \/ Push(s) \/ PushWait(s) \/ NotifyConsumer(s)

ReceiverStep(r) == Pop(r) \/ PopClosed(r) \/ PopWait(r) \/ NotifyProducer(r)

Next ==
    \/ \E s \in Senders : Send(s) \/ TrySend(s) \/ DropSender(s) \/ SenderStep(s)
    \/ \E s, u \in Senders : Clone(s, u)
    \/ \E r \in Receivers : Receive(r) \/ ReceiverStep(r)
    \/ \E x \in Cancelable : Cancel(x)
    \/ DropReceiver \/ NotifyAllProducers

Spec == Init /\ [][Next]_vars

\* A task that runs or has been woken goes on.  Nobody has to start an operation,
\* drop a handle or cancel a task.
Fairness ==
    /\ \A s \in Senders : WF_vars(SenderStep(s))
    /\ \A r \in Receivers : WF_vars(ReceiverStep(r))
    /\ WF_vars(NotifyAllProducers)

FairSpec == Spec /\ Fairness

-----------------------------------------------------------------------------
At(X, L)       == {x \in X : pc[x] \in L}
NotifyingS     == At(Senders, {"notify"})
NotifyingR     == At(Receivers, {"notify"})
WokenS         == At(Senders, {"woken"})
WokenR         == At(Receivers, {"woken"})
WaitingS       == At(Senders, {"waiting"})
WaitingR       == At(Receivers, {"waiting"})
Handles        == Senders \ At(Senders, {"absent", "closing", "gone"})

\* The variables have their types; a bounded queue never holds more than Limit
\* values (State::push and try_push compare the size under the mutex).
TypeOK ==
    /\ pc \in [Tasks -> Location]
    /\ rx \in {"open", "closing", "gone"}
    /\ queue \in Seq(Senders) /\ (Bounded => Len(queue) <= Limit)
    /\ closed \in BOOLEAN /\ senderCount \in Nat
    /\ consumers \in Seq(Receivers \cup {Expired})
    /\ producers \in Seq(Senders \cup {Expired})
    /\ sends \in [Senders -> Nat]

\* A task waits exactly when it is in the continuations of its condition variable,
\* and it is there once: no notification resumes a task that is running, and no
\* waiting task is unknown to the notifiers.
WaitersEnqueued == Lists(consumers, WaitingR) /\ Lists(producers, WaitingS)

\* No value is left to itself: while a receiver waits, every value in the queue has
\* a notification under way (the pusher has yet to call notify_one()) or a receiver
\* that has been woken to take it.  (As long as no receiver is cancelled.)
ValuesAnnounced ==
    WaitingR # {} => Len(queue) <= Cardinality(NotifyingS) + Cardinality(WokenR)

\* No room is left to itself: while a sender waits and the receiver exists, every
\* free place has a notification under way or a sender that has been woken.  (As
\* long as no sender is cancelled.)
RoomAnnounced ==
    WaitingS # {} /\ ~closed
        => Limit - Len(queue) <= Cardinality(NotifyingR) + Cardinality(WokenS)

\* Nobody waits on a closed channel that has nothing more to notify: dec_sender() for
\* the one task on the receiver, dec_receiver() for the senders.
ClosureAnnounced ==
    closed => /\ WaitingR # {} => At(Senders, {"closing"}) # {}
              /\ WaitingS # {} => rx = "closing"

\* closed is exactly "no sender handle or no receiver", and sender_count is the
\* number of handles: is_closed() on either end answers for the other end.
CountsHandles ==
    /\ senderCount = Cardinality(Handles)
    /\ closed <=> (Handles = {} \/ rx # "open")

-----------------------------------------------------------------------------
\* The channel as its users see it: the notifications, the condition variables and
\* the count are gone.
Abs == INSTANCE ChannelSpec WITH
    buffer  <- queue,
    senders <- Handles,
    open    <- (rx = "open"),
    pending <- At(Tasks, {"running", "waiting", "woken"})

\* Every step of the channel is a step that ChannelSpec allows, or none: values are
\* received once, in the order in which they were pushed; recv() gives up only
\* when there is neither a value nor a sender, send() only when there is no receiver.
Implements == Abs!Spec

\* "The next value" is received by one of the tasks that share the receiver, and
\* room is taken by one of the senders that wait for it.
Delivers == Abs!Delivery

\* Everybody who waits learns of the closure.
Closes == Abs!Closure
=============================================================================
