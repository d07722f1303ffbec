--------------------------- MODULE ChannelProofs ----------------------------
(***************************************************************************)
(* Proofs about Channel, for every set of senders and receivers, bounded   *)
(* or not, for every limit, and whoever may be cancelled.                  *)
(***************************************************************************)
EXTENDS Channel, ContinuationsProofs, FiniteSetTheorems

\* Nobody uses the receiver once it has been dropped.
ReceiverInUse == \A r \in Receivers : pc[r] # "idle" => rx = "open"

IInv == TypeOK /\ WaitersEnqueued /\ CountsHandles /\ ReceiverInUse

NoHandle == {"absent", "closing", "gone"}

-----------------------------------------------------------------------------
(***************************************************************************)
(* How the sets of tasks change with pc                                    *)
(***************************************************************************)

\* One task goes to l.
LEMMA AtMoves ==
    ASSUME pc \in [Tasks -> Location], NEW x \in Tasks, NEW l \in Location, Goes(x, l)
    PROVE  /\ pc' \in [Tasks -> Location]
           /\ \A y \in Tasks : pc'[y] = IF y = x THEN l ELSE pc[y]
BY DEF Goes

\* A set of tasks that x has been in, and has not left, or has not been in, and has
\* not entered, is the same.
LEMMA AtSame ==
    ASSUME NEW X, X \subseteq Tasks, NEW L, NEW x \in Tasks, NEW l,
           \A y \in Tasks : pc'[y] = IF y = x THEN l ELSE pc[y],
           x \in X => (pc[x] \in L <=> l \in L)
    PROVE  At(X, L)' = At(X, L)
BY DEF At

\* A finite set with one more element.
LEMMA OneMore ==
    ASSUME NEW S, IsFiniteSet(S), NEW x, x \notin S
    PROVE  /\ IsFiniteSet(S \cup {x}) /\ Cardinality(S) \in Nat
           /\ Cardinality(S \cup {x}) = Cardinality(S) + 1
BY FS_AddElement, FS_CardinalityType

\* A finite set with one element less.
LEMMA OneLess ==
    ASSUME NEW S, IsFiniteSet(S), NEW x \in S
    PROVE  /\ IsFiniteSet(S \ {x}) /\ Cardinality(S) \in Nat
           /\ Cardinality(S \ {x}) = Cardinality(S) - 1
BY FS_RemoveElement, FS_CardinalityType

\* Removing a task from a finite set makes it smaller by at most one.
LEMMA AtMostOneLess ==
    ASSUME NEW S, IsFiniteSet(S), NEW x
    PROVE  Cardinality(S \ {x}) \in Nat /\ Cardinality(S \ {x}) >= Cardinality(S) - 1
<1>1. CASE x \in S
    BY <1>1, OneLess, FS_CardinalityType
<1>2. CASE x \notin S
    <2>1. Cardinality(S \ {x}) = Cardinality(S) /\ Cardinality(S) \in Nat
        BY <1>2, FS_CardinalityType
    <2> QED BY <2>1
<1> QED BY <1>1, <1>2

\* The sets of tasks are finite.
LEMMA AtFinite ==
    ASSUME NEW L
    PROVE  /\ IsFiniteSet(At(Senders, L)) /\ IsFiniteSet(At(Receivers, L))
           /\ Cardinality(At(Senders, L)) \in Nat /\ Cardinality(At(Receivers, L)) \in Nat
<1>1. At(Senders, L) \subseteq Senders /\ At(Receivers, L) \subseteq Receivers
    BY DEF At
<1> QED BY <1>1, FS_Subset, FS_CardinalityType, ChannelAssumption

\* The handles are the senders that are nowhere without a handle.
LEMMA HandlesAre == Handles = {s \in Senders : pc[s] \notin NoHandle}
BY DEF Handles, At, NoHandle

\* The same in the next state.
LEMMA HandlesAreNext == Handles' = {s \in Senders : pc'[s] \notin NoHandle}
BY DEF Handles, At, NoHandle

\* The handles are finitely many.
LEMMA HandlesFinite == IsFiniteSet(Handles) /\ Cardinality(Handles) \in Nat
<1>1. Handles \subseteq Senders
    BY DEF Handles
<1> QED BY <1>1, FS_Subset, FS_CardinalityType, ChannelAssumption

-----------------------------------------------------------------------------
(***************************************************************************)
(* The invariant                                                           *)
(***************************************************************************)

\* Init establishes it.
LEMMA InitIInv == Init => IInv
<1> SUFFICES ASSUME Init PROVE IInv
    OBVIOUS
<1> USE ChannelAssumption DEF Init
<1>1. TypeOK
    <2>1. /\ <<>> \in Seq(Senders) /\ Len(<<>>) = 0
          /\ <<>> \in Seq(Receivers \cup {Expired}) /\ <<>> \in Seq(Senders \cup {Expired})
        BY EmptySeq
    <2>2. pc \in [Tasks -> Location] /\ rx \in {"open", "closing", "gone"}
        BY DEF Location
    <2>3. sends \in [Senders -> Nat] /\ senderCount \in Nat /\ closed \in BOOLEAN
        OBVIOUS
    <2>4. queue \in Seq(Senders) /\ (Bounded => Len(queue) <= Limit)
        BY <2>1
    <2> QED BY <2>1, <2>2, <2>3, <2>4 DEF TypeOK
<1>2. WaitersEnqueued
    <2>1. WaitingR = {} /\ WaitingS = {}
        BY DEF WaitingR, WaitingS, At, Tasks
    <2> QED BY <2>1, ListsNobody DEF WaitersEnqueued
<1>3. CountsHandles
    <2>1. Handles = {First}
        BY DEF Handles, At, Tasks
    <2>2. Cardinality({First}) = 1
        BY FS_Singleton, Zenon
    <2> QED BY <2>1, <2>2 DEF CountsHandles
<1>4. ReceiverInUse
    BY DEF ReceiverInUse, Tasks
<1> QED BY <1>1, <1>2, <1>3, <1>4 DEF IInv

\* A task that neither waits nor is about to wait moves, and a sender does not get or
\* lose its handle by it.
LEMMA QuietIInv ==
    ASSUME IInv, NEW x \in Tasks, NEW l \in Location, Goes(x, l),
           pc[x] # "waiting", l # "waiting",
           x \in Senders => (pc[x] \in NoHandle <=> l \in NoHandle),
           x \in Receivers => rx = "open",
           UNCHANGED <<rx, closed, senderCount, consumers, producers>>
    PROVE  /\ pc' \in [Tasks -> Location]
           /\ WaitersEnqueued' /\ CountsHandles' /\ ReceiverInUse'
<1>1. /\ pc' \in [Tasks -> Location]
      /\ \A y \in Tasks : pc'[y] = IF y = x THEN l ELSE pc[y]
    BY AtMoves DEF IInv, TypeOK
<1>2. WaitingR' = WaitingR /\ WaitingS' = WaitingS
    BY <1>1, AtSame DEF WaitingR, WaitingS, Tasks, At
<1>3. WaitersEnqueued'
    BY <1>2 DEF IInv, WaitersEnqueued
<1>4. Handles' = Handles
    BY <1>1, HandlesAre, HandlesAreNext DEF Tasks
<1>5. CountsHandles'
    BY <1>4 DEF IInv, CountsHandles
<1>6. ReceiverInUse'
    BY <1>1 DEF IInv, ReceiverInUse, Tasks
<1> QED BY <1>1, <1>3, <1>5, <1>6

\* A copy of a handle.
LEMMA CloneIInv ==
    ASSUME IInv, NEW s \in Senders, NEW u \in Senders, Clone(s, u)
    PROVE  IInv'
<1>1. /\ pc' \in [Tasks -> Location]
      /\ \A y \in Tasks : pc'[y] = IF y = u THEN "idle" ELSE pc[y]
    BY AtMoves DEF IInv, TypeOK, Clone, Tasks, Location
<1>2. TypeOK'
    BY <1>1 DEF IInv, TypeOK, Clone
<1>3. WaitersEnqueued'
    <2>1. WaitingR' = WaitingR /\ WaitingS' = WaitingS
        BY <1>1 DEF Clone, WaitingR, WaitingS, Tasks, At
    <2> QED BY <2>1 DEF IInv, WaitersEnqueued, Clone
<1>4. CountsHandles'
    <2>1. Handles' = Handles \cup {u} /\ u \notin Handles /\ s \in Handles
        BY <1>1, HandlesAre, HandlesAreNext DEF Clone, Tasks, NoHandle
    <2>2. Cardinality(Handles') = Cardinality(Handles) + 1
        BY <2>1, HandlesFinite, OneMore
    <2> QED BY <2>1, <2>2 DEF IInv, CountsHandles, Clone
<1>5. ReceiverInUse'
    BY <1>1, ChannelAssumption DEF IInv, ReceiverInUse, Tasks, Clone
<1> QED BY <1>2, <1>3, <1>4, <1>5 DEF IInv

\* A sender goes; the last one closes the channel.
LEMMA DropSenderIInv ==
    ASSUME IInv, NEW s \in Senders, DropSender(s)
    PROVE  IInv'
<1> DEFINE l == IF senderCount = 1 THEN "closing" ELSE "gone"
<1>1. /\ pc' \in [Tasks -> Location]
      /\ \A y \in Tasks : pc'[y] = IF y = s THEN l ELSE pc[y]
      /\ pc[s] = "idle"
    BY AtMoves DEF IInv, TypeOK, DropSender, Tasks, Location
<1>2. Handles' = Handles \ {s} /\ s \in Handles
    BY <1>1, HandlesAre, HandlesAreNext DEF Tasks, NoHandle
<1>3. /\ Cardinality(Handles') = Cardinality(Handles) - 1
      /\ Cardinality(Handles') \in Nat
      /\ Cardinality(Handles') = 0 <=> Handles' = {}
    BY <1>2, HandlesFinite, OneLess, FS_EmptySet, FS_CardinalityType
<1>4. TypeOK'
    <2>1. senderCount' = Cardinality(Handles')
        BY <1>3 DEF IInv, TypeOK, DropSender, CountsHandles
    <2>2. senderCount' \in Nat /\ closed' \in BOOLEAN
        BY <1>3, <2>1 DEF IInv, TypeOK, DropSender
    <2> QED BY <1>1, <2>2 DEF IInv, TypeOK, DropSender
<1>5. WaitersEnqueued'
    <2>1. WaitingR' = WaitingR /\ WaitingS' = WaitingS
        BY <1>1 DEF WaitingR, WaitingS, Tasks, At
    <2> QED BY <2>1 DEF IInv, WaitersEnqueued, DropSender
<1>6. CountsHandles'
    <2>1. senderCount' = Cardinality(Handles') /\ (Handles' = {} <=> senderCount = 1)
        BY <1>2, <1>3 DEF IInv, TypeOK, CountsHandles, DropSender
    <2>2. /\ closed' = (closed \/ senderCount = 1) /\ rx' = rx
          /\ closed <=> (Handles = {} \/ rx # "open")
        BY DEF IInv, CountsHandles, DropSender
    <2>3. Handles # {}
        BY <1>2
    <2>4. closed' <=> (Handles' = {} \/ rx' # "open")
        BY <2>1, <2>2, <2>3, Zenon
    <2> QED BY <2>1, <2>4 DEF CountsHandles
<1>7. ReceiverInUse'
    BY <1>1, ChannelAssumption DEF IInv, ReceiverInUse, Tasks, DropSender
<1> QED BY <1>4, <1>5, <1>6, <1>7 DEF IInv

\* A sender enqueues itself.
LEMMA PushWaitIInv ==
    ASSUME IInv, NEW s \in Senders, PushWait(s)
    PROVE  IInv'
<1>1. /\ pc' \in [Tasks -> Location]
      /\ \A y \in Tasks : pc'[y] = IF y = s THEN "waiting" ELSE pc[y]
      /\ pc[s] \in {"running", "woken"}
    BY AtMoves DEF IInv, TypeOK, PushWait, HasLock, Tasks, Location
<1>2. WaitingS' = WaitingS \cup {s} /\ s \notin WaitingS /\ WaitingR' = WaitingR
    BY <1>1, ChannelAssumption DEF WaitingS, WaitingR, At, Tasks
<1>3. /\ Enqueue(producers, s) \in Seq(Senders \cup {Expired})
      /\ Lists(Enqueue(producers, s), WaitingS \cup {s})
    BY <1>2, ListsEnqueue, ChannelAssumption DEF IInv, TypeOK, WaitersEnqueued
<1>4. TypeOK'
    BY <1>1, <1>3 DEF IInv, TypeOK, PushWait
<1>5. WaitersEnqueued'
    BY <1>2, <1>3 DEF IInv, WaitersEnqueued, PushWait
<1>6. CountsHandles'
    <2>1. Handles' = Handles
        BY <1>1, HandlesAre, HandlesAreNext DEF Tasks, NoHandle
    <2> QED BY <2>1 DEF IInv, CountsHandles, PushWait
<1>7. ReceiverInUse'
    BY <1>1, ChannelAssumption DEF IInv, ReceiverInUse, Tasks, PushWait
<1> QED BY <1>4, <1>5, <1>6, <1>7 DEF IInv

\* A receiver enqueues itself.
LEMMA PopWaitIInv ==
    ASSUME IInv, NEW r \in Receivers, PopWait(r)
    PROVE  IInv'
<1>1. /\ pc' \in [Tasks -> Location]
      /\ \A y \in Tasks : pc'[y] = IF y = r THEN "waiting" ELSE pc[y]
      /\ pc[r] \in {"running", "woken"}
    BY AtMoves DEF IInv, TypeOK, PopWait, HasLock, Tasks, Location
<1>2. WaitingR' = WaitingR \cup {r} /\ r \notin WaitingR /\ WaitingS' = WaitingS
    BY <1>1, ChannelAssumption DEF WaitingS, WaitingR, At, Tasks
<1>3. /\ Enqueue(consumers, r) \in Seq(Receivers \cup {Expired})
      /\ Lists(Enqueue(consumers, r), WaitingR \cup {r})
    BY <1>2, ListsEnqueue, ChannelAssumption DEF IInv, TypeOK, WaitersEnqueued
<1>4. TypeOK'
    BY <1>1, <1>3 DEF IInv, TypeOK, PopWait
<1>5. WaitersEnqueued'
    BY <1>2, <1>3 DEF IInv, WaitersEnqueued, PopWait
<1>6. CountsHandles'
    <2>1. Handles' = Handles
        BY <1>1, HandlesAre, HandlesAreNext, ChannelAssumption DEF Tasks
    <2> QED BY <2>1 DEF IInv, CountsHandles, PopWait
<1>7. ReceiverInUse'
    BY <1>1 DEF IInv, ReceiverInUse, Tasks, PopWait
<1> QED BY <1>4, <1>5, <1>6, <1>7 DEF IInv

\* What notify_one() on consumer_cv does to the tasks.
LEMMA NotifyConsumerMoves ==
    ASSUME IInv, NEW s \in Senders, NotifyConsumer(s)
    PROVE  /\ pc' \in [Tasks -> Location]
           /\ \A y \in Tasks : pc'[y] = IF y \in NotifiedOne(consumers) THEN "woken"
                 ELSE IF y = s THEN (IF pc[s] = "closing" THEN "gone" ELSE "idle") ELSE pc[y]
           /\ pc[s] \in {"notify", "closing"}
           /\ NotifiedOne(consumers) \subseteq WaitingR
           /\ consumers' \in Seq(Receivers \cup {Expired})
           /\ WaitingR' = WaitingR \ NotifiedOne(consumers) /\ WaitingS' = WaitingS
           /\ Lists(consumers', WaitingR')
           /\ Handles' = Handles
<1>1. /\ pc' = [y \in Tasks |-> IF y \in NotifiedOne(consumers) THEN "woken"
                 ELSE IF y = s THEN (IF pc[s] = "closing" THEN "gone" ELSE "idle") ELSE pc[y]]
      /\ pc[s] \in {"notify", "closing"} /\ consumers' = PopFront(consumers)
    BY DEF NotifyConsumer, Wake
<1>2. pc' \in [Tasks -> Location]
    BY <1>1 DEF IInv, TypeOK, Location
<1>3. /\ NotifiedOne(consumers) \subseteq WaitingR
      /\ consumers' \in Seq(Receivers \cup {Expired})
      /\ Lists(consumers', WaitingR \ NotifiedOne(consumers))
    BY <1>1, ListsPopFront, ChannelAssumption DEF IInv, TypeOK, WaitersEnqueued
<1>4. WaitingR' = WaitingR \ NotifiedOne(consumers) /\ WaitingS' = WaitingS
    BY <1>1, <1>3, ChannelAssumption DEF WaitingR, WaitingS, At, Tasks
<1>5. Handles' = Handles
    BY <1>1, <1>3, HandlesAre, HandlesAreNext, ChannelAssumption DEF WaitingR, At, Tasks, NoHandle
<1> QED BY <1>1, <1>2, <1>3, <1>4, <1>5

\* A notification of a receiver.
LEMMA NotifyConsumerIInv ==
    ASSUME IInv, NEW s \in Senders, NotifyConsumer(s)
    PROVE  IInv'
<1>1. TypeOK'
    BY NotifyConsumerMoves DEF IInv, TypeOK, NotifyConsumer
<1>2. WaitersEnqueued'
    BY NotifyConsumerMoves DEF IInv, WaitersEnqueued, NotifyConsumer
<1>3. CountsHandles'
    BY NotifyConsumerMoves DEF IInv, CountsHandles, NotifyConsumer
<1>4. ReceiverInUse'
    <2>1. \A r \in Receivers : pc[r] = "idle" => pc'[r] = "idle"
        BY NotifyConsumerMoves, ChannelAssumption DEF Tasks, WaitingR, At
    <2> QED BY <2>1 DEF IInv, ReceiverInUse, NotifyConsumer
<1> QED BY <1>1, <1>2, <1>3, <1>4 DEF IInv

\* What notify_one() on producer_cv does to the tasks.
LEMMA NotifyProducerMoves ==
    ASSUME IInv, NEW r \in Receivers, NotifyProducer(r)
    PROVE  /\ pc' \in [Tasks -> Location]
           /\ \A y \in Tasks : pc'[y] = IF y \in NotifiedOne(producers) THEN "woken"
                                        ELSE IF y = r THEN "idle" ELSE pc[y]
           /\ pc[r] = "notify"
           /\ NotifiedOne(producers) \subseteq WaitingS
           /\ producers' \in Seq(Senders \cup {Expired})
           /\ WaitingS' = WaitingS \ NotifiedOne(producers) /\ WaitingR' = WaitingR
           /\ Lists(producers', WaitingS')
           /\ Handles' = Handles
<1>1. /\ pc' = [y \in Tasks |-> IF y \in NotifiedOne(producers) THEN "woken"
                                ELSE IF y = r THEN "idle" ELSE pc[y]]
      /\ pc[r] = "notify" /\ producers' = PopFront(producers)
    BY DEF NotifyProducer, Wake
<1>2. pc' \in [Tasks -> Location]
    BY <1>1 DEF IInv, TypeOK, Location
<1>3. /\ NotifiedOne(producers) \subseteq WaitingS
      /\ producers' \in Seq(Senders \cup {Expired})
      /\ Lists(producers', WaitingS \ NotifiedOne(producers))
    BY <1>1, ListsPopFront, ChannelAssumption DEF IInv, TypeOK, WaitersEnqueued
<1>4. WaitingS' = WaitingS \ NotifiedOne(producers) /\ WaitingR' = WaitingR
    BY <1>1, <1>3, ChannelAssumption DEF WaitingR, WaitingS, At, Tasks
<1>5. Handles' = Handles
    BY <1>1, <1>3, HandlesAre, HandlesAreNext, ChannelAssumption DEF WaitingS, At, Tasks, NoHandle
<1> QED BY <1>1, <1>2, <1>3, <1>4, <1>5

\* A notification of a sender.
LEMMA NotifyProducerIInv ==
    ASSUME IInv, NEW r \in Receivers, NotifyProducer(r)
    PROVE  IInv'
<1>1. TypeOK'
    BY NotifyProducerMoves DEF IInv, TypeOK, NotifyProducer
<1>2. WaitersEnqueued'
    BY NotifyProducerMoves DEF IInv, WaitersEnqueued, NotifyProducer
<1>3. CountsHandles'
    BY NotifyProducerMoves DEF IInv, CountsHandles, NotifyProducer
<1>4. ReceiverInUse'
    <2>1. \A u \in Receivers : pc[u] = "idle" => pc'[u] = "idle"
        BY NotifyProducerMoves, ChannelAssumption DEF Tasks, WaitingS, At
    <2> QED BY <2>1 DEF IInv, ReceiverInUse, NotifyProducer
<1> QED BY <1>1, <1>2, <1>3, <1>4 DEF IInv

\* The receiver goes.
LEMMA DropReceiverIInv ==
    ASSUME IInv, DropReceiver
    PROVE  IInv'
<1>1. TypeOK'
    BY DEF IInv, TypeOK, DropReceiver
<1>2. WaitersEnqueued'
    BY DEF IInv, WaitersEnqueued, DropReceiver, WaitingR, WaitingS, At
<1>3. CountsHandles'
    <2>1. /\ Handles' = Handles /\ senderCount' = senderCount
          /\ closed' = TRUE /\ rx' # "open"
        BY DEF DropReceiver, Handles, At
    <2> QED BY <2>1 DEF IInv, CountsHandles
<1>4. ReceiverInUse'
    BY DEF ReceiverInUse, DropReceiver
<1> QED BY <1>1, <1>2, <1>3, <1>4 DEF IInv

\* What notify_all() on producer_cv does to the tasks.
LEMMA NotifyAllMoves ==
    ASSUME IInv, NotifyAllProducers
    PROVE  /\ pc' \in [Tasks -> Location]
           /\ \A y \in Tasks : pc'[y] = IF y \in WaitingS THEN "woken" ELSE pc[y]
           /\ WaitingS' = {} /\ WaitingR' = WaitingR /\ Handles' = Handles
<1>1. NotifiedAll(producers) = WaitingS
    BY DEF IInv, WaitersEnqueued, Lists, NotifiedAll
<1>2. /\ pc' = [y \in Tasks |-> IF y \in WaitingS THEN "woken" ELSE pc[y]]
      /\ pc' \in [Tasks -> Location]
    BY <1>1 DEF IInv, TypeOK, NotifyAllProducers, Location
<1>3. WaitingS' = {} /\ WaitingR' = WaitingR
    BY <1>2, ChannelAssumption DEF WaitingR, WaitingS, At, Tasks
<1>4. Handles' = Handles
    BY <1>2, HandlesAre, HandlesAreNext DEF WaitingS, At, Tasks, NoHandle
<1> QED BY <1>2, <1>3, <1>4

\* The senders learn that the receiver has gone.
LEMMA NotifyAllIInv ==
    ASSUME IInv, NotifyAllProducers
    PROVE  IInv'
<1>1. TypeOK'
    BY NotifyAllMoves, EmptySeq DEF IInv, TypeOK, NotifyAllProducers
<1>2. WaitersEnqueued'
    BY NotifyAllMoves, ListsNobody DEF IInv, WaitersEnqueued, NotifyAllProducers
<1>3. CountsHandles'
    <2>1. /\ Handles' = Handles /\ senderCount' = senderCount /\ closed' = closed
          /\ rx' # "open" /\ rx # "open"
        BY NotifyAllMoves DEF NotifyAllProducers
    <2> QED BY <2>1 DEF IInv, CountsHandles
<1>4. ReceiverInUse'
    <2>1. \A r \in Receivers : pc[r] = "idle" /\ pc'[r] = "idle"
        BY NotifyAllMoves, ChannelAssumption
           DEF IInv, ReceiverInUse, NotifyAllProducers, WaitingS, At, Tasks
    <2> QED BY <2>1 DEF ReceiverInUse
<1> QED BY <1>1, <1>2, <1>3, <1>4 DEF IInv

\* A task that waits is destroyed.
LEMMA CancelIInv ==
    ASSUME IInv, NEW x \in Cancelable, Cancel(x)
    PROVE  IInv'
<1>1. x \in Tasks /\ x # Expired
    BY ChannelAssumption DEF Tasks
<1>2. /\ pc' \in [Tasks -> Location]
      /\ \A y \in Tasks : pc'[y] = IF y = x THEN "idle" ELSE pc[y]
      /\ pc[x] = "waiting"
    BY <1>1, AtMoves DEF IInv, TypeOK, Cancel, Location
<1>3. WaitingR' = WaitingR \ {x} /\ WaitingS' = WaitingS \ {x}
    BY <1>2 DEF WaitingR, WaitingS, At, Tasks
<1>4. /\ consumers' \in Seq(Receivers \cup {Expired})
      /\ Lists(consumers', WaitingR \ {x})
    BY <1>1, ListsExpire, ChannelAssumption DEF IInv, TypeOK, WaitersEnqueued, Cancel
<1>5. /\ producers' \in Seq(Senders \cup {Expired})
      /\ Lists(producers', WaitingS \ {x})
    BY <1>1, ListsExpire, ChannelAssumption DEF IInv, TypeOK, WaitersEnqueued, Cancel
<1>6. TypeOK'
    BY <1>2, <1>4, <1>5 DEF IInv, TypeOK, Cancel
<1>7. WaitersEnqueued'
    BY <1>3, <1>4, <1>5 DEF WaitersEnqueued
<1>8. CountsHandles'
    <2>1. Handles' = Handles
        BY <1>1, <1>2, HandlesAre, HandlesAreNext DEF Tasks, NoHandle
    <2> QED BY <2>1 DEF IInv, CountsHandles, Cancel
<1>9. ReceiverInUse'
    BY <1>2 DEF IInv, ReceiverInUse, Cancel, Tasks
<1> QED BY <1>6, <1>7, <1>8, <1>9 DEF IInv

\* The remaining steps of a sender.
LEMMA SenderIInv ==
    ASSUME IInv, NEW s \in Senders, Send(s) \/ TrySend(s) \/ PushClosed(s) \/ Push(s)
    PROVE  IInv'
<1>1. /\ Goes(s, "running") \/ Goes(s, "idle") \/ Goes(s, "notify")
      /\ pc[s] \in {"idle", "running", "woken"}
      /\ UNCHANGED <<rx, closed, senderCount, consumers, producers>>
    BY DEF Send, TrySend, PushClosed, Push, HasLock
<1>2. s \in Tasks /\ s \notin Receivers
    BY ChannelAssumption DEF Tasks
<1>3. /\ pc' \in [Tasks -> Location]
      /\ WaitersEnqueued' /\ CountsHandles' /\ ReceiverInUse'
    <2>1. CASE Goes(s, "running")
        BY <1>1, <1>2, <2>1, QuietIInv DEF Location, NoHandle
    <2>2. CASE Goes(s, "idle")
        BY <1>1, <1>2, <2>2, QuietIInv DEF Location, NoHandle
    <2>3. CASE Goes(s, "notify")
        BY <1>1, <1>2, <2>3, QuietIInv DEF Location, NoHandle
    <2> QED BY <1>1, <2>1, <2>2, <2>3
<1>4. queue' \in Seq(Senders) /\ (Bounded => Len(queue') <= Limit)
    <2>1. queue \in Seq(Senders) /\ (Bounded => Len(queue) <= Limit)
        BY DEF IInv, TypeOK
    <2>2. CASE queue' = queue
        BY <2>1, <2>2
    <2>3. CASE HasRoom /\ queue' = Append(queue, s)
        <3>1. queue' \in Seq(Senders) /\ Len(queue') = Len(queue) + 1 /\ Len(queue) \in Nat
            BY <2>1, <2>3, AppendProperties, LenProperties
        <3> QED BY <2>3, <3>1, ChannelAssumption DEF HasRoom
    <2> QED BY <2>2, <2>3 DEF Send, TrySend, PushClosed, Push
<1>5. sends' \in [Senders -> Nat]
    BY DEF IInv, TypeOK, Send, TrySend, PushClosed, Push
<1>6. TypeOK'
    BY <1>1, <1>3, <1>4, <1>5 DEF IInv, TypeOK
<1> QED BY <1>3, <1>6 DEF IInv

\* The remaining steps of a receiver.
LEMMA ReceiverIInv ==
    ASSUME IInv, NEW r \in Receivers, Receive(r) \/ Pop(r) \/ PopClosed(r)
    PROVE  IInv'
<1>1. /\ Goes(r, "running") \/ Goes(r, "idle") \/ Goes(r, "notify")
      /\ pc[r] \in {"idle", "running", "woken"}
      /\ UNCHANGED <<rx, closed, senderCount, consumers, producers, sends>>
    BY DEF Receive, Pop, PopClosed, HasLock
<1>2. r \in Tasks /\ r \notin Senders /\ rx = "open"
    BY ChannelAssumption DEF IInv, ReceiverInUse, Tasks, Receive, Pop, PopClosed, HasLock
<1>3. /\ pc' \in [Tasks -> Location]
      /\ WaitersEnqueued' /\ CountsHandles' /\ ReceiverInUse'
    <2>1. CASE Goes(r, "running")
        BY <1>1, <1>2, <2>1, QuietIInv DEF Location
    <2>2. CASE Goes(r, "idle")
        BY <1>1, <1>2, <2>2, QuietIInv DEF Location
    <2>3. CASE Goes(r, "notify")
        BY <1>1, <1>2, <2>3, QuietIInv DEF Location
    <2> QED BY <1>1, <2>1, <2>2, <2>3
<1>4. queue' \in Seq(Senders) /\ (Bounded => Len(queue') <= Limit)
    <2>1. queue \in Seq(Senders) /\ (Bounded => Len(queue) <= Limit)
        BY DEF IInv, TypeOK
    <2>2. CASE queue' = queue
        BY <2>1, <2>2
    <2>3. CASE queue # <<>> /\ queue' = Tail(queue)
        <3>1. queue' \in Seq(Senders) /\ Len(queue') = Len(queue) - 1 /\ Len(queue) \in Nat
            BY <2>1, <2>3, HeadTailProperties, LenProperties
        <3> QED BY <2>1, <3>1, ChannelAssumption
    <2> QED BY <2>2, <2>3 DEF Receive, Pop, PopClosed
<1>5. TypeOK'
    BY <1>1, <1>3, <1>4 DEF IInv, TypeOK
<1> QED BY <1>3, <1>5 DEF IInv

\* Every step keeps the invariant.
LEMMA NextIInv == IInv /\ [Next]_vars => IInv'
<1> SUFFICES ASSUME IInv, [Next]_vars PROVE IInv'
    OBVIOUS
<1>1. CASE UNCHANGED vars
    <2>1. TypeOK'
        BY <1>1 DEF vars, IInv, TypeOK
    <2>2. WaitersEnqueued'
        BY <1>1 DEF vars, IInv, WaitersEnqueued, WaitingR, WaitingS, At
    <2>3. CountsHandles'
        BY <1>1 DEF vars, IInv, CountsHandles, Handles, At
    <2>4. ReceiverInUse'
        BY <1>1 DEF vars, IInv, ReceiverInUse
    <2> QED BY <2>1, <2>2, <2>3, <2>4 DEF IInv
<1>2. CASE Next
    <2>1. ASSUME NEW s \in Senders,
                 Send(s) \/ TrySend(s) \/ DropSender(s) \/ SenderStep(s)
          PROVE  IInv'
        BY <2>1, SenderIInv, DropSenderIInv, PushWaitIInv, NotifyConsumerIInv DEF SenderStep
    <2>2. ASSUME NEW r \in Receivers, Receive(r) \/ ReceiverStep(r)
          PROVE  IInv'
        BY <2>2, ReceiverIInv, PopWaitIInv, NotifyProducerIInv DEF ReceiverStep
    <2> QED BY <1>2, <2>1, <2>2, CloneIInv, CancelIInv, DropReceiverIInv, NotifyAllIInv DEF Next
<1> QED BY <1>1, <1>2

\* The inductive invariant holds in every behaviour.
THEOREM ChannelInvariant == Spec => []IInv
BY InitIInv, NextIInv, PTL DEF Spec

\* The variables keep their types, and a bounded queue its limit.
THEOREM ChannelTypeOK == Spec => []TypeOK
<1>1. IInv => TypeOK
    BY DEF IInv
<1> QED BY <1>1, ChannelInvariant, PTL

\* The tasks that wait are those in the condition variables, each there once.
THEOREM ChannelWaitersEnqueued == Spec => []WaitersEnqueued
<1>1. IInv => WaitersEnqueued
    BY DEF IInv
<1> QED BY <1>1, ChannelInvariant, PTL

\* sender_count is the number of handles; closed means that one end is gone.
THEOREM ChannelCountsHandles == Spec => []CountsHandles
<1>1. IInv => CountsHandles
    BY DEF IInv
<1> QED BY <1>1, ChannelInvariant, PTL

-----------------------------------------------------------------------------
(***************************************************************************)
(* Channel implements ChannelSpec                                          *)
(***************************************************************************)

Busy == {"running", "waiting", "woken"}

\* Handles and pending operations after a step of one task.
LEMMA MappedMoves ==
    ASSUME NEW x \in Tasks, NEW l,
           \A y \in Tasks : pc'[y] = IF y = x THEN l ELSE pc[y],
           x \in Senders => (pc[x] \in NoHandle <=> l \in NoHandle)
    PROVE  /\ Handles' = Handles
           /\ At(Tasks, Busy)' = IF l \in Busy THEN At(Tasks, Busy) \cup {x}
                                                ELSE At(Tasks, Busy) \ {x}
<1>1. Handles' = Handles
    BY HandlesAre, HandlesAreNext DEF Tasks
<1>2. At(Tasks, Busy)' = IF l \in Busy THEN At(Tasks, Busy) \cup {x}
                                       ELSE At(Tasks, Busy) \ {x}
    BY DEF At
<1> QED BY <1>1, <1>2

\* The closed channel seen from a handle: the receiver is gone.
LEMMA ClosedForSender ==
    ASSUME IInv, NEW s \in Senders, pc[s] \notin NoHandle
    PROVE  s \in Handles /\ (closed <=> rx # "open")
<1>1. s \in Handles
    BY HandlesAre
<1>2. closed <=> (Handles = {} \/ rx # "open")
    BY DEF IInv, CountsHandles
<1> QED BY <1>1, <1>2

\* Init implements Abs!Init.
LEMMA InitImplements == Init => Abs!Init
BY ChannelAssumption DEF Init, Abs!Init, Handles, At, Tasks

\* The steps of a sender that move only the sender.
LEMMA SenderImplements ==
    ASSUME IInv, NEW s \in Senders
    PROVE  /\ Send(s) => Abs!Request(s)
           /\ TrySend(s) => Abs!TrySend(s)
           /\ Push(s) => Abs!CompleteSend(s)
           /\ PushClosed(s) => Abs!RefuseSend(s)
           /\ PushWait(s) => UNCHANGED Abs!vars
           /\ DropSender(s) => Abs!DropSender(s)
<1> DEFINE P == At(Tasks, Busy)
<1>0. s \in Tasks /\ pc \in [Tasks -> Location]
    BY DEF IInv, TypeOK, Tasks
<1>a. P = At(Tasks, {"running", "waiting", "woken"})
    BY DEF Busy
<1>1. ASSUME Send(s) PROVE Abs!Request(s)
    <2>1. pc[s] = "idle" /\ \A y \in Tasks : pc'[y] = IF y = s THEN "running" ELSE pc[y]
        BY <1>0, <1>1, AtMoves DEF Send, Location
    <2>2. Handles' = Handles /\ P' = P \cup {s} /\ s \notin P
        BY <1>0, <2>1, MappedMoves DEF Busy, NoHandle, At
    <2>3. s \in Handles
        BY <2>1, ClosedForSender DEF NoHandle
    <2> QED BY <1>1, <2>2, <2>3 DEF Abs!Request, Send, Busy
<1>2. ASSUME TrySend(s) PROVE Abs!TrySend(s)
    <2>1. pc[s] = "idle" /\ \A y \in Tasks : pc'[y] = IF y = s THEN "notify" ELSE pc[y]
        BY <1>0, <1>2, AtMoves DEF TrySend, Location
    <2>2. Handles' = Handles /\ P' = P /\ s \notin P
        BY <1>0, <2>1, MappedMoves DEF Busy, NoHandle, At
    <2>3. s \in Handles /\ rx = "open"
        BY <1>2, <2>1, ClosedForSender DEF NoHandle, TrySend
    <2> QED BY <1>2, <2>2, <2>3 DEF Abs!TrySend, Abs!HasRoom, HasRoom, TrySend, Busy
<1>3. ASSUME Push(s) PROVE Abs!CompleteSend(s)
    <2>1. /\ pc[s] \in {"running", "woken"}
          /\ \A y \in Tasks : pc'[y] = IF y = s THEN "notify" ELSE pc[y]
        BY <1>0, <1>3, AtMoves DEF Push, HasLock, Location
    <2>2. Handles' = Handles /\ P' = P \ {s} /\ s \in P
        BY <1>0, <2>1, MappedMoves DEF Busy, NoHandle, At
    <2>3. rx = "open"
        BY <1>3, <2>1, ClosedForSender DEF NoHandle, Push
    <2> QED BY <1>3, <2>2, <2>3 DEF Abs!CompleteSend, Abs!HasRoom, HasRoom, Push, Busy
<1>4. ASSUME PushClosed(s) PROVE Abs!RefuseSend(s)
    <2>1. /\ pc[s] \in {"running", "woken"}
          /\ \A y \in Tasks : pc'[y] = IF y = s THEN "idle" ELSE pc[y]
        BY <1>0, <1>4, AtMoves DEF PushClosed, HasLock, Location
    <2>2. Handles' = Handles /\ P' = P \ {s} /\ s \in P
        BY <1>0, <2>1, MappedMoves DEF Busy, NoHandle, At
    <2>3. rx # "open"
        BY <1>4, <2>1, ClosedForSender DEF NoHandle, PushClosed
    <2> QED BY <1>4, <2>2, <2>3 DEF Abs!RefuseSend, PushClosed, Busy
<1>5. ASSUME PushWait(s) PROVE UNCHANGED Abs!vars
    <2>1. /\ pc[s] \in {"running", "woken"}
          /\ \A y \in Tasks : pc'[y] = IF y = s THEN "waiting" ELSE pc[y]
        BY <1>0, <1>5, AtMoves DEF PushWait, HasLock, Location
    <2>2. Handles' = Handles /\ P' = P
        BY <1>0, <2>1, MappedMoves DEF Busy, NoHandle, At
    <2> QED BY <1>5, <2>2 DEF Abs!vars, PushWait, Busy
<1>6. ASSUME DropSender(s) PROVE Abs!DropSender(s)
    <2> DEFINE l == IF senderCount = 1 THEN "closing" ELSE "gone"
    <2>1. pc[s] = "idle" /\ \A y \in Tasks : pc'[y] = IF y = s THEN l ELSE pc[y]
        BY <1>0, <1>6, AtMoves DEF DropSender, Location
    <2>2. Handles' = Handles \ {s} /\ s \in Handles
        BY <1>0, <2>1, HandlesAre, HandlesAreNext DEF Tasks, NoHandle
    <2>3. P' = P /\ s \notin P
        BY <2>1 DEF At, Busy
    <2> QED BY <1>6, <2>2, <2>3 DEF Abs!DropSender, DropSender, Busy
<1> QED BY <1>1, <1>2, <1>3, <1>4, <1>5, <1>6

\* The steps of a receiver that move only the receiver.
LEMMA ReceiverImplements ==
    ASSUME IInv, NEW r \in Receivers
    PROVE  /\ Receive(r) => Abs!Request(r)
           /\ Pop(r) => Abs!CompleteRecv(r)
           /\ PopClosed(r) => Abs!RefuseRecv(r)
           /\ PopWait(r) => UNCHANGED Abs!vars
<1> DEFINE P == At(Tasks, Busy)
<1>0. r \in Tasks /\ r \notin Senders /\ pc \in [Tasks -> Location]
    BY ChannelAssumption DEF IInv, TypeOK, Tasks
<1>1. ASSUME Receive(r) PROVE Abs!Request(r)
    <2>1. pc[r] = "idle" /\ \A y \in Tasks : pc'[y] = IF y = r THEN "running" ELSE pc[y]
        BY <1>0, <1>1, AtMoves DEF Receive, Location
    <2>2. Handles' = Handles /\ P' = P \cup {r} /\ r \notin P
        BY <1>0, <2>1, MappedMoves DEF Busy, At
    <2> QED BY <1>1, <2>2 DEF Abs!Request, Receive, Busy
<1>2. ASSUME Pop(r) PROVE Abs!CompleteRecv(r)
    <2>1. /\ pc[r] \in {"running", "woken"}
          /\ \A y \in Tasks : pc'[y] = IF y = r THEN (IF Bounded THEN "notify" ELSE "idle")
                                                 ELSE pc[y]
        BY <1>0, <1>2, AtMoves DEF Pop, HasLock, Location
    <2>2. Handles' = Handles /\ P' = P \ {r} /\ r \in P
        BY <1>0, <2>1, MappedMoves DEF Busy, At
    <2> QED BY <1>2, <2>2 DEF Abs!CompleteRecv, Pop, Busy
<1>3. ASSUME PopClosed(r) PROVE Abs!RefuseRecv(r)
    <2>1. /\ pc[r] \in {"running", "woken"}
          /\ \A y \in Tasks : pc'[y] = IF y = r THEN "idle" ELSE pc[y]
        BY <1>0, <1>3, AtMoves DEF PopClosed, HasLock, Location
    <2>2. Handles' = Handles /\ P' = P \ {r} /\ r \in P
        BY <1>0, <2>1, MappedMoves DEF Busy, At
    <2>3. Handles = {}
        <3>1. rx = "open" /\ closed
            BY <1>3, <2>1 DEF IInv, ReceiverInUse, PopClosed
        <3>2. closed <=> (Handles = {} \/ rx # "open")
            BY DEF IInv, CountsHandles
        <3> QED BY <3>1, <3>2
    <2> QED BY <1>3, <2>2, <2>3 DEF Abs!RefuseRecv, PopClosed, Busy
<1>4. ASSUME PopWait(r) PROVE UNCHANGED Abs!vars
    <2>1. /\ pc[r] \in {"running", "woken"}
          /\ \A y \in Tasks : pc'[y] = IF y = r THEN "waiting" ELSE pc[y]
        BY <1>0, <1>4, AtMoves DEF PopWait, HasLock, Location
    <2>2. Handles' = Handles /\ P' = P
        BY <1>0, <2>1, MappedMoves DEF Busy, At
    <2> QED BY <1>4, <2>2 DEF Abs!vars, PopWait, Busy
<1> QED BY <1>1, <1>2, <1>3, <1>4

\* Handles that come, ends that go, tasks that are cancelled.
LEMMA OthersImplement ==
    ASSUME IInv
    PROVE  /\ \A s, u \in Senders : Clone(s, u) => Abs!Clone(u)
           /\ DropReceiver => Abs!DropReceiver
           /\ \A x \in Cancelable : Cancel(x) => Abs!Abandon(x)
<1> DEFINE P == At(Tasks, Busy)
<1>0. pc \in [Tasks -> Location]
    BY DEF IInv, TypeOK
<1>1. ASSUME NEW s \in Senders, NEW u \in Senders, Clone(s, u)
      PROVE  Abs!Clone(u)
    <2>1. /\ pc[s] = "idle" /\ pc[u] = "absent"
          /\ \A y \in Tasks : pc'[y] = IF y = u THEN "idle" ELSE pc[y]
        BY <1>0, <1>1, AtMoves DEF Clone, Location, Tasks
    <2>2. Handles' = Handles \cup {u} /\ u \notin Handles /\ Handles # {}
        BY <2>1, HandlesAre, HandlesAreNext DEF Tasks, NoHandle
    <2>3. P' = P
        BY <2>1 DEF At, Busy
    <2> QED BY <1>1, <2>2, <2>3 DEF Abs!Clone, Clone, Busy
<1>2. ASSUME DropReceiver PROVE Abs!DropReceiver
    <2>1. Handles' = Handles /\ P' = P /\ P \cap Receivers = {}
        BY <1>2 DEF DropReceiver, Handles, At, Busy
    <2>2. rx = "open" /\ rx' # "open" /\ queue' = queue
        BY <1>2 DEF DropReceiver
    <2> QED BY <2>1, <2>2 DEF Abs!DropReceiver, Busy
<1>3. ASSUME NEW x \in Cancelable, Cancel(x)
      PROVE  Abs!Abandon(x)
    <2>0. x \in Tasks
        BY ChannelAssumption DEF Tasks
    <2>1. /\ pc[x] = "waiting"
          /\ \A y \in Tasks : pc'[y] = IF y = x THEN "idle" ELSE pc[y]
        BY <1>0, <1>3, <2>0, AtMoves DEF Cancel, Location
    <2>2. Handles' = Handles /\ P' = P \ {x} /\ x \in P
        BY <2>0, <2>1, MappedMoves DEF Busy, NoHandle, At
    <2> QED BY <1>3, <2>2 DEF Abs!Abandon, Cancel, Busy
<1> QED BY <1>1, <1>2, <1>3

\* The notifications change nothing that a user sees.
LEMMA NotificationsImplement ==
    ASSUME IInv
    PROVE  /\ \A s \in Senders : NotifyConsumer(s) => UNCHANGED Abs!vars
           /\ \A r \in Receivers : NotifyProducer(r) => UNCHANGED Abs!vars
           /\ NotifyAllProducers => UNCHANGED Abs!vars
<1> DEFINE P == At(Tasks, Busy)
<1>1. ASSUME NEW s \in Senders, NotifyConsumer(s)
      PROVE  UNCHANGED Abs!vars
    <2>1. P' = P
        BY <1>1, NotifyConsumerMoves DEF At, Busy, WaitingR
    <2> QED BY <1>1, <2>1, NotifyConsumerMoves DEF Abs!vars, NotifyConsumer, Busy
<1>2. ASSUME NEW r \in Receivers, NotifyProducer(r)
      PROVE  UNCHANGED Abs!vars
    <2>1. P' = P
        BY <1>2, NotifyProducerMoves DEF At, Busy, WaitingS
    <2> QED BY <1>2, <2>1, NotifyProducerMoves DEF Abs!vars, NotifyProducer, Busy
<1>3. ASSUME NotifyAllProducers
      PROVE  UNCHANGED Abs!vars
    <2>1. P' = P
        BY <1>3, NotifyAllMoves DEF At, Busy, WaitingS
    <2>2. (rx' = "open") = (rx = "open") /\ queue' = queue
        BY <1>3 DEF NotifyAllProducers
    <2> QED BY <2>1, <2>2, NotifyAllMoves, <1>3 DEF Abs!vars, Busy
<1> QED BY <1>1, <1>2, <1>3

\* A step that changes nothing changes nothing that a user sees.
LEMMA StutterImplements == UNCHANGED vars => UNCHANGED Abs!vars
BY DEF vars, Abs!vars, Handles, At

\* Every step of the channel is one that ChannelSpec allows, or changes nothing that
\* a user sees.
LEMMA NextImplements == IInv /\ [Next]_vars => [Abs!Next]_Abs!vars
<1> SUFFICES ASSUME IInv, [Next]_vars PROVE [Abs!Next]_Abs!vars
    OBVIOUS
<1>1. CASE UNCHANGED vars
    BY <1>1, StutterImplements
<1>2. CASE Next
    <2>1. ASSUME NEW s \in Senders,
                 Send(s) \/ TrySend(s) \/ DropSender(s) \/ SenderStep(s)
          PROVE  [Abs!Next]_Abs!vars
        BY <2>1, SenderImplements, NotificationsImplement DEF SenderStep, Abs!Next
    <2>2. ASSUME NEW r \in Receivers, Receive(r) \/ ReceiverStep(r)
          PROVE  [Abs!Next]_Abs!vars
        BY <2>2, ReceiverImplements, NotificationsImplement DEF ReceiverStep, Abs!Next
    <2>3. ASSUME NEW x \in Cancelable, Cancel(x)
          PROVE  [Abs!Next]_Abs!vars
        BY <2>3, OthersImplement, ChannelAssumption DEF Abs!Next
    <2>4. ASSUME NEW s \in Senders, NEW u \in Senders, Clone(s, u)
          PROVE  [Abs!Next]_Abs!vars
        BY <2>4, OthersImplement DEF Abs!Next
    <2> QED BY <1>2, <2>1, <2>2, <2>3, <2>4, OthersImplement, NotificationsImplement
            DEF Next, Abs!Next
<1> QED BY <1>1, <1>2

\* The channel implements ChannelSpec, whoever is cancelled.
THEOREM ChannelImplements == Spec => Implements
BY InitImplements, NextImplements, ChannelInvariant, PTL DEF Spec, Implements, Abs!Spec

-----------------------------------------------------------------------------
(***************************************************************************)
(* No wakeup is lost, as long as nobody is cancelled                       *)
(***************************************************************************)

VInv == AllAlive(consumers) /\ ValuesAnnounced

\* The unbounded channel has no producer_cv.
RInv ==
    /\ AllAlive(producers) /\ RoomAnnounced
    /\ ~Bounded => WaitingS = {}

\* A step that leaves the queue alone and takes nobody from those who see to it.
LEMMA ValuesSame ==
    ASSUME ValuesAnnounced, queue' = queue, WaitingR' = WaitingR,
           NotifyingS' = NotifyingS, WokenR' = WokenR
    PROVE  ValuesAnnounced'
BY DEF ValuesAnnounced

\* The same for the room; the channel does not open again.
LEMMA RoomSame ==
    ASSUME RoomAnnounced, queue' = queue, WaitingS' = WaitingS,
           NotifyingR' = NotifyingR, WokenS' = WokenS, ~closed' => ~closed
    PROVE  RoomAnnounced'
BY DEF RoomAnnounced

\* How one task that moves changes the sets of the announcements.
LEMMA AnnouncersMove ==
    ASSUME pc \in [Tasks -> Location], NEW x \in Tasks, NEW l \in Location, Goes(x, l)
    PROVE  /\ x \in Senders => /\ WaitingR' = WaitingR /\ WokenR' = WokenR /\ NotifyingR' = NotifyingR
                               /\ NotifyingS' = IF l = "notify" THEN NotifyingS \cup {x} ELSE NotifyingS \ {x}
                               /\ WokenS' = IF l = "woken" THEN WokenS \cup {x} ELSE WokenS \ {x}
                               /\ WaitingS' = IF l = "waiting" THEN WaitingS \cup {x} ELSE WaitingS \ {x}
           /\ x \in Receivers => /\ WaitingS' = WaitingS /\ WokenS' = WokenS /\ NotifyingS' = NotifyingS
                                 /\ NotifyingR' = IF l = "notify" THEN NotifyingR \cup {x} ELSE NotifyingR \ {x}
                                 /\ WokenR' = IF l = "woken" THEN WokenR \cup {x} ELSE WokenR \ {x}
                                 /\ WaitingR' = IF l = "waiting" THEN WaitingR \cup {x} ELSE WaitingR \ {x}
<1>1. \A y \in Tasks : pc'[y] = IF y = x THEN l ELSE pc[y]
    BY AtMoves
<1>2. Senders \cap Receivers = {}
    BY ChannelAssumption
<1> QED BY <1>1, <1>2 DEF WaitingR, WokenR, NotifyingR, WaitingS, WokenS, NotifyingS, At, Tasks

\* Pushing a value announces it.
LEMMA PushAnnounces ==
    ASSUME TypeOK, ValuesAnnounced, NEW s \in Senders, s \notin NotifyingS,
           queue' = Append(queue, s), NotifyingS' = NotifyingS \cup {s},
           WaitingR' = WaitingR, WokenR' = WokenR
    PROVE  ValuesAnnounced'
<1>1. Len(queue') = Len(queue) + 1 /\ Len(queue) \in Nat
    BY AppendProperties, LenProperties DEF TypeOK
<1>2. /\ Cardinality(NotifyingS') = Cardinality(NotifyingS) + 1
      /\ Cardinality(NotifyingS) \in Nat /\ Cardinality(WokenR) \in Nat
    BY OneMore, AtFinite DEF NotifyingS, WokenR
<1> QED BY <1>1, <1>2 DEF ValuesAnnounced

\* Taking a value takes at most one announcement with it.
LEMMA PopAnnounces ==
    ASSUME TypeOK, ValuesAnnounced, NEW r \in Receivers, queue # <<>>,
           queue' = Tail(queue), NotifyingS' = NotifyingS,
           WaitingR' = WaitingR, WokenR' = WokenR \ {r}
    PROVE  ValuesAnnounced'
<1>1. Len(queue') = Len(queue) - 1 /\ Len(queue) \in Nat
    BY HeadTailProperties, LenProperties DEF TypeOK
<1>2. Cardinality(WokenR \ {r}) >= Cardinality(WokenR) - 1 /\ Cardinality(WokenR \ {r}) \in Nat
    BY AtMostOneLess, AtFinite DEF WokenR
<1>3. Cardinality(NotifyingS) \in Nat /\ Cardinality(WokenR) \in Nat
    BY AtFinite DEF NotifyingS, WokenR
<1> QED BY <1>1, <1>2, <1>3 DEF ValuesAnnounced

\* A notification turns an announcement into a woken receiver.
LEMMA NotifyAnnounces ==
    ASSUME IInv, VInv, NEW s \in Senders, NotifyConsumer(s)
    PROVE  VInv'
<1>1. /\ AllAlive(consumers')
      /\ WaitingR # {} => \E x \in WaitingR : NotifiedOne(consumers) = {x}
    <2>1. /\ consumers \in Seq(Receivers \cup {Expired}) /\ Lists(consumers, WaitingR)
          /\ AllAlive(consumers) /\ consumers' = PopFront(consumers)
        BY DEF IInv, TypeOK, WaitersEnqueued, VInv, NotifyConsumer
    <2>2. Expired \notin Receivers
        BY ChannelAssumption
    <2>. QED BY <2>1, <2>2, ListsPopFront
<1>2. CASE WaitingR = {}
    BY <1>1, <1>2, NotifyConsumerMoves DEF VInv, ValuesAnnounced
<1>3. CASE WaitingR # {}
    <2>1. PICK x \in WaitingR : NotifiedOne(consumers) = {x}
        BY <1>1, <1>3
    <2>2. x \in Receivers /\ pc[x] = "waiting" /\ x \notin WokenR /\ s \notin Receivers
        BY ChannelAssumption DEF WaitingR, WokenR, At
    <2>3. WokenR' = WokenR \cup {x} /\ NotifyingS' = NotifyingS \ {s}
        BY <2>1, <2>2, NotifyConsumerMoves, ChannelAssumption DEF WokenR, NotifyingS, At, Tasks
    <2>4. /\ Cardinality(WokenR') = Cardinality(WokenR) + 1
          /\ Cardinality(WokenR) \in Nat /\ Cardinality(NotifyingS) \in Nat
        BY <2>2, <2>3, OneMore, AtFinite DEF WokenR, NotifyingS
    <2>5. /\ Cardinality(NotifyingS \ {s}) >= Cardinality(NotifyingS) - 1
          /\ Cardinality(NotifyingS \ {s}) \in Nat
        BY AtMostOneLess, AtFinite DEF NotifyingS
    <2>6. Cardinality(NotifyingS') = Cardinality(NotifyingS \ {s})
        BY <2>3
    <2>7. queue' = queue /\ Len(queue) \in Nat
        BY LenProperties DEF NotifyConsumer, IInv, TypeOK
    <2> QED BY <1>1, <1>3, <2>4, <2>5, <2>6, <2>7 DEF VInv, ValuesAnnounced
<1> QED BY <1>2, <1>3

\* Every step keeps VInv if no receiver is cancelled.
LEMMA NextVInv ==
    ASSUME Cancelable \cap Receivers = {}, IInv, VInv, [Next]_vars
    PROVE  VInv'
<1>0. pc \in [Tasks -> Location] /\ TypeOK /\ ValuesAnnounced /\ AllAlive(consumers)
    BY DEF IInv, TypeOK, VInv
<1>1. CASE UNCHANGED vars
    BY <1>1 DEF vars, VInv, ValuesAnnounced, WaitingR, NotifyingS, WokenR, At
<1>2. ASSUME NEW s \in Senders, Push(s) \/ TrySend(s)
      PROVE  VInv'
    <2>1. /\ Goes(s, "notify") /\ queue' = Append(queue, s) /\ consumers' = consumers
          /\ pc[s] # "notify"
        BY <1>2 DEF Push, TrySend, HasLock
    <2>2. s \notin NotifyingS /\ NotifyingS' = NotifyingS \cup {s}
          /\ WaitingR' = WaitingR /\ WokenR' = WokenR
        BY <1>0, <2>1, AnnouncersMove DEF Tasks, Location, NotifyingS, At
    <2>3. ValuesAnnounced'
        BY <1>0, <2>1, <2>2, PushAnnounces
    <2> QED BY <1>0, <2>1, <2>3 DEF VInv
<1>3. ASSUME NEW s \in Senders, Send(s) \/ PushClosed(s) \/ PushWait(s) \/ DropSender(s)
      PROVE  VInv'
    <2>1. PICK l \in Location \ {"notify"} : Goes(s, l)
        BY <1>3 DEF Send, PushClosed, PushWait, DropSender, Location
    <2>2. queue' = queue /\ consumers' = consumers /\ pc[s] # "notify"
        BY <1>3 DEF Send, PushClosed, PushWait, DropSender, HasLock
    <2>3. NotifyingS' = NotifyingS /\ WaitingR' = WaitingR /\ WokenR' = WokenR
        BY <1>0, <2>1, <2>2, AnnouncersMove DEF Tasks, NotifyingS, At
    <2>4. ValuesAnnounced'
        BY <1>0, <2>2, <2>3, ValuesSame
    <2> QED BY <1>0, <2>2, <2>4 DEF VInv
<1>4. ASSUME NEW s \in Senders, NEW u \in Senders, Clone(s, u)
      PROVE  VInv'
    <2>1. queue' = queue /\ consumers' = consumers /\ pc[u] # "notify" /\ Goes(u, "idle")
        BY <1>4 DEF Clone
    <2>2. NotifyingS' = NotifyingS /\ WaitingR' = WaitingR /\ WokenR' = WokenR
        BY <1>0, <2>1, AnnouncersMove DEF Tasks, NotifyingS, At, Location
    <2>3. ValuesAnnounced'
        BY <1>0, <2>1, <2>2, ValuesSame
    <2> QED BY <1>0, <2>1, <2>3 DEF VInv
<1>5. ASSUME NEW r \in Receivers, Pop(r)
      PROVE  VInv'
    <2>1. PICK l \in {"notify", "idle"} : Goes(r, l)
        BY <1>5 DEF Pop
    <2>2. /\ queue # <<>> /\ queue' = Tail(queue) /\ consumers' = consumers
          /\ pc[r] # "waiting"
        BY <1>5 DEF Pop, HasLock
    <2>3. NotifyingS' = NotifyingS /\ WaitingR' = WaitingR /\ WokenR' = WokenR \ {r}
        BY <1>0, <2>1, <2>2, AnnouncersMove DEF Tasks, WaitingR, At, Location
    <2>4. ValuesAnnounced'
        BY <1>0, <2>2, <2>3, PopAnnounces
    <2> QED BY <1>0, <2>2, <2>4 DEF VInv
<1>6. ASSUME NEW r \in Receivers, PopClosed(r) \/ PopWait(r)
      PROVE  VInv'
    <2>1. queue' = <<>>
        BY <1>6 DEF PopClosed, PopWait
    <2>2. AllAlive(consumers')
        <3>1. CASE consumers' = consumers
            BY <1>0, <3>1
        <3>2. CASE PopWait(r)
            <4>1. r \notin WaitingR
                BY <3>2 DEF PopWait, HasLock, WaitingR, At
            <4> QED BY <1>0, <3>2, <4>1, ListsEnqueue, ChannelAssumption
                    DEF IInv, TypeOK, WaitersEnqueued, PopWait
        <3> QED BY <1>6, <3>1, <3>2 DEF PopClosed
    <2>3. /\ Len(queue') = 0 /\ Cardinality(NotifyingS') \in Nat /\ Cardinality(WokenR') \in Nat
        <3>1. NotifyingS' \subseteq Senders /\ WokenR' \subseteq Receivers
            BY DEF NotifyingS, WokenR, At
        <3> QED BY <2>1, <3>1, EmptySeq, FS_Subset, FS_CardinalityType, ChannelAssumption
    <2> QED BY <2>2, <2>3 DEF VInv, ValuesAnnounced
<1>7. ASSUME NEW r \in Receivers, Receive(r)
      PROVE  VInv'
    <2>1. queue' = queue /\ consumers' = consumers /\ pc[r] = "idle" /\ Goes(r, "running")
        BY <1>7 DEF Receive
    <2>2. NotifyingS' = NotifyingS /\ WaitingR' = WaitingR /\ WokenR' = WokenR
        BY <1>0, <2>1, AnnouncersMove DEF Tasks, WaitingR, WokenR, At, Location
    <2>3. ValuesAnnounced'
        BY <1>0, <2>1, <2>2, ValuesSame
    <2> QED BY <1>0, <2>1, <2>3 DEF VInv
<1>8. ASSUME NEW r \in Receivers, NotifyProducer(r)
      PROVE  VInv'
    <2>1. queue' = queue /\ consumers' = consumers
        BY <1>8 DEF NotifyProducer
    <2>2. NotifyingS' = NotifyingS /\ WaitingR' = WaitingR /\ WokenR' = WokenR
        BY <1>8, NotifyProducerMoves, ChannelAssumption DEF Tasks, NotifyingS, WokenR, WaitingS, At
    <2>3. ValuesAnnounced'
        BY <1>0, <2>1, <2>2, ValuesSame
    <2> QED BY <1>0, <2>1, <2>3 DEF VInv
<1>9. ASSUME NEW x \in Cancelable, Cancel(x)
      PROVE  VInv'
    <2>1. x \in Senders /\ x # Expired /\ x \notin WaitingR
        BY ChannelAssumption DEF WaitingR, At
    <2>2. consumers' = consumers /\ queue' = queue /\ pc[x] = "waiting" /\ Goes(x, "idle")
        BY <1>9, <2>1, ListsExpire, ChannelAssumption DEF Cancel, IInv, TypeOK, WaitersEnqueued
    <2>3. NotifyingS' = NotifyingS /\ WaitingR' = WaitingR /\ WokenR' = WokenR
        BY <1>0, <2>1, <2>2, AnnouncersMove DEF Tasks, NotifyingS, At, Location
    <2>4. ValuesAnnounced'
        BY <1>0, <2>2, <2>3, ValuesSame
    <2> QED BY <1>0, <2>2, <2>4 DEF VInv
<1>10. CASE DropReceiver
    BY <1>0, <1>10 DEF DropReceiver, VInv, ValuesAnnounced, WaitingR, NotifyingS, WokenR, At
<1>11. CASE NotifyAllProducers
    <2>1. queue' = queue /\ consumers' = consumers
        BY <1>11 DEF NotifyAllProducers
    <2>2. NotifyingS' = NotifyingS /\ WaitingR' = WaitingR /\ WokenR' = WokenR
        BY <1>11, NotifyAllMoves, ChannelAssumption DEF Tasks, NotifyingS, WokenR, WaitingS, At
    <2>3. ValuesAnnounced'
        BY <1>0, <2>1, <2>2, ValuesSame
    <2> QED BY <1>0, <2>1, <2>3 DEF VInv
<1> QED BY <1>1, <1>2, <1>3, <1>4, <1>5, <1>6, <1>7, <1>8, <1>9, <1>10, <1>11, NotifyAnnounces
        DEF Next, SenderStep, ReceiverStep

\* If no receiver is cancelled, every value that waiting receivers leave in the queue
\* has a notification under way or a woken receiver.
THEOREM ChannelValuesAnnounced ==
    ASSUME Cancelable \cap Receivers = {}
    PROVE  Spec => []ValuesAnnounced
<1>1. Init => VInv
    <2> SUFFICES ASSUME Init PROVE VInv
        OBVIOUS
    <2>1. WaitingR = {} /\ AllAlive(consumers)
        BY ListsNobody, ChannelAssumption DEF Init, WaitingR, At, Tasks
    <2> QED BY <2>1 DEF VInv, ValuesAnnounced
<1>2. IInv /\ VInv /\ [Next]_vars => VInv'
    BY NextVInv
<1>3. VInv => ValuesAnnounced
    BY DEF VInv
<1> QED BY <1>1, <1>2, <1>3, ChannelInvariant, PTL DEF Spec

-----------------------------------------------------------------------------
\* Taking a value announces the room.
LEMMA PopMakesRoom ==
    ASSUME TypeOK, RoomAnnounced, NEW r \in Receivers, r \notin NotifyingR,
           queue # <<>>, queue' = Tail(queue), NotifyingR' = NotifyingR \cup {r},
           WaitingS' = WaitingS, WokenS' = WokenS, closed' = closed
    PROVE  RoomAnnounced'
<1>1. Len(queue') = Len(queue) - 1 /\ Len(queue) \in Nat
    BY HeadTailProperties, LenProperties DEF TypeOK
<1>2. /\ Cardinality(NotifyingR') = Cardinality(NotifyingR) + 1
      /\ Cardinality(NotifyingR) \in Nat /\ Cardinality(WokenS) \in Nat
    BY OneMore, AtFinite DEF NotifyingR, WokenS
<1> QED BY <1>1, <1>2, ChannelAssumption DEF RoomAnnounced

\* Pushing a value takes at most one announcement of room with it.
LEMMA PushTakesRoom ==
    ASSUME TypeOK, RoomAnnounced, NEW s \in Senders,
           queue' = Append(queue, s), NotifyingR' = NotifyingR,
           WaitingS' = WaitingS, WokenS' = WokenS \ {s}, closed' = closed
    PROVE  RoomAnnounced'
<1>1. Len(queue') = Len(queue) + 1 /\ Len(queue) \in Nat
    BY AppendProperties, LenProperties DEF TypeOK
<1>2. /\ Cardinality(WokenS \ {s}) >= Cardinality(WokenS) - 1
      /\ Cardinality(WokenS \ {s}) \in Nat /\ Cardinality(WokenS) \in Nat
      /\ Cardinality(NotifyingR) \in Nat
    BY AtMostOneLess, AtFinite DEF NotifyingR, WokenS
<1> QED BY <1>1, <1>2, ChannelAssumption DEF RoomAnnounced

\* A notification turns an announcement into a woken sender.
LEMMA NotifyRoom ==
    ASSUME IInv, RInv, NEW r \in Receivers, NotifyProducer(r)
    PROVE  RInv'
<1>1. /\ AllAlive(producers')
      /\ WaitingS # {} => \E x \in WaitingS : NotifiedOne(producers) = {x}
      /\ WaitingS' \subseteq WaitingS
    <2>1. /\ AllAlive(producers')
          /\ WaitingS # {} => \E x \in WaitingS : NotifiedOne(producers) = {x}
        BY ListsPopFront, ChannelAssumption
           DEF IInv, TypeOK, WaitersEnqueued, RInv, NotifyProducer
    <2>2. WaitingS' \subseteq WaitingS
        BY NotifyProducerMoves
    <2> QED BY <2>1, <2>2
<1>2. CASE WaitingS = {}
    BY <1>1, <1>2 DEF RInv, RoomAnnounced
<1>3. CASE WaitingS # {}
    <2>1. PICK x \in WaitingS : NotifiedOne(producers) = {x}
        BY <1>1, <1>3
    <2>2. x \in Senders /\ pc[x] = "waiting" /\ x \notin WokenS /\ r \notin Senders
        BY ChannelAssumption DEF WaitingS, WokenS, At
    <2>3. WokenS' = WokenS \cup {x} /\ NotifyingR' = NotifyingR \ {r}
        BY <2>1, <2>2, NotifyProducerMoves, ChannelAssumption DEF WokenS, NotifyingR, At, Tasks
    <2>4. /\ Cardinality(WokenS') = Cardinality(WokenS) + 1
          /\ Cardinality(WokenS) \in Nat /\ Cardinality(NotifyingR) \in Nat
        BY <2>2, <2>3, OneMore, AtFinite DEF WokenS, NotifyingR
    <2>5. /\ Cardinality(NotifyingR \ {r}) >= Cardinality(NotifyingR) - 1
          /\ Cardinality(NotifyingR \ {r}) \in Nat
        BY AtMostOneLess, AtFinite DEF NotifyingR
    <2>6. Cardinality(NotifyingR') = Cardinality(NotifyingR \ {r})
        BY <2>3
    <2>7. queue' = queue /\ Len(queue) \in Nat /\ closed' = closed
        BY LenProperties DEF NotifyProducer, IInv, TypeOK
    <2>8. RoomAnnounced'
        BY <1>3, <2>4, <2>5, <2>6, <2>7, ChannelAssumption DEF RInv, RoomAnnounced
    <2> QED BY <1>1, <1>3, <2>8 DEF RInv
<1> QED BY <1>2, <1>3

\* Every step keeps RInv if no sender is cancelled.
LEMMA NextRInv ==
    ASSUME Cancelable \cap Senders = {}, IInv, RInv, [Next]_vars
    PROVE  RInv'
<1>0. pc \in [Tasks -> Location] /\ TypeOK /\ RoomAnnounced /\ AllAlive(producers)
      /\ (~Bounded => WaitingS = {})
    BY DEF IInv, TypeOK, RInv
<1>1. CASE UNCHANGED vars
    BY <1>1 DEF vars, RInv, RoomAnnounced, WaitingS, NotifyingR, WokenS, At
<1>2. ASSUME NEW s \in Senders, Push(s) \/ TrySend(s)
      PROVE  RInv'
    <2>1. /\ Goes(s, "notify") /\ queue' = Append(queue, s) /\ producers' = producers
          /\ pc[s] # "waiting" /\ closed' = closed
        BY <1>2 DEF Push, TrySend, HasLock
    <2>2. NotifyingR' = NotifyingR /\ WaitingS' = WaitingS /\ WokenS' = WokenS \ {s}
        BY <1>0, <2>1, AnnouncersMove DEF Tasks, Location, WaitingS, At
    <2>3. RoomAnnounced'
        BY <1>0, <2>1, <2>2, PushTakesRoom
    <2> QED BY <1>0, <2>1, <2>2, <2>3 DEF RInv
<1>3. ASSUME NEW s \in Senders, Send(s) \/ DropSender(s)
      PROVE  RInv'
    <2>1. PICK l \in {"running", "closing", "gone"} : Goes(s, l)
        BY <1>3 DEF Send, DropSender
    <2>2. queue' = queue /\ producers' = producers /\ pc[s] = "idle"
        BY <1>3 DEF Send, DropSender
    <2>3. ~closed' => ~closed
        BY <1>3, Zenon DEF Send, DropSender
    <2>4. NotifyingR' = NotifyingR /\ WaitingS' = WaitingS /\ WokenS' = WokenS
        BY <1>0, <2>1, <2>2, AnnouncersMove DEF Tasks, Location, WaitingS, WokenS, At
    <2>5. RoomAnnounced'
        BY <1>0, <2>2, <2>4, <2>3, RoomSame
    <2> QED BY <1>0, <2>2, <2>4, <2>5 DEF RInv
<1>4. ASSUME NEW s \in Senders, PushClosed(s)
      PROVE  RInv'
    <2>1. Goes(s, "idle") /\ closed /\ closed' = closed /\ producers' = producers
          /\ pc[s] # "waiting"
        BY <1>4 DEF PushClosed, HasLock
    <2>2. WaitingS' = WaitingS
        BY <1>0, <2>1, AnnouncersMove DEF Tasks, Location, WaitingS, At
    <2> QED BY <1>0, <2>1, <2>2 DEF RInv, RoomAnnounced
<1>5. ASSUME NEW s \in Senders, PushWait(s)
      PROVE  RInv'
    <2>1. Bounded /\ Limit <= Len(queue) /\ Len(queue) \in Nat /\ queue' = queue
        BY <1>5, LenProperties, ChannelAssumption DEF PushWait, HasRoom, IInv, TypeOK
    <2>2. AllAlive(producers')
        <3>1. s \notin WaitingS
            BY <1>5 DEF PushWait, HasLock, WaitingS, At
        <3> QED BY <1>0, <1>5, <3>1, ListsEnqueue, ChannelAssumption
                DEF IInv, TypeOK, WaitersEnqueued, PushWait
    <2>3. Cardinality(NotifyingR') \in Nat /\ Cardinality(WokenS') \in Nat
        <3>1. NotifyingR' \subseteq Receivers /\ WokenS' \subseteq Senders
            BY DEF NotifyingR, WokenS, At
        <3> QED BY <3>1, FS_Subset, FS_CardinalityType, ChannelAssumption
    <2> QED BY <2>1, <2>2, <2>3, ChannelAssumption DEF RInv, RoomAnnounced
<1>6. ASSUME NEW s \in Senders, NEW u \in Senders, Clone(s, u)
      PROVE  RInv'
    <2>1. /\ queue' = queue /\ producers' = producers /\ closed' = closed
          /\ pc[u] = "absent" /\ Goes(u, "idle")
        BY <1>6 DEF Clone
    <2>2. NotifyingR' = NotifyingR /\ WaitingS' = WaitingS /\ WokenS' = WokenS
        BY <1>0, <2>1, AnnouncersMove DEF Tasks, WaitingS, WokenS, At, Location
    <2>3. RoomAnnounced'
        BY <1>0, <2>1, <2>2, RoomSame
    <2> QED BY <1>0, <2>1, <2>2, <2>3 DEF RInv
<1>7. ASSUME NEW s \in Senders, NotifyConsumer(s)
      PROVE  RInv'
    <2>1. queue' = queue /\ producers' = producers /\ closed' = closed
        BY <1>7 DEF NotifyConsumer
    <2>2. NotifyingR' = NotifyingR /\ WaitingS' = WaitingS /\ WokenS' = WokenS
        BY <1>7, NotifyConsumerMoves, ChannelAssumption DEF Tasks, NotifyingR, WokenS, WaitingR, At
    <2>3. RoomAnnounced'
        BY <1>0, <2>1, <2>2, RoomSame
    <2> QED BY <1>0, <2>1, <2>2, <2>3 DEF RInv
<1>8. ASSUME NEW r \in Receivers, Pop(r)
      PROVE  RInv'
    <2>1. /\ queue # <<>> /\ queue' = Tail(queue) /\ producers' = producers /\ closed' = closed
          /\ pc[r] # "notify" /\ Goes(r, IF Bounded THEN "notify" ELSE "idle")
        BY <1>8 DEF Pop, HasLock
    <2>2. CASE Bounded
        <3>1. r \notin NotifyingR /\ NotifyingR' = NotifyingR \cup {r}
              /\ WaitingS' = WaitingS /\ WokenS' = WokenS
            BY <1>0, <2>1, <2>2, AnnouncersMove DEF Tasks, Location, NotifyingR, At
        <3>2. RoomAnnounced'
            BY <1>0, <2>1, <3>1, PopMakesRoom
        <3> QED BY <1>0, <2>1, <3>1, <3>2 DEF RInv
    <2>3. CASE ~Bounded
        <3>1. WaitingS' = WaitingS
            BY <1>0, <2>1, <2>3, AnnouncersMove DEF Tasks, Location
        <3> QED BY <1>0, <2>1, <2>3, <3>1 DEF RInv, RoomAnnounced
    <2> QED BY <2>2, <2>3
<1>9. ASSUME NEW r \in Receivers, Receive(r) \/ PopClosed(r) \/ PopWait(r)
      PROVE  RInv'
    <2>1. PICK l \in {"running", "idle", "waiting"} : Goes(r, l)
        BY <1>9 DEF Receive, PopClosed, PopWait
    <2>2. queue' = queue /\ producers' = producers /\ closed' = closed /\ pc[r] # "notify"
        BY <1>9 DEF Receive, PopClosed, PopWait, HasLock
    <2>3. NotifyingR' = NotifyingR /\ WaitingS' = WaitingS /\ WokenS' = WokenS
        BY <1>0, <2>1, <2>2, AnnouncersMove DEF Tasks, Location, NotifyingR, At
    <2>4. RoomAnnounced'
        BY <1>0, <2>2, <2>3, RoomSame
    <2> QED BY <1>0, <2>2, <2>3, <2>4 DEF RInv
<1>10. ASSUME NEW x \in Cancelable, Cancel(x)
       PROVE  RInv'
    <2>1. x \in Receivers /\ x # Expired /\ x \notin WaitingS
        BY ChannelAssumption DEF WaitingS, At
    <2>2. /\ producers' = producers /\ queue' = queue /\ closed' = closed
          /\ pc[x] = "waiting" /\ Goes(x, "idle")
        BY <1>10, <2>1, ListsExpire, ChannelAssumption DEF Cancel, IInv, TypeOK, WaitersEnqueued
    <2>3. NotifyingR' = NotifyingR /\ WaitingS' = WaitingS /\ WokenS' = WokenS
        BY <1>0, <2>1, <2>2, AnnouncersMove DEF Tasks, NotifyingR, At, Location
    <2>4. RoomAnnounced'
        BY <1>0, <2>2, <2>3, RoomSame
    <2> QED BY <1>0, <2>2, <2>3, <2>4 DEF RInv
<1>11. CASE DropReceiver
    <2>1. closed' /\ producers' = producers /\ WaitingS' = WaitingS
        BY <1>11 DEF DropReceiver, WaitingS, At
    <2> QED BY <1>0, <2>1 DEF RInv, RoomAnnounced
<1>12. CASE NotifyAllProducers
    <2>1. WaitingS' = {} /\ producers' = <<>>
        BY <1>12, NotifyAllMoves DEF NotifyAllProducers
    <2>2. AllAlive(producers')
        BY <2>1, ListsNobody
    <2> QED BY <2>1, <2>2 DEF RInv, RoomAnnounced
<1> QED BY <1>1, <1>2, <1>3, <1>4, <1>5, <1>6, <1>7, <1>8, <1>9, <1>10, <1>11, <1>12, NotifyRoom
        DEF Next, SenderStep, ReceiverStep

\* If no sender is cancelled, every free place that waiting senders leave in the queue
\* has a notification under way or a woken sender.
THEOREM ChannelRoomAnnounced ==
    ASSUME Cancelable \cap Senders = {}
    PROVE  Spec => []RoomAnnounced
<1>1. Init => RInv
    <2> SUFFICES ASSUME Init PROVE RInv
        OBVIOUS
    <2>1. WaitingS = {} /\ AllAlive(producers)
        BY ListsNobody, ChannelAssumption DEF Init, WaitingS, At, Tasks
    <2> QED BY <2>1 DEF RInv, RoomAnnounced
<1>2. IInv /\ RInv /\ [Next]_vars => RInv'
    BY NextRInv
<1>3. RInv => RoomAnnounced
    BY DEF RInv
<1> QED BY <1>1, <1>2, <1>3, ChannelInvariant, PTL DEF Spec

-----------------------------------------------------------------------------
(***************************************************************************)
(* The closure reaches everybody, if one task uses the receiver            *)
(***************************************************************************)

Closing == At(Senders, {"closing"})

\* Who waits to receive on a closed channel will be told; no sender waits after
\* NotifyAllProducers, or on an unbounded channel.
CInv ==
    /\ closed /\ WaitingR # {} => Closing # {}
    /\ rx = "gone" \/ ~Bounded => WaitingS = {}

\* A step that tells nobody of the closure, and lets nobody wait.
LEMMA ClosureSame ==
    ASSUME CInv, closed' = closed, rx' = rx, Closing' = Closing,
           WaitingR' \subseteq WaitingR, WaitingS' \subseteq WaitingS
    PROVE  CInv'
BY DEF CInv

\* The one receiver that waits is the one that is notified.
LEMMA NotifyCloses ==
    ASSUME IInv, VInv, CInv, \A r, q \in Receivers : r = q,
           NEW s \in Senders, NotifyConsumer(s)
    PROVE  CInv'
<1>1. WaitingR' = {} /\ WaitingS' = WaitingS /\ rx' = rx
    <2>1. /\ consumers \in Seq(Receivers \cup {Expired}) /\ Lists(consumers, WaitingR)
          /\ AllAlive(consumers) /\ Expired \notin Receivers
        BY ChannelAssumption DEF IInv, TypeOK, WaitersEnqueued, VInv
    <2>2. WaitingR # {} => \E x \in WaitingR : NotifiedOne(consumers) = {x}
        BY <2>1, ListsPopFront
    <2>3. /\ WaitingR' = WaitingR \ NotifiedOne(consumers) /\ WaitingS' = WaitingS
          /\ rx' = rx
        BY NotifyConsumerMoves DEF NotifyConsumer
    <2>4. WaitingR \in SUBSET Receivers
        BY DEF WaitingR, At
    <2>. QED BY <2>2, <2>3, <2>4
<1>. QED BY <1>1 DEF CInv

\* Every step keeps CInv if no receiver is cancelled and there is one.
LEMMA NextCInv ==
    ASSUME Cancelable \cap Receivers = {}, \A r, q \in Receivers : r = q,
           IInv, VInv, CInv, [Next]_vars
    PROVE  CInv'
<1>0. pc \in [Tasks -> Location] /\ TypeOK /\ CInv
    BY DEF IInv, TypeOK
<1>1. CASE UNCHANGED vars
    BY <1>1 DEF vars, CInv, Closing, WaitingR, WaitingS, At
<1>2. ASSUME NEW x \in Tasks, pc[x] # "closing", closed' = closed, rx' = rx,
             NEW l \in {"idle", "running", "notify", "gone"}, Goes(x, l)
      PROVE  CInv'
    <2>1. \A y \in Tasks : pc'[y] = IF y = x THEN l ELSE pc[y]
        BY <1>0, <1>2 DEF Goes
    <2>2. Closing' = Closing
        BY <1>2, <2>1 DEF Closing, At, Tasks
    <2>3. WaitingR' \subseteq WaitingR /\ WaitingS' \subseteq WaitingS
        BY <1>2, <2>1 DEF WaitingR, WaitingS, At, Tasks
    <2>. QED BY <1>0, <1>2, <2>2, <2>3, ClosureSame
<1>3. ASSUME NEW s \in Senders, Push(s) \/ TrySend(s) \/ Send(s) \/ PushClosed(s)
      PROVE  CInv'
    <2>1. s \in Tasks /\ pc[s] # "closing" /\ closed' = closed /\ rx' = rx
          /\ \E l \in {"idle", "running", "notify", "gone"} : Goes(s, l)
        BY <1>3 DEF Push, TrySend, Send, PushClosed, HasLock, Tasks
    <2>. QED BY <1>2, <2>1
<1>4. ASSUME NEW s \in Senders, NEW u \in Senders, Clone(s, u)
      PROVE  CInv'
    BY <1>2, <1>4 DEF Clone, Tasks
<1>5. ASSUME NEW s \in Senders, PushWait(s)
      PROVE  CInv'
    <2>1. ~closed /\ closed' = closed /\ Bounded /\ rx' = rx
        BY <1>5 DEF PushWait, HasRoom
    <2>2. rx = "open"
        BY <2>1 DEF IInv, CountsHandles
    <2>. QED BY <2>1, <2>2 DEF CInv
<1>6. ASSUME NEW s \in Senders, DropSender(s)
      PROVE  CInv'
    <2>1. CASE senderCount = 1
        <3>1. \A y \in Tasks : pc'[y] = IF y = s THEN "closing" ELSE pc[y]
            BY <1>0, <1>6, <2>1 DEF DropSender, Goes, Tasks
        <3>2. s \in Closing' /\ WaitingS' \subseteq WaitingS /\ rx' = rx
            BY <1>6, <3>1 DEF DropSender, Closing, WaitingS, At, Tasks
        <3>. QED BY <1>0, <3>2 DEF CInv
    <2>2. CASE senderCount # 1
        BY <1>2, <1>6, <2>2 DEF DropSender, Tasks, IInv, TypeOK
    <2>. QED BY <2>1, <2>2
<1>7. ASSUME NEW r \in Receivers, Pop(r) \/ PopClosed(r) \/ Receive(r)
      PROVE  CInv'
    <2>1. r \in Tasks /\ pc[r] # "closing" /\ closed' = closed /\ rx' = rx
          /\ \E l \in {"idle", "running", "notify", "gone"} : Goes(r, l)
        BY <1>7 DEF Pop, PopClosed, Receive, HasLock, Tasks
    <2>. QED BY <1>2, <2>1
<1>8. ASSUME NEW r \in Receivers, PopWait(r)
      PROVE  CInv'
    <2>1. \A y \in Tasks : pc'[y] = IF y = r THEN "waiting" ELSE pc[y]
        BY <1>0, <1>8 DEF PopWait, Goes, Tasks
    <2>2. WaitingS' = WaitingS /\ ~closed' /\ rx' = rx
        BY <1>8, <2>1, ChannelAssumption DEF PopWait, WaitingS, At, Tasks
    <2>. QED BY <1>0, <2>2 DEF CInv
<1>9. ASSUME NEW r \in Receivers, NotifyProducer(r)
      PROVE  CInv'
    <2>1. /\ \A y \in Tasks : pc'[y] = IF y \in NotifiedOne(producers) THEN "woken"
                                       ELSE IF y = r THEN "idle" ELSE pc[y]
          /\ NotifiedOne(producers) \subseteq WaitingS /\ pc[r] = "notify"
        BY <1>9, NotifyProducerMoves DEF NotifyProducer
    <2>2. Closing' = Closing
        BY <2>1 DEF Closing, WaitingS, At, Tasks
    <2>3. WaitingR' \subseteq WaitingR /\ WaitingS' \subseteq WaitingS
        BY <2>1 DEF WaitingR, WaitingS, At, Tasks
    <2>. QED BY <1>0, <1>9, <2>2, <2>3, ClosureSame DEF NotifyProducer
<1>10. ASSUME NEW x \in Cancelable, Cancel(x)
       PROVE  CInv'
    BY <1>2, <1>10, ChannelAssumption DEF Cancel, Tasks
<1>11. CASE DropReceiver
    <2>1. pc' = pc /\ WaitingR = {} /\ rx' = IF Bounded THEN "closing" ELSE "gone"
        BY <1>11 DEF DropReceiver, WaitingR, At
    <2>. QED BY <1>0, <2>1 DEF CInv, WaitingR, WaitingS, At
<1>12. CASE NotifyAllProducers
    <2>1. WaitingR = {}
        BY <1>12 DEF NotifyAllProducers, IInv, ReceiverInUse, WaitingR, At
    <2>. QED BY <1>12, <2>1, NotifyAllMoves DEF CInv
<1>. QED BY <1>1, <1>3, <1>4, <1>5, <1>6, <1>7, <1>8, <1>9, <1>10, <1>11, <1>12, NotifyCloses
         DEF Next, SenderStep, ReceiverStep

\* With one task on the receiver, which is not cancelled, nobody waits on a closed channel
\* that has nothing more to notify.
THEOREM ChannelClosureAnnounced ==
    ASSUME Cancelable \cap Receivers = {}, \A r, q \in Receivers : r = q
    PROVE  Spec => []ClosureAnnounced
<1>1. Init => VInv /\ CInv
    <2> SUFFICES ASSUME Init PROVE VInv /\ CInv
        OBVIOUS
    <2>1. WaitingR = {} /\ WaitingS = {} /\ AllAlive(consumers) /\ ~closed
        BY ListsNobody, ChannelAssumption DEF Init, WaitingR, WaitingS, At, Tasks
    <2> QED BY <2>1 DEF VInv, ValuesAnnounced, CInv
<1>2. IInv /\ VInv /\ CInv /\ [Next]_vars => VInv' /\ CInv'
    BY NextVInv, NextCInv
<1>3. IInv /\ CInv => ClosureAnnounced
    <2> SUFFICES ASSUME IInv, CInv PROVE ClosureAnnounced
        OBVIOUS
    <2>1. ASSUME closed, WaitingS # {} PROVE rx = "closing"
        <3>1. Handles # {}
            BY <2>1, HandlesAre DEF WaitingS, At, NoHandle
        <3>. QED BY <2>1, <3>1 DEF IInv, TypeOK, CountsHandles, CInv
    <2>. QED BY <2>1 DEF ClosureAnnounced, CInv, Closing
<1> QED BY <1>1, <1>2, <1>3, ChannelInvariant, PTL DEF Spec
=============================================================================
