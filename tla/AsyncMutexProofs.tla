-------------------------- MODULE AsyncMutexProofs --------------------------
(***************************************************************************)
(* Proofs about AsyncMutex, for every set of tasks.                        *)
(***************************************************************************)
EXTENDS AsyncMutex, FiniteSetTheorems, SequenceTheorems, TLAPS

\* The token is in the channel exactly when nobody holds the mutex, and no two tasks
\* hold it.
Exclusive ==
    /\ \A t \in Tasks : pc[t] = "holding" => token = 0
    /\ token = 0 => \E t \in Tasks : pc[t] = "holding"
    /\ \A t, u \in Tasks : pc[t] = "holding" /\ pc[u] = "holding" => t = u

\* The waiting tasks are those in the continuations, each there once.
Enqueued ==
    /\ \A i \in 1..Len(consumers) : pc[consumers[i]] = "waiting"
    /\ \A i, j \in 1..Len(consumers) : consumers[i] = consumers[j] => i = j
    /\ \A t \in Tasks : pc[t] = "waiting" => \E i \in 1..Len(consumers) : consumers[i] = t

\* FreeIsAnnounced without the sets.
Announced ==
    \A t \in Tasks : pc[t] = "waiting" /\ token = 1
        => \E u \in Tasks : pc[u] \in {"notify", "woken"}

IInv == TypeOK /\ Exclusive /\ Enqueued /\ Announced

\* Nothing in the continuations has expired, so the front is what is notified.
LEMMA NotifiedHead ==
    ASSUME TypeOK
    PROVE  /\ consumers = <<>> => NotifiedOne(consumers) = {} /\ PopFront(consumers) = <<>>
           /\ consumers # <<>> =>
                /\ NotifiedOne(consumers) = {consumers[1]}
                /\ PopFront(consumers) = Tail(consumers)
                /\ consumers[1] \in Tasks
                /\ Len(consumers) \in Nat \ {0}
                /\ Tail(consumers) \in Seq(Tasks)
                /\ Len(Tail(consumers)) = Len(consumers) - 1
                /\ \A i \in 1..Len(Tail(consumers)) : Tail(consumers)[i] = consumers[i + 1]
<1>1. CASE consumers = <<>>
    BY <1>1 DEF NotifiedOne, PopFront
<1>2. CASE consumers # <<>>
    <2>1. consumers \in Seq(Tasks)
        BY DEF TypeOK
    <2>2. /\ Head(consumers) = consumers[1] /\ Head(consumers) \in Tasks
          /\ Tail(consumers) \in Seq(Tasks) /\ Len(consumers) \in Nat \ {0}
          /\ Len(Tail(consumers)) = Len(consumers) - 1
          /\ \A i \in 1..Len(Tail(consumers)) : Tail(consumers)[i] = consumers[i + 1]
        BY <1>2, <2>1, HeadTailProperties, EmptySeq, LenProperties
    <2>3. NotifiedOne(consumers) = {consumers[1]}
        BY <1>2, <2>2, MutexAssumption DEF NotifiedOne
    <2> QED BY <1>2, <2>2, <2>3 DEF PopFront
<1> QED BY <1>1, <1>2

\* Init establishes the invariant.
LEMMA InitIInv == Init => IInv
<1> SUFFICES ASSUME Init PROVE IInv
    OBVIOUS
<1>1. TypeOK
    BY EmptySeq DEF Init, TypeOK, Location
<1>2. Len(consumers) = 0
    BY EmptySeq DEF Init
<1> QED BY <1>1, <1>2 DEF Init, IInv, Exclusive, Enqueued, Announced

\* lock() starts: the task runs.
LEMMA LockIInv ==
    ASSUME IInv, NEW t \in Tasks, Lock(t)
    PROVE  IInv'
<1> USE DEF Goes
<1>1. TypeOK'
    BY DEF IInv, TypeOK, Lock, Location
<1>2. Exclusive' /\ Enqueued' /\ Announced'
    BY ElementOfSeq DEF IInv, TypeOK, Lock, Exclusive, Enqueued, Announced
<1> QED BY <1>1, <1>2 DEF IInv

\* pop() with the token there.
LEMMA TakeIInv ==
    ASSUME IInv, NEW t \in Tasks, Take(t)
    PROVE  IInv'
<1> USE DEF Goes
<1>1. token = 1 /\ token' = 0 /\ consumers' = consumers /\ pc[t] # "waiting"
    BY DEF IInv, TypeOK, Take, HasLock
<1>2. /\ \A u \in Tasks : pc'[u] = IF u = t THEN "holding" ELSE pc[u]
      /\ pc' \in [Tasks -> Location]
    BY DEF IInv, TypeOK, Take, Location
<1>3. TypeOK'
    BY <1>1, <1>2 DEF IInv, TypeOK
<1>4. Exclusive'
    BY <1>1, <1>2 DEF IInv, Exclusive
<1>5. Enqueued'
    BY <1>1, <1>2, ElementOfSeq DEF IInv, TypeOK, Enqueued
<1>6. Announced'
    BY <1>1 DEF Announced
<1> QED BY <1>3, <1>4, <1>5, <1>6 DEF IInv

\* pop() without the token: the task enqueues itself.
LEMMA WaitIInv ==
    ASSUME IInv, NEW t \in Tasks, Wait(t)
    PROVE  IInv'
<1>1. /\ token = 0 /\ token' = 0 /\ pc[t] \in {"running", "woken"}
      /\ consumers \in Seq(Tasks) /\ consumers' = Append(consumers, t)
    BY DEF IInv, TypeOK, Wait, HasLock, Enqueue
<1>2. /\ consumers' \in Seq(Tasks) /\ Len(consumers') = Len(consumers) + 1
      /\ Len(consumers) \in Nat /\ consumers'[Len(consumers) + 1] = t
      /\ \A i \in 1..Len(consumers) : consumers'[i] = consumers[i] /\ consumers[i] \in Tasks
    BY <1>1, AppendProperties, LenProperties, ElementOfSeq
<1>3. /\ \A u \in Tasks : pc'[u] = IF u = t THEN "waiting" ELSE pc[u]
      /\ pc' \in [Tasks -> Location]
    BY DEF IInv, TypeOK, Wait, Location, Goes
<1>4. TypeOK'
    BY <1>1, <1>2, <1>3 DEF TypeOK
<1>5. Exclusive'
    BY <1>1, <1>3 DEF IInv, Exclusive
<1>6. Enqueued'
    BY <1>1, <1>2, <1>3 DEF IInv, Enqueued
<1>7. Announced'
    BY <1>1 DEF Announced
<1> QED BY <1>4, <1>5, <1>6, <1>7 DEF IInv

\* try_push() by the task that holds the mutex: the queue has room.
LEMMA UnlockIInv ==
    ASSUME IInv, NEW t \in Tasks, Unlock(t)
    PROVE  IInv'
<1>1. token = 0 /\ token' = 1 /\ consumers' = consumers /\ pc[t] = "holding"
    BY DEF IInv, TypeOK, Unlock, Exclusive
<1>2. /\ \A u \in Tasks : pc'[u] = IF u = t THEN "notify" ELSE pc[u]
      /\ pc' \in [Tasks -> Location]
    BY <1>1 DEF IInv, TypeOK, Unlock, Location, Goes
<1>3. TypeOK'
    BY <1>1, <1>2 DEF IInv, TypeOK
<1>4. Exclusive'
    BY <1>1, <1>2 DEF IInv, Exclusive
<1>5. Enqueued'
    BY <1>1, <1>2, ElementOfSeq DEF IInv, TypeOK, Enqueued
<1>6. Announced'
    BY <1>2 DEF Announced
<1> QED BY <1>3, <1>4, <1>5, <1>6 DEF IInv

\* notify_one() resumes the front of the continuations, if any.
LEMMA NotifyIInv ==
    ASSUME IInv, NEW t \in Tasks, Notify(t)
    PROVE  IInv'
<1> DEFINE W == NotifiedOne(consumers)
<1>1. /\ token' = token /\ pc[t] = "notify" /\ TypeOK
      /\ consumers' = PopFront(consumers)
      /\ pc' = [u \in Tasks |-> IF u \in W THEN "woken" ELSE IF u = t THEN "idle" ELSE pc[u]]
    BY DEF IInv, Notify
<1>2. pc' \in [Tasks -> Location]
    BY <1>1 DEF TypeOK, Location
<1>3. CASE consumers = <<>>
    <2>1. W = {} /\ consumers' = consumers /\ Len(consumers) = 0
        BY <1>1, <1>3, NotifiedHead, EmptySeq
    <2>2. \A u \in Tasks : pc'[u] = IF u = t THEN "idle" ELSE pc[u]
        BY <1>1, <2>1
    <2>3. TypeOK'
        BY <1>1, <1>2, <2>1 DEF TypeOK
    <2>4. Exclusive' /\ Enqueued'
        BY <1>1, <2>1, <2>2 DEF IInv, Exclusive, Enqueued
    <2>5. Announced'
        BY <2>1, <2>2 DEF IInv, Enqueued, Announced
    <2> QED BY <2>3, <2>4, <2>5 DEF IInv
<1>4. CASE consumers # <<>>
    <2> DEFINE h == consumers[1]
    <2>1. /\ W = {h} /\ h \in Tasks /\ Len(consumers) \in Nat \ {0}
          /\ consumers' \in Seq(Tasks) /\ Len(consumers') = Len(consumers) - 1
          /\ \A i \in 1..Len(consumers') : consumers'[i] = consumers[i + 1]
        BY <1>1, <1>4, NotifiedHead
    <2>2. pc[h] = "waiting" /\ h # t
        BY <1>1, <2>1 DEF IInv, Enqueued
    <2>3. /\ \A u \in Tasks : pc'[u] = IF u = h THEN "woken" ELSE IF u = t THEN "idle" ELSE pc[u]
          /\ \A i \in 1..Len(consumers) : consumers[i] \in Tasks
        BY <1>1, <2>1, ElementOfSeq DEF TypeOK
    <2>4. TypeOK'
        BY <1>1, <1>2, <2>1 DEF TypeOK
    <2>5. Exclusive'
        <3>1. \A u \in Tasks : pc'[u] = "holding" <=> pc[u] = "holding"
            BY <1>1, <2>2, <2>3
        <3> QED BY <1>1, <3>1 DEF IInv, Exclusive
    <2>6. Enqueued'
        <3> HIDE DEF h, W
        <3>0. h = consumers[1]
            BY DEF h
        <3>1. \A i \in 1..Len(consumers') :
                /\ i + 1 \in 1..Len(consumers) /\ consumers[i + 1] # h
                /\ consumers'[i] = consumers[i + 1]
            <4> TAKE i \in 1..Len(consumers')
            <4>1. i + 1 \in 1..Len(consumers) /\ 1 \in 1..Len(consumers) /\ i + 1 # 1
                BY <2>1
            <4> QED BY <2>1, <3>0, <4>1 DEF IInv, Enqueued
        <3>2. \A i \in 1..Len(consumers') : pc'[consumers'[i]] = "waiting"
            BY <1>1, <2>3, <3>1 DEF IInv, Enqueued
        <3>3. \A i, j \in 1..Len(consumers') : consumers'[i] = consumers'[j] => i = j
            <4> TAKE i, j \in 1..Len(consumers')
            <4>1. consumers[i + 1] = consumers[j + 1] => i + 1 = j + 1
                BY <3>1 DEF IInv, Enqueued
            <4> QED BY <2>1, <3>1, <4>1
        <3>4. ASSUME NEW u \in Tasks, pc'[u] = "waiting"
              PROVE  \E i \in 1..Len(consumers') : consumers'[i] = u
            <4>1. u # h /\ pc[u] = "waiting"
                BY <2>3, <3>4
            <4>2. PICK j \in 1..Len(consumers) : consumers[j] = u
                BY <4>1 DEF IInv, Enqueued
            <4>3. j # 1
                BY <3>0, <4>1, <4>2
            <4>4. j - 1 \in 1..Len(consumers') /\ (j - 1) + 1 = j
                BY <2>1, <4>2, <4>3
            <4>5. consumers'[j - 1] = u
                BY <2>1, <4>2, <4>4
            <4> QED BY <4>4, <4>5
        <3> QED BY <3>2, <3>3, <3>4 DEF Enqueued
    <2>7. Announced'
        BY <2>1, <2>3 DEF Announced
    <2> QED BY <2>4, <2>5, <2>6, <2>7 DEF IInv
<1> QED BY <1>3, <1>4

\* Every step keeps the invariant.
LEMMA NextIInv == IInv /\ [Next]_vars => IInv'
<1> SUFFICES ASSUME IInv, [Next]_vars PROVE IInv'
    OBVIOUS
<1>1. CASE UNCHANGED vars
    BY <1>1 DEF vars, IInv, TypeOK, Exclusive, Enqueued, Announced
<1>2. CASE Next
    <2>1. PICK t \in Tasks : Lock(t) \/ Step(t)
        BY <1>2 DEF Next
    <2> QED BY <2>1, LockIInv, TakeIInv, WaitIInv, UnlockIInv, NotifyIInv DEF Step
<1> QED BY <1>1, <1>2

\* The inductive invariant holds in every behaviour.
THEOREM MutexInvariant == Spec => []IInv
BY InitIInv, NextIInv, PTL DEF Spec

\* The variables keep their types: unlock() never puts a second token.
THEOREM MutexTypeOK == Spec => []TypeOK
<1>1. IInv => TypeOK
    BY DEF IInv
<1> QED BY <1>1, MutexInvariant, PTL

\* The token is in the channel or with exactly one task.
THEOREM MutexOneToken == Spec => []OneToken
<1>1. IInv => OneToken
    <2> SUFFICES ASSUME IInv PROVE OneToken
        OBVIOUS
    <2>1. CASE \E t \in Tasks : pc[t] = "holding"
        <3>1. PICK t \in Tasks : pc[t] = "holding"
            BY <2>1
        <3>2. At({"holding"}) = {t} /\ token = 0
            BY <3>1 DEF IInv, Exclusive, At
        <3>3. Cardinality({t}) = 1
            BY FS_Singleton, Zenon
        <3> QED BY <3>2, <3>3 DEF OneToken
    <2>2. CASE ~ \E t \in Tasks : pc[t] = "holding"
        <3>1. At({"holding"}) = {} /\ token = 1
            BY <2>2 DEF IInv, TypeOK, Exclusive, At
        <3> QED BY <3>1, FS_EmptySet DEF OneToken
    <2> QED BY <2>1, <2>2
<1> QED BY <1>1, MutexInvariant, PTL

\* A free mutex that a task waits for has somebody who will see to it.
THEOREM MutexFreeIsAnnounced == Spec => []FreeIsAnnounced
<1>1. IInv => FreeIsAnnounced
    BY DEF IInv, Announced, FreeIsAnnounced, At
<1> QED BY <1>1, MutexInvariant, PTL

\* AsyncMutex implements LockSpec: lock() requests and acquires, unlock() releases,
\* and the notifications and the waiting are stutters.
THEOREM MutexIsLock == Spec => IsLock
<1> DEFINE owners == At({"holding"})
           requests == At({"running", "waiting", "woken"})
<1>1. Init => Abs!Init
    BY DEF Init, Abs!Init, At
<1>2. ASSUME IInv, [Next]_vars
      PROVE  [Abs!Next]_Abs!vars
    <2>1. CASE UNCHANGED vars
        BY <2>1 DEF vars, Abs!vars, At
    <2>2. ASSUME NEW t \in Tasks, Lock(t)
          PROVE  Abs!Request(t)
        <3>1. \A u \in Tasks : pc'[u] = IF u = t THEN "running" ELSE pc[u]
            BY <1>2, <2>2 DEF IInv, TypeOK, Lock, Goes
        <3> QED BY <2>2, <3>1 DEF Lock, Abs!Request, At
    <2>3. ASSUME NEW t \in Tasks, Take(t)
          PROVE  Abs!Acquire(t)
        <3>1. \A u \in Tasks : pc'[u] = IF u = t THEN "holding" ELSE pc[u]
            BY <1>2, <2>3 DEF IInv, TypeOK, Take, Goes
        <3>2. pc[t] \in {"running", "woken"} /\ \A u \in Tasks : pc[u] # "holding"
            BY <1>2, <2>3 DEF IInv, Exclusive, Take, HasLock
        <3> QED BY <3>1, <3>2 DEF Abs!Acquire, At
    <2>4. ASSUME NEW t \in Tasks, Wait(t)
          PROVE  UNCHANGED Abs!vars
        <3>1. \A u \in Tasks : pc'[u] = IF u = t THEN "waiting" ELSE pc[u]
            BY <1>2, <2>4 DEF IInv, TypeOK, Wait, Goes
        <3> QED BY <2>4, <3>1 DEF Wait, HasLock, Abs!vars, At
    <2>5. ASSUME NEW t \in Tasks, Unlock(t)
          PROVE  Abs!Release(t)
        <3>1. /\ pc[t] = "holding" /\ token = 0
              /\ \A u \in Tasks : pc'[u] = IF u = t THEN "notify" ELSE pc[u]
            BY <1>2, <2>5 DEF IInv, TypeOK, Exclusive, Unlock, Goes
        <3> QED BY <3>1 DEF Abs!Release, At
    <2>6. ASSUME NEW t \in Tasks, Notify(t)
          PROVE  UNCHANGED Abs!vars
        <3>1. /\ pc[t] = "notify"
              /\ \A u \in Tasks : pc'[u] = IF u \in NotifiedOne(consumers) THEN "woken"
                                           ELSE IF u = t THEN "idle" ELSE pc[u]
            BY <2>6 DEF Notify
        <3>2. \A u \in Tasks \cap NotifiedOne(consumers) : pc[u] = "waiting"
            <4>1. CASE consumers = <<>>
                BY <1>2, <4>1, NotifiedHead DEF IInv
            <4>2. CASE consumers # <<>>
                BY <1>2, <4>2, NotifiedHead DEF IInv, Enqueued
            <4> QED BY <4>1, <4>2
        <3> QED BY <3>1, <3>2 DEF Abs!vars, At
    <2> QED BY <1>2, <2>1, <2>2, <2>3, <2>4, <2>5, <2>6 DEF Next, Step, Abs!Next
<1> QED BY <1>1, <1>2, MutexInvariant, PTL DEF Spec, IsLock, Abs!Spec
=============================================================================
