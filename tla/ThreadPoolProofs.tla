-------------------------- MODULE ThreadPoolProofs --------------------------
(***************************************************************************)
(* Theorems about ThreadPool, for every set of threads, every set of       *)
(* outside owners of external work, every batch size and every bound.      *)
(***************************************************************************)
EXTENDS ThreadPool, FiniteSetTheorems, SequenceTheorems, TLAPS

-----------------------------------------------------------------------------
(***************************************************************************)
(* Facts about the helpers                                                 *)
(***************************************************************************)

\* What a notification does to the locations of the threads: some that sleep in
\* cv.wait start the loop again, every other one stays where it is.
Woken(p, q) ==
    /\ q \in [Threads -> Location]
    /\ \A t \in Threads : q[t] = p[t] \/ (p[t] \in Asleep /\ q[t] = "take")

\* cv.notify_one() wakes at most one sleeping thread and disturbs no other.
LEMMA NotifyOneWakes ==
    ASSUME NEW p \in [Threads -> Location], NEW q \in NotifyOne(p)
    PROVE  Woken(p, q)
<1>1. CASE Waiters(p) = {}
    BY <1>1 DEF NotifyOne, Woken
<1>2. CASE Waiters(p) # {}
    <2>1. PICK t \in Waiters(p) : q = [p EXCEPT ![t] = "take"]
        BY <1>2 DEF NotifyOne
    <2>2. t \in Threads /\ p[t] \in Asleep /\ "take" \in Location
        BY <2>1 DEF Waiters, Location, InLoop
    <2>. QED BY <2>1, <2>2 DEF Woken
<1>. QED BY <1>1, <1>2

\* cv.notify_all() wakes sleeping threads only.
LEMMA NotifyAllWakes ==
    ASSUME NEW p \in [Threads -> Location]
    PROVE  Woken(p, NotifyAll(p))
BY DEF Woken, NotifyAll, Location, InLoop

\* A sequence without its last element.
LEMMA FrontProperties ==
    ASSUME NEW S, NEW s \in Seq(S), s # <<>>
    PROVE  /\ Front(s) \in Seq(S)
           /\ Len(Front(s)) = Len(s) - 1
           /\ \A i \in 1..(Len(s) - 1) : Front(s)[i] = s[i]
           /\ Last(s) = s[Len(s)] /\ Len(s) \in 1..Len(s) /\ Last(s) \in S
<1>1. Len(s) \in Nat \ {0} /\ \A i \in 1..Len(s) : s[i] \in S
    BY EmptySeq, ElementOfSeq
<1>2. /\ SubSeq(s, 1, Len(s) - 1) \in Seq(S)
      /\ Len(SubSeq(s, 1, Len(s) - 1)) = Len(s) - 1
      /\ \A i \in 1..(Len(s) - 1) : SubSeq(s, 1, Len(s) - 1)[i] = s[i]
    <2>. DEFINE n == Len(s) - 1
    <2>1. n \in Int /\ n >= 0 /\ 1 \in Int /\ n - 1 + 1 = n
          /\ \A i \in 1..n : s[i] \in S /\ 1 + i - 1 = i
        BY <1>1
    <2>. HIDE DEF n
    <2>2. /\ SubSeq(s, 1, n) \in Seq(S)
          /\ Len(SubSeq(s, 1, n)) = IF 1 <= n THEN n - 1 + 1 ELSE 0
          /\ \A i \in 1..(n - 1 + 1) : SubSeq(s, 1, n)[i] = s[1 + i - 1]
        BY <2>1, SubSeqProperties
    <2>3. Len(SubSeq(s, 1, n)) = n
        BY <2>1, <2>2
    <2>. QED BY <2>1, <2>2, <2>3 DEF n
<1>. QED BY <1>1, <1>2 DEF Front, Last

\* A sequence with one element inserted.
LEMMA InsertAtProperties ==
    ASSUME NEW S, NEW s \in Seq(S), NEW e \in S, NEW k \in 1..(Len(s) + 1)
    PROVE  /\ InsertAt(s, k, e) \in Seq(S)
           /\ Len(InsertAt(s, k, e)) = Len(s) + 1
           /\ \A i \in 1..(Len(s) + 1) :
                  InsertAt(s, k, e)[i] =
                      IF i < k THEN s[i] ELSE IF i = k THEN e ELSE s[i - 1]
<1>. DEFINE a == SubSeq(s, 1, k - 1)
            b == SubSeq(s, k, Len(s))
<1>1. a \in Seq(S) /\ Len(a) = k - 1 /\ \A i \in 1..(k - 1) : a[i] = s[i]
    BY SubSeqProperties, ElementOfSeq
<1>2. b \in Seq(S) /\ Len(b) = Len(s) - k + 1 /\ \A i \in 1..(Len(s) - k + 1) : b[i] = s[k + i - 1]
    BY SubSeqProperties, ElementOfSeq
<1>3. /\ a \o <<e>> \in Seq(S) /\ Len(a \o <<e>>) = k
      /\ \A i \in 1..k : (a \o <<e>>)[i] = IF i < k THEN s[i] ELSE e
    <2>. HIDE DEF a
    <2>. DEFINE o == <<e>>
    <2>1. o \in Seq(S) /\ Len(o) = 1 /\ o[1] = e
        OBVIOUS
    <2>. HIDE DEF o
    <2>2. a \o o \in Seq(S) /\ Len(a \o o) = Len(a) + Len(o)
        BY <1>1, <2>1, ConcatProperties
    <2>3. \A i \in 1..(Len(a) + Len(o)) :
              (a \o o)[i] = IF i <= Len(a) THEN a[i] ELSE o[i - Len(a)]
        BY <1>1, <2>1, ConcatProperties
    <2>. QED BY <1>1, <2>1, <2>2, <2>3 DEF o
<1>. HIDE DEF a, b
<1>. DEFINE c == a \o <<e>>
<1>4. InsertAt(s, k, e) = c \o b
    BY DEF InsertAt, a, b
<1>5. c \in Seq(S) /\ Len(c) = k /\ \A i \in 1..k : c[i] = IF i < k THEN s[i] ELSE e
    BY <1>3
<1>. HIDE DEF c
<1>6. /\ c \o b \in Seq(S) /\ Len(c \o b) = Len(s) + 1
      /\ \A i \in 1..(Len(s) + 1) : (c \o b)[i] = IF i <= k THEN c[i] ELSE b[i - k]
    BY <1>2, <1>5, ConcatProperties
<1>7. ASSUME NEW i \in 1..(Len(s) + 1)
      PROVE  (c \o b)[i] = IF i < k THEN s[i] ELSE IF i = k THEN e ELSE s[i - 1]
    <2>1. CASE i <= k
        BY <2>1, <1>5, <1>6
    <2>2. CASE ~(i <= k)
        <3>1. i - k \in 1..(Len(s) - k + 1) /\ k + (i - k) - 1 = i - 1
            BY <2>2
        <3>. QED BY <2>2, <3>1, <1>2, <1>6, SMTT(30)
    <2>. QED BY <2>1, <2>2
<1>. QED BY <1>4, <1>6, <1>7

\* The work one visit to the queue takes, and the work it leaves.
LEMMA TakenProperties ==
    ASSUME tasks \in Seq(Threads), due \in Seq(Threads), Batch \in Nat \ {0}
    PROVE  /\ TakeCount \in 0..Len(tasks)
           /\ Taken \in Seq(Threads)
           /\ Len(Taken) = TakeCount + Len(due)
           /\ \A i \in 1..TakeCount : Taken[i] = tasks[i]
           /\ \A i \in 1..Len(due) : Taken[TakeCount + i] = due[i]
           /\ SubSeq(tasks, TakeCount + 1, Len(tasks)) \in Seq(Threads)
           /\ Len(SubSeq(tasks, TakeCount + 1, Len(tasks))) = Len(tasks) - TakeCount
           /\ \A i \in 1..(Len(tasks) - TakeCount) :
                  SubSeq(tasks, TakeCount + 1, Len(tasks))[i] = tasks[TakeCount + i]
<1>1. TakeCount \in 0..Len(tasks)
    BY DEF TakeCount
<1>. DEFINE n == TakeCount
            a == SubSeq(tasks, 1, n)
            b == SubSeq(tasks, n + 1, Len(tasks))
<1>. HIDE DEF n
<1>2. n \in 0..Len(tasks)
    BY <1>1 DEF n
<1>3. a \in Seq(Threads) /\ Len(a) = n /\ \A i \in 1..n : a[i] = tasks[i]
    BY <1>2, SubSeqProperties, ElementOfSeq
<1>4. /\ b \in Seq(Threads) /\ Len(b) = Len(tasks) - n
      /\ \A i \in 1..(Len(tasks) - n) : b[i] = tasks[n + i]
    BY <1>2, SubSeqProperties, ElementOfSeq
<1>. HIDE DEF a, b
<1>5. /\ a \o due \in Seq(Threads) /\ Len(a \o due) = n + Len(due)
      /\ \A i \in 1..n : (a \o due)[i] = a[i]
      /\ \A i \in 1..Len(due) : (a \o due)[n + i] = due[i]
    <2>1. /\ a \o due \in Seq(Threads) /\ Len(a \o due) = n + Len(due)
          /\ \A i \in 1..(n + Len(due)) :
                 (a \o due)[i] = IF i <= n THEN a[i] ELSE due[i - n]
        BY <1>3, ConcatProperties
    <2>2. Len(due) \in Nat
        OBVIOUS
    <2>. QED BY <1>2, <2>1, <2>2
<1>6. Taken = a \o due
    BY DEF Taken, a, n
<1>. QED BY <1>1, <1>3, <1>4, <1>5, <1>6 DEF b, n

-----------------------------------------------------------------------------
(***************************************************************************)
(* The inductive invariant                                                 *)
(***************************************************************************)

Registered == {t \in Threads : pc[t] \in InLoop \cup {"leave"}}

\* The two counters count what they are meant to count.
Counts ==
    /\ externalWork = Cardinality(counted)
    /\ activeThreads = Cardinality(Registered)

\* A thread has coroutines on its stack only where block_on resumes them.
RunsWhereItMay ==
    \A t \in Threads : /\ run[t] # <<>> => pc[t] \in {"start", "run"}
                       /\ batch[t] # <<>> => pc[t] = "run"

\* A blocked coroutine still holds its unit of external work.
BlockedCounts == blocked \subseteq counted

\* Only a root that has started can be done.
DoneStarted == done \subseteq Started

IInv ==
    /\ TypeOK /\ Counts
    /\ RunsWhereItMay /\ BlockedCounts /\ DoneStarted
    /\ Inv1 /\ NoOrphanedWork

\* Every subset of the agents is finite.
LEMMA AgentsFinite ==
    /\ IsFiniteSet(Agents)
    /\ \A S \in SUBSET Agents : IsFiniteSet(S) /\ Cardinality(S) \in Nat
    /\ \A S \in SUBSET Threads : IsFiniteSet(S) /\ Cardinality(S) \in Nat
<1>1. IsFiniteSet(Agents)
    BY PoolAssumption, FS_Union DEF Agents
<1>. QED BY <1>1, PoolAssumption, FS_Subset, FS_CardinalityType

\* Initially nothing has started, and every holder has its unit of work.
THEOREM InitIInv == Init => IInv
<1>. SUFFICES ASSUME Init PROVE IInv
    OBVIOUS
<1>1. Registered = {}
    BY DEF Init, Registered, InLoop, Asleep
<1>2. Cardinality(Holders) \in Nat
    BY AgentsFinite DEF Agents
<1>3. TypeOK
    BY <1>2, PoolAssumption DEF Init, TypeOK, Location, InLoop, Agents
<1>4. Counts
    BY <1>1, FS_EmptySet DEF Init, Counts
<1>5. Started = {} /\ Unfinished = {}
    BY DEF Init, Started, Unfinished
<1>6. \A q \in Queues, t \in Threads : Content(q, t) = <<>>
    BY DEF Init, Content, Queues
<1>7. Inv1
    BY <1>5, <1>6 DEF Inv1, NothingLost, NothingStale, NothingTwice, ToSet, Init
<1>8. RunsWhereItMay /\ BlockedCounts /\ DoneStarted /\ NoOrphanedWork
    BY <1>5 DEF Init, RunsWhereItMay, BlockedCounts, DoneStarted, NoOrphanedWork
<1>. QED BY <1>3, <1>4, <1>7, <1>8 DEF IInv

\* Notifications change neither the set of registered threads nor the set of
\* started coroutines, and leave no thread of the loop outside it.
LEMMA WokenKeeps ==
    ASSUME TypeOK, Woken(pc, pc')
    PROVE  /\ Registered' = Registered /\ Started' = Started
           /\ \A t \in Threads : pc[t] \in InLoop \cup {"start"} => pc'[t] \in InLoop \cup {"start"}
           /\ \A t \in Threads : pc[t] \in {"start", "run"} => pc'[t] = pc[t]
BY DEF TypeOK, Woken, Registered, Started, InLoop, Asleep, Location

\* What is left of the stack of thread t when its innermost coroutine suspends.
LEMMA PoppedProperties ==
    ASSUME TypeOK, NEW t \in Threads, NEW x \in Threads, Innermost(t, x)
    PROVE  /\ Popped(t) \in [Threads -> Seq(Threads)]
           /\ \A u \in Threads \ {t} : Popped(t)[u] = run[u]
           /\ Len(run[t]) \in Nat \ {0} /\ run[t][Len(run[t])] = x
           /\ Len(Popped(t)[t]) = Len(run[t]) - 1
           /\ \A i \in 1..(Len(run[t]) - 1) : Popped(t)[t][i] = run[t][i]
<1>1. run[t] \in Seq(Threads) /\ run[t] # <<>> /\ x = Last(run[t])
    BY DEF TypeOK, Innermost
<1>2. Popped(t) = [run EXCEPT ![t] = Front(run[t])]
    BY DEF Popped
<1>3. Front(run[t]) \in Seq(Threads)
    BY <1>1, FrontProperties
<1>4. /\ Popped(t) \in [Threads -> Seq(Threads)]
      /\ Popped(t)[t] = Front(run[t])
      /\ \A u \in Threads \ {t} : Popped(t)[u] = run[u]
    BY <1>2, <1>3 DEF TypeOK
<1>. QED BY <1>1, <1>4, FrontProperties, EmptySeq, SMTT(30)

\* A thread changes its own location only, within or outside the loop.
LEMMA RegisteredMoves ==
    ASSUME TypeOK, NEW t \in Threads, NEW l \in Location, pc' = [pc EXCEPT ![t] = l]
    PROVE  Registered' = IF l \in InLoop \cup {"leave"} THEN Registered \cup {t}
                                                        ELSE Registered \ {t}
BY DEF TypeOK, Registered

\* What Drain does to the locations.
LEMMA DrainMoves ==
    ASSUME TypeOK, NEW t \in Threads, Drain(t)
    PROVE  /\ pc' \in [Threads -> Location]
           /\ pc'[t] \in {"result", "parking"}
           /\ \A u \in Threads \ {t} : pc'[u] = pc[u] \/ (pc[u] \in Asleep /\ pc'[u] = "take")
           /\ Registered' = Registered
<1>1. CASE AllLeft
    <2>1. pc' = [pc EXCEPT ![t] = "result"] /\ pc[t] = "drain"
        BY <1>1 DEF Drain
    <2>. QED BY <2>1 DEF TypeOK, Location, InLoop, Asleep, Registered
<1>2. CASE ~AllLeft
    <2>1. pc' = [NotifyAll(pc) EXCEPT ![t] = "parking"] /\ pc[t] = "drain"
        BY <1>2 DEF Drain
    <2>2. Woken(pc, NotifyAll(pc))
        BY NotifyAllWakes DEF TypeOK
    <2>. QED BY <2>1, <2>2 DEF Woken, TypeOK, Location, InLoop, Asleep, Registered
<1>. QED BY <1>1, <1>2

\* What Announce does to the locations.
LEMMA AnnounceMoves ==
    ASSUME TypeOK, NEW t \in Threads, Announce(t)
    PROVE  /\ pc' \in [Threads -> Location]
           /\ pc'[t] = "drain"
           /\ \A u \in Threads \ {t} : pc'[u] = pc[u] \/ (pc[u] = "parked" /\ pc'[u] = "drain")
           /\ Registered' = Registered
<1>1. pc' = [Unpark(pc) EXCEPT ![t] = "drain"] /\ pc[t] = "announce"
    BY DEF Announce
<1>. QED BY <1>1 DEF Unpark, TypeOK, Location, InLoop, Asleep, Registered

\* What Take does to the locations.
LEMMA TakeMoves ==
    ASSUME TypeOK, NEW t \in Threads, Take(t)
    PROVE  /\ pc' \in [Threads -> Location]
           /\ pc'[t] = IF Taken = <<>> THEN "check" ELSE "run"
           /\ \A u \in Threads \ {t} : pc'[u] = pc[u] \/ (pc[u] \in Asleep /\ pc'[u] = "take")
           /\ Registered' = Registered
<1>1. PICK p \in IF Len(tasks) > TakeCount THEN NotifyOne(pc) ELSE {pc} :
          pc' = [p EXCEPT ![t] = IF Taken = <<>> THEN "check" ELSE "run"]
    BY DEF Take
<1>2. Woken(pc, p)
    BY NotifyOneWakes DEF TypeOK, Woken
<1>3. pc[t] = "take"
    BY DEF Take
<1>. QED BY <1>1, <1>2, <1>3 DEF Woken, TypeOK, Location, InLoop, Asleep, Registered

-----------------------------------------------------------------------------
(***************************************************************************)
(* Types and counters                                                      *)
(***************************************************************************)

\* Every step keeps the types and the meaning of the two counters.
LEMMA TypeStep ==
    ASSUME TypeOK, Counts, [Next]_vars
    PROVE  TypeOK' /\ Counts'
<1>. USE DEF ready, work, leaving
<1>1. ASSUME NEW t \in Threads, NEW x \in Threads, Yield(t, x)
      PROVE  TypeOK' /\ Counts'
    <2>1. Woken(pc, pc')
        BY <1>1, NotifyOneWakes DEF Yield, TypeOK
    <2>2. Innermost(t, x) /\ run' = Popped(t) /\ left[x] > 0 /\ left' = [left EXCEPT ![x] = @ - 1]
        BY <1>1 DEF Yield, Runs, Suspends
    <2>3. Popped(t) \in [Threads -> Seq(Threads)]
        BY <2>2, PoppedProperties
    <2>4. left' \in [Threads -> Nat]
        BY <2>2 DEF TypeOK
    <2>5. TypeOK'
        BY <1>1, <2>1, <2>2, <2>3, <2>4, SMTT(30) DEF TypeOK, Yield, Woken
    <2>. QED BY <1>1, <2>1, <2>5, WokenKeeps DEF Counts, Yield
<1>2. ASSUME NEW t \in Threads, NEW x \in Threads, Sleep(t, x)
      PROVE  TypeOK' /\ Counts'
    <2>1. Woken(pc, pc')
        BY <1>2, NotifyOneWakes DEF Sleep, TypeOK
    <2>2. Innermost(t, x) /\ run' = Popped(t) /\ left[x] > 0 /\ left' = [left EXCEPT ![x] = @ - 1]
        BY <1>2 DEF Sleep, Runs, Suspends
    <2>3. Popped(t) \in [Threads -> Seq(Threads)]
        BY <2>2, PoppedProperties
    <2>4. left' \in [Threads -> Nat]
        BY <2>2 DEF TypeOK
    <2>5. sleeping' \in Seq(Threads)
        BY <1>2, InsertAtProperties DEF Sleep, TypeOK
    <2>6. TypeOK'
        BY <1>2, <2>1, <2>2, <2>3, <2>4, <2>5 DEF TypeOK, Sleep, Woken
    <2>. QED BY <1>2, <2>1, <2>6, WokenKeeps DEF Counts, Sleep
<1>3. ASSUME NEW t \in Threads, NEW x \in Threads, Block(t, x)
      PROVE  TypeOK' /\ Counts'
    <2>1. /\ Innermost(t, x) /\ x \notin counted
          /\ run' = Popped(t) /\ left[x] > 0 /\ left' = [left EXCEPT ![x] = @ - 1]
          /\ counted' = counted \cup {x} /\ externalWork' = externalWork + 1
        BY <1>3 DEF Block, Runs, Suspends, Count
    <2>2. Popped(t) \in [Threads -> Seq(Threads)]
        BY <2>1, PoppedProperties
    <2>3. left' \in [Threads -> Nat]
        BY <2>1 DEF TypeOK
    <2>4. x \in Agents
        BY DEF Agents
    <2>5. TypeOK'
        BY <1>3, <2>1, <2>2, <2>3, <2>4, SMTT(30) DEF TypeOK, Block
    <2>6. Cardinality(counted') = Cardinality(counted) + 1
        BY <2>1, AgentsFinite, FS_AddElement DEF TypeOK
    <2>7. Registered' = Registered
        BY <1>3 DEF Block, Registered
    <2>. QED BY <1>3, <2>1, <2>5, <2>6, <2>7 DEF Counts, Block
<1>4. ASSUME NEW t \in Threads, NEW x \in Threads, NEW y \in Threads, NotifyPeer(t, x, y)
      PROVE  TypeOK' /\ Counts'
    <2>1. run' \in [Threads -> Seq(Threads)]
        BY <1>4 DEF NotifyPeer, TypeOK
    <2>. QED BY <1>4, <2>1 DEF NotifyPeer, TypeOK, Pop, Counts, Registered
<1>5. ASSUME NEW y \in Outside, NotifyFromOutside(y)
      PROVE  TypeOK' /\ Counts'
    <2>1. Woken(pc, pc')
        BY <1>5, NotifyOneWakes DEF NotifyFromOutside, TypeOK
    <2>2. y \in Threads
        BY PoolAssumption
    <2>3. TypeOK'
        BY <1>5, <2>1, <2>2 DEF TypeOK, NotifyFromOutside, Woken, Pop
    <2>. QED BY <1>5, <2>1, <2>3, WokenKeeps DEF Counts, NotifyFromOutside
<1>6. ASSUME NEW t \in Threads, NEW x \in Threads, Finish(t, x)
      PROVE  TypeOK' /\ Counts'
    <2>1. Popped(t) \in [Threads -> Seq(Threads)]
        BY <1>6, PoppedProperties DEF Finish, Runs
    <2>. QED BY <1>6, <2>1 DEF Finish, TypeOK, Counts, Registered
<1>7. ASSUME NEW a \in Agents, DecrementExternalWork(a)
      PROVE  TypeOK' /\ Counts'
    <2>1. a \in counted /\ counted' = counted \ {a} /\ externalWork' = externalWork - 1
        BY <1>7 DEF DecrementExternalWork
    <2>2. /\ Cardinality(counted') = Cardinality(counted) - 1
          /\ Cardinality(counted') \in Nat
        BY <2>1, AgentsFinite, FS_RemoveElement DEF TypeOK
    <2>3. TypeOK'
        BY <1>7, <2>1, <2>2 DEF TypeOK, Counts, DecrementExternalWork
    <2>. QED BY <1>7, <2>1, <2>2, <2>3 DEF Counts, DecrementExternalWork, Registered
<1>8. ASSUME NEW a \in Agents, NotifyDecrement(a)
      PROVE  TypeOK' /\ Counts'
    <2>1. Woken(pc, pc')
        BY <1>8, NotifyOneWakes DEF NotifyDecrement, TypeOK
    <2>2. TypeOK'
        BY <1>8, <2>1 DEF TypeOK, NotifyDecrement, Woken
    <2>. QED BY <1>8, <2>1, <2>2, WokenKeeps DEF Counts, NotifyDecrement

<1>9. ASSUME NEW t \in Threads, Start(t)
      PROVE  TypeOK' /\ Counts'
    <2>1. /\ pc[t] = "out" /\ "start" \in Location
          /\ pc' = [pc EXCEPT ![t] = "start"] /\ run' = [run EXCEPT ![t] = <<t>>]
        BY <1>9 DEF Start, Location
    <2>2. Registered' = Registered
        BY <2>1 DEF Registered, TypeOK, InLoop, Asleep
    <2>. QED BY <1>9, <2>1, <2>2 DEF Start, TypeOK, Counts
<1>10. ASSUME NEW t \in Threads, Register(t)
       PROVE  TypeOK' /\ Counts'
    <2>1. /\ pc[t] = "start" /\ "take" \in Location \cap InLoop
          /\ pc' = [pc EXCEPT ![t] = "take"] /\ activeThreads' = activeThreads + 1
        BY <1>10 DEF Register, Location, InLoop
    <2>2. Registered' = Registered \cup {t}
        BY <2>1, RegisteredMoves
    <2>3. t \notin Registered
        BY <2>1 DEF Registered, InLoop, Asleep
    <2>4. Cardinality(Registered') = Cardinality(Registered) + 1
        BY <2>2, <2>3, AgentsFinite, FS_AddElement DEF Registered
    <2>. QED BY <1>10, <2>1, <2>4 DEF Register, TypeOK, Counts
<1>11. ASSUME NEW t \in Threads, Take(t)
       PROVE  TypeOK' /\ Counts'
    <2>1. /\ Taken \in Seq(Threads)
          /\ SubSeq(tasks, TakeCount + 1, Len(tasks)) \in Seq(Threads)
        BY TakenProperties, PoolAssumption DEF TypeOK
    <2>2. batch' \in [Threads -> Seq(Threads)] /\ tasks' \in Seq(Threads)
        BY <1>11, <2>1 DEF Take, TypeOK
    <2>3. pc' \in [Threads -> Location] /\ Registered' = Registered
        BY <1>11, TakeMoves
    <2>4. TypeOK'
        BY <1>11, <2>2, <2>3, SMTT(30) DEF Take, TypeOK
    <2>. QED BY <1>11, <2>3, <2>4 DEF Take, Counts
<1>12. ASSUME NEW t \in Threads, Resume(t)
       PROVE  TypeOK' /\ Counts'
    <2>1. batch[t] \in Seq(Threads) /\ batch[t] # <<>>
        BY <1>12 DEF Resume, TypeOK
    <2>2. Head(batch[t]) \in Threads /\ Tail(batch[t]) \in Seq(Threads)
        BY <2>1
    <2>3. <<Head(batch[t])>> \in Seq(Threads)
        BY <2>2
    <2>. QED BY <1>12, <2>2, <2>3 DEF Resume, TypeOK, Counts, Registered
<1>13. ASSUME NEW t \in Threads, EndBatch(t)
       PROVE  TypeOK' /\ Counts'
    <2>1. Registered' = Registered
        BY <1>13 DEF EndBatch, TypeOK, Registered, InLoop, Asleep
    <2>. QED BY <1>13, <2>1 DEF EndBatch, TypeOK, Counts, Location, InLoop
<1>14. ASSUME NEW t \in Threads, Check(t)
       PROVE  TypeOK' /\ Counts'
    <2>1. Registered' = Registered
        BY <1>14 DEF Check, TypeOK, Registered, InLoop, Asleep
    <2>. QED BY <1>14, <2>1 DEF Check, TypeOK, Counts, Location, InLoop
<1>15. ASSUME NEW t \in Threads, Wait(t)
       PROVE  TypeOK' /\ Counts'
    <2>1. Registered' = Registered
        BY <1>15 DEF Wait, TypeOK, Registered, InLoop, Asleep
    <2>2. NextDeadline \in SUBSET Threads
        BY HeadTailProperties DEF NextDeadline, TypeOK
    <2>. QED BY <1>15, <2>1, <2>2 DEF Wait, TypeOK, Counts, Location, InLoop, Asleep
<1>16. ASSUME NEW t \in Threads, TimedWake(t) \/ SpuriousWake(t)
       PROVE  TypeOK' /\ Counts'
    <2>1. Registered' = Registered
        BY <1>16 DEF TimedWake, SpuriousWake, TypeOK, Registered, InLoop, Asleep
    <2>. QED BY <1>16, <2>1 DEF TimedWake, SpuriousWake, TypeOK, Counts, Location, InLoop
<1>17. ASSUME Tick
       PROVE  TypeOK' /\ Counts'
    <2>1. Head(sleeping) \in Threads /\ Tail(sleeping) \in Seq(Threads)
        BY <1>17 DEF Tick, TypeOK
    <2>. QED BY <1>17, <2>1, SMTT(30) DEF Tick, TypeOK, Counts, Registered
<1>18. ASSUME NEW t \in Threads, Leave(t)
       PROVE  TypeOK' /\ Counts'
    <2>1. /\ pc[t] = "leave" /\ "announce" \in Location \ (InLoop \cup {"leave"})
          /\ pc' = [pc EXCEPT ![t] = "announce"] /\ activeThreads' = activeThreads - 1
        BY <1>18 DEF Leave, Location, InLoop, Asleep
    <2>2. Registered' = Registered \ {t}
        BY <2>1, RegisteredMoves
    <2>3. t \in Registered
        BY <2>1 DEF Registered
    <2>4. /\ Cardinality(Registered') = Cardinality(Registered) - 1
          /\ Cardinality(Registered') \in Nat
        BY <2>2, <2>3, AgentsFinite, FS_RemoveElement DEF Registered
    <2>. QED BY <1>18, <2>1, <2>4 DEF Leave, TypeOK, Counts
<1>19. ASSUME NEW t \in Threads, Announce(t)
       PROVE  TypeOK' /\ Counts'
    BY <1>19, AnnounceMoves DEF Announce, TypeOK, Counts
<1>20. ASSUME NEW t \in Threads, Drain(t)
       PROVE  TypeOK' /\ Counts'
    BY <1>20, DrainMoves DEF Drain, TypeOK, Counts
<1>21. ASSUME NEW t \in Threads, Park(t) \/ TakeResult(t)
       PROVE  TypeOK' /\ Counts'
    <2>1. Registered' = Registered
        BY <1>21 DEF Park, TakeResult, TypeOK, Registered, InLoop, Asleep
    <2>. QED BY <1>21, <2>1 DEF Park, TakeResult, TypeOK, Counts, Location
<1>22. CASE UNCHANGED vars
    BY <1>22 DEF vars, TypeOK, Counts, Registered
<1>. QED
    BY <1>1, <1>2, <1>3, <1>4, <1>5, <1>6, <1>7, <1>8, <1>9, <1>10, <1>11, <1>12,
       <1>13, <1>14, <1>15, <1>16, <1>17, <1>18, <1>19, <1>20, <1>21, <1>22
    DEF Next, CoroutineStep, LoopStep

-----------------------------------------------------------------------------
(***************************************************************************)
(* Inv1: every coroutine in exactly one place                              *)
(***************************************************************************)

\* Every place holds a sequence of coroutines.
LEMMA ContentType ==
    ASSUME TypeOK, NEW q \in Queues, NEW t \in Threads
    PROVE  /\ Content(q, t) \in Seq(Threads)
           /\ DOMAIN Content(q, t) = 1..Len(Content(q, t))
           /\ Len(Content(q, t)) \in Nat
<1>1. Content(q, t) \in Seq(Threads)
    BY DEF TypeOK, Queues, Content
<1>. QED BY <1>1, LenProperties

\* The same of the next state.
LEMMA ContentTypeNext ==
    ASSUME TypeOK', NEW q \in Queues, NEW t \in Threads
    PROVE  /\ Content(q, t)' \in Seq(Threads)
           /\ DOMAIN Content(q, t)' = 1..Len(Content(q, t)')
           /\ Len(Content(q, t)') \in Nat
<1>1. Content(q, t)' \in Seq(Threads)
    BY DEF TypeOK, Queues, Content
<1>. QED BY <1>1, LenProperties

\* The coroutines that some place will resume.
Held == UNION {ToSet(Content(q, t)) : q \in Queues, t \in Threads}

\* Inv1 in terms of Held.
LEMMA Inv1Held ==
    Inv1 <=> /\ blocked \subseteq Unfinished
             /\ Held = Unfinished \ blocked
             /\ NothingTwice
BY DEF Inv1, NothingLost, NothingStale, Held

\* The same of the next state.
LEMMA Inv1HeldNext ==
    Inv1' <=> /\ blocked' \subseteq Unfinished'
              /\ Held' = Unfinished' \ blocked'
              /\ NothingTwice'
BY DEF Inv1, NothingLost, NothingStale, Held

\* Who is held, slot by slot.
LEMMA HeldSlots ==
    \A x : x \in Held <=> \E q \in Queues, t \in Threads :
                              \E i \in DOMAIN Content(q, t) : x = Content(q, t)[i]
<1>1. \A x : x \in Held <=> \E q \in Queues, t \in Threads : x \in ToSet(Content(q, t))
    BY DEF Held
<1>. QED BY <1>1 DEF ToSet

\* The same of the next state.
LEMMA HeldSlotsNext ==
    \A x : x \in Held' <=> \E q \in Queues, t \in Threads :
                               \E i \in DOMAIN Content(q, t)' : x = Content(q, t)'[i]
<1>1. \A x : x \in Held' <=> \E q \in Queues, t \in Threads : x \in ToSet(Content(q, t)')
    BY DEF Held
<1>. QED BY <1>1 DEF ToSet

\* Steps that leave every place alone.
LEMMA Inv1Unchanged ==
    ASSUME Inv1, UNCHANGED <<tasks, sleeping, due, run, batch, blocked>>,
           Unfinished' = Unfinished
    PROVE  Inv1'
<1>1. \A q \in Queues, t \in Threads : Content(q, t)' = Content(q, t)
    BY DEF Content
<1>2. Held' = Held
    BY <1>1 DEF Held
<1>3. NothingTwice'
    BY <1>1 DEF Inv1, NothingTwice, SamePlace
<1>. QED BY <1>2, <1>3, Inv1Held, Inv1HeldNext

\* Sequence new is sequence old without its k-th element.
Without(old, k, new) ==
    /\ k \in 1..Len(old)
    /\ Len(new) = Len(old) - 1
    /\ \A i \in 1..(Len(old) - 1) : new[i] = IF i < k THEN old[i] ELSE old[i + 1]

\* Sequence new is sequence old with x inserted at place k.
With(old, k, x, new) ==
    /\ k \in 1..(Len(old) + 1)
    /\ Len(new) = Len(old) + 1
    /\ \A i \in 1..(Len(old) + 1) :
           new[i] = IF i < k THEN old[i] ELSE IF i = k THEN x ELSE old[i - 1]

\* The step in which coroutine x leaves the place fq of thread ft, where it is the
\* fk-th, and enters the place tq of thread tt, where it becomes the tk-th.
\* Either place may be "nowhere": a condition variable, or no place at all.
MovesTo(x, fq, ft, fk, tq, tt, tk) ==
    /\ ~SamePlace(fq, ft, tq, tt)
    /\ fq = "nowhere" => x \notin Held
    /\ \A q \in Queues, u \in Threads :
           IF SamePlace(q, u, fq, ft)
           THEN Without(Content(q, u), fk, Content(q, u)') /\ Content(q, u)[fk] = x
           ELSE IF SamePlace(q, u, tq, tt)
                THEN With(Content(q, u), tk, x, Content(q, u)')
                ELSE Content(q, u)' = Content(q, u)

Places == Queues \cup {"nowhere"}

\* Moving one coroutine puts none in two places.
LEMMA Move ==
    ASSUME TypeOK, TypeOK', NothingTwice, NEW x \in Threads,
           NEW fq \in Places, NEW ft \in Threads, NEW fk \in Nat,
           NEW tq \in Places, NEW tt \in Threads, NEW tk \in Nat,
           MovesTo(x, fq, ft, fk, tq, tt, tk)
    PROVE  /\ NothingTwice'
           /\ Held' = IF tq = "nowhere" THEN Held \ {x} ELSE Held \cup {x}
           /\ fq # "nowhere" => x \in Held
<1>. DEFINE From(q, u) == SamePlace(q, u, fq, ft)
            To(q, u) == SamePlace(q, u, tq, tt)
            Fresh(q, u, i) == To(q, u) /\ i = tk
            OI(q, u, i) == IF From(q, u) THEN IF i < fk THEN i ELSE i + 1
                           ELSE IF To(q, u) THEN IF i < tk THEN i ELSE i - 1
                           ELSE i
<1>1. \A q \in Queues, u \in Threads : ~(From(q, u) /\ To(q, u))
    BY DEF MovesTo, SamePlace
<1>2. ASSUME NEW q \in Queues, NEW u \in Threads, NEW i \in DOMAIN Content(q, u)'
      PROVE  IF Fresh(q, u, i)
             THEN Content(q, u)'[i] = x
             ELSE /\ OI(q, u, i) \in DOMAIN Content(q, u)
                  /\ Content(q, u)'[i] = Content(q, u)[OI(q, u, i)]
                  /\ ~(From(q, u) /\ OI(q, u, i) = fk)
    <2>1. /\ i \in 1..Len(Content(q, u)')
          /\ DOMAIN Content(q, u) = 1..Len(Content(q, u))
          /\ Len(Content(q, u)) \in Nat
        BY ContentType, ContentTypeNext
    <2>2. CASE From(q, u)
        <3>1. Without(Content(q, u), fk, Content(q, u)')
            BY <2>2 DEF MovesTo
        <3>. QED BY <1>1, <2>1, <2>2, <3>1 DEF Without
    <2>3. CASE To(q, u)
        <3>1. With(Content(q, u), tk, x, Content(q, u)') /\ ~From(q, u)
            BY <1>1, <2>3 DEF MovesTo
        <3>. QED BY <2>1, <2>3, <3>1 DEF With
    <2>4. CASE ~From(q, u) /\ ~To(q, u)
        BY <2>1, <2>4 DEF MovesTo
    <2>. QED BY <2>2, <2>3, <2>4
<1>3. ASSUME NEW q \in Queues, NEW u \in Threads, NEW i \in DOMAIN Content(q, u)
      PROVE  \/ /\ From(q, u) /\ i = fk
             \/ \E j \in DOMAIN Content(q, u)' :
                    /\ ~Fresh(q, u, j)
                    /\ Content(q, u)'[j] = Content(q, u)[i]
    <2>1. /\ i \in 1..Len(Content(q, u)) /\ Len(Content(q, u)) \in Nat
          /\ DOMAIN Content(q, u)' = 1..Len(Content(q, u)')
        BY ContentType, ContentTypeNext
    <2>2. CASE From(q, u)
        <3>1. Without(Content(q, u), fk, Content(q, u)')
            BY <2>2 DEF MovesTo
        <3>2. CASE i < fk
            BY <1>1, <2>1, <2>2, <3>1, <3>2 DEF Without
        <3>3. CASE i > fk
            <4>1. i - 1 \in 1..(Len(Content(q, u)) - 1) /\ ~(i - 1 < fk) /\ (i - 1) + 1 = i
                BY <2>1, <3>1, <3>3 DEF Without
            <4>. QED BY <1>1, <2>1, <2>2, <3>1, <4>1 DEF Without
        <3>. QED BY <2>1, <2>2, <3>2, <3>3
    <2>3. CASE To(q, u)
        <3>1. With(Content(q, u), tk, x, Content(q, u)') /\ ~From(q, u)
            BY <1>1, <2>3 DEF MovesTo
        <3>2. CASE i < tk
            BY <2>1, <3>1, <3>2 DEF With
        <3>3. CASE ~(i < tk)
            <4>1. i + 1 \in 1..(Len(Content(q, u)) + 1) /\ i + 1 > tk /\ (i + 1) - 1 = i
                BY <2>1, <3>3
            <4>. QED BY <2>1, <3>1, <4>1 DEF With
        <3>. QED BY <3>2, <3>3
    <2>4. CASE ~From(q, u) /\ ~To(q, u)
        BY <2>4 DEF MovesTo
    <2>. QED BY <2>2, <2>3, <2>4
\* The only place that holds x before the step is the one it leaves.
<1>4. ASSUME NEW q \in Queues, NEW u \in Threads, NEW i \in DOMAIN Content(q, u),
             Content(q, u)[i] = x
      PROVE  From(q, u) /\ i = fk
    <2>1. x \in Held
        BY <1>4, HeldSlots
    <2>2. fq \in Queues /\ SamePlace(fq, ft, fq, ft)
        BY <2>1 DEF MovesTo, Places, SamePlace
    <2>3. Content(fq, ft)[fk] = x /\ fk \in DOMAIN Content(fq, ft)
        BY <2>2, ContentType DEF MovesTo, Without
    <2>. QED BY <1>4, <2>2, <2>3 DEF NothingTwice
<1>5. ASSUME NEW q \in Queues, NEW u \in Threads, NEW i \in DOMAIN Content(q, u)',
             ~Fresh(q, u, i)
      PROVE  Content(q, u)'[i] # x
    <2>. HIDE DEF Fresh, OI, From
    <2>. QED BY <1>2, <1>4, <1>5
<1>6. ASSUME NEW q \in Queues, NEW u \in Threads, NEW i \in DOMAIN Content(q, u)',
             NEW r \in Queues, NEW v \in Threads, NEW j \in DOMAIN Content(r, v)',
             Content(q, u)'[i] = Content(r, v)'[j]
      PROVE  SamePlace(q, u, r, v) /\ i = j
    <2>1. CASE Fresh(q, u, i) \/ Fresh(r, v, j)
        <3>1. Fresh(q, u, i) /\ Fresh(r, v, j)
            <4>. HIDE DEF Fresh, OI
            <4>. QED BY <1>2, <1>5, <1>6, <2>1
        <3>. QED BY <3>1 DEF SamePlace
    <2>2. CASE ~Fresh(q, u, i) /\ ~Fresh(r, v, j)
        <3>1. /\ OI(q, u, i) \in DOMAIN Content(q, u) /\ OI(r, v, j) \in DOMAIN Content(r, v)
              /\ Content(q, u)[OI(q, u, i)] = Content(r, v)[OI(r, v, j)]
            <4>. HIDE DEF Fresh, OI, From
            <4>. QED BY <1>2, <1>6, <2>2
        <3>2. SamePlace(q, u, r, v) /\ OI(q, u, i) = OI(r, v, j)
            <4>. HIDE DEF OI
            <4>. QED BY <3>1 DEF NothingTwice
        <3>3. (From(q, u) <=> From(r, v)) /\ (To(q, u) <=> To(r, v))
            BY <3>2 DEF SamePlace
        <3>4. i \in Nat /\ j \in Nat
            <4>1. i \in 1..Len(Content(q, u)') /\ j \in 1..Len(Content(r, v)')
                BY ContentTypeNext
            <4>. QED BY <4>1
        <3>5. To(q, u) => i # tk /\ j # tk
            BY <2>2, <3>3
        <3>. QED BY <3>2, <3>3, <3>4, <3>5
    <2>. QED BY <2>1, <2>2
<1>7. NothingTwice'
    BY <1>6 DEF NothingTwice, SamePlace
<1>8. ASSUME NEW y \in Held, y # x
      PROVE  y \in Held'
    <2>1. PICK q \in Queues, u \in Threads : \E i \in DOMAIN Content(q, u) : y = Content(q, u)[i]
        BY HeldSlots
    <2>2. PICK i \in DOMAIN Content(q, u) : y = Content(q, u)[i]
        BY <2>1
    <2>3. ~(From(q, u) /\ i = fk)
        BY <1>8, <2>2 DEF MovesTo
    <2>. QED BY <1>3, <2>2, <2>3, HeldSlotsNext
<1>9. ASSUME NEW y \in Held'
      PROVE  y \in Held \ {x} \/ (y = x /\ tq # "nowhere")
    <2>1. PICK q \in Queues, u \in Threads : \E i \in DOMAIN Content(q, u)' : y = Content(q, u)'[i]
        BY HeldSlotsNext
    <2>2. PICK i \in DOMAIN Content(q, u)' : y = Content(q, u)'[i]
        BY <2>1
    <2>3. CASE Fresh(q, u, i)
        BY <1>2, <2>2, <2>3 DEF SamePlace, Queues
    <2>4. CASE ~Fresh(q, u, i)
        <3>. HIDE DEF Fresh, OI
        <3>. QED BY <1>2, <1>5, <2>2, <2>4, HeldSlots
    <2>. QED BY <2>3, <2>4
<1>10. ASSUME tq # "nowhere"
       PROVE  x \in Held'
    <2>1. tq \in Queues /\ To(tq, tt) /\ ~From(tq, tt)
        BY <1>10, <1>1 DEF Places, SamePlace
    <2>2. With(Content(tq, tt), tk, x, Content(tq, tt)')
        BY <2>1 DEF MovesTo
    <2>3. tk \in DOMAIN Content(tq, tt)' /\ Content(tq, tt)'[tk] = x
        BY <2>1, <2>2, ContentType, ContentTypeNext DEF With
    <2>. QED BY <2>1, <2>3, HeldSlotsNext
<1>11. ASSUME fq # "nowhere"
       PROVE  x \in Held
    <2>1. fq \in Queues /\ From(fq, ft)
        BY <1>11 DEF Places, SamePlace
    <2>2. fk \in 1..Len(Content(fq, ft)) /\ Content(fq, ft)[fk] = x
        BY <2>1 DEF MovesTo, Without
    <2>. QED BY <2>1, <2>2, ContentType, HeldSlots
<1>. QED BY <1>7, <1>8, <1>9, <1>10, <1>11

\* The operations of the queues as insertions and removals.
LEMMA AppendWith ==
    ASSUME NEW S, NEW s \in Seq(S), NEW x \in S
    PROVE  With(s, Len(s) + 1, x, Append(s, x))
<1>1. Len(s) \in Nat
    BY LenProperties
<1>. QED BY <1>1, AppendProperties DEF With

\* InsertAt(s, k, x) inserts x at place k.
LEMMA InsertWith ==
    ASSUME NEW S, NEW s \in Seq(S), NEW x \in S, NEW k \in 1..(Len(s) + 1)
    PROVE  With(s, k, x, InsertAt(s, k, x))
<1>1. /\ Len(InsertAt(s, k, x)) = Len(s) + 1
      /\ \A i \in 1..(Len(s) + 1) :
             InsertAt(s, k, x)[i] = IF i < k THEN s[i] ELSE IF i = k THEN x ELSE s[i - 1]
    BY InsertAtProperties
<1>. QED BY <1>1 DEF With

\* Front drops the last element.
LEMMA FrontWithout ==
    ASSUME NEW S, NEW s \in Seq(S), s # <<>>
    PROVE  Without(s, Len(s), Front(s)) /\ s[Len(s)] = Last(s)
<1>1. Len(s) \in Nat \ {0}
    BY EmptySeq
<1>2. /\ Len(Front(s)) = Len(s) - 1 /\ Last(s) = s[Len(s)]
      /\ \A i \in 1..(Len(s) - 1) : Front(s)[i] = s[i]
    BY FrontProperties
<1>. QED BY <1>1, <1>2 DEF Without

\* Tail drops the first element.
LEMMA TailWithout ==
    ASSUME NEW S, NEW s \in Seq(S), s # <<>>
    PROVE  Without(s, 1, Tail(s)) /\ s[1] = Head(s)
<1>1. Len(s) \in Nat \ {0} /\ Head(s) = s[1]
    BY EmptySeq
<1>. QED BY <1>1, HeadTailProperties DEF Without

\* What a suspension does to the stacks.
LEMMA PoppedWithout ==
    ASSUME TypeOK, NEW t \in Threads, NEW x \in Threads, Innermost(t, x)
    PROVE  /\ Without(run[t], Len(run[t]), Popped(t)[t]) /\ run[t][Len(run[t])] = x
           /\ Len(run[t]) \in Nat
           /\ \A u \in Threads \ {t} : Popped(t)[u] = run[u]
<1>1. run[t] \in Seq(Threads) /\ run[t] # <<>> /\ x = Last(run[t])
    BY DEF TypeOK, Innermost
<1>2. Popped(t)[t] = Front(run[t]) /\ \A u \in Threads \ {t} : Popped(t)[u] = run[u]
    BY DEF TypeOK, Popped
<1>. QED BY <1>1, <1>2, FrontWithout, LenProperties

\* Taking a batch moves the first part of the queue and the due work into the
\* empty batch of the thread.
LEMMA Inv1Take ==
    ASSUME TypeOK, TypeOK', RunsWhereItMay, NothingTwice, NEW t \in Threads, Take(t)
    PROVE  NothingTwice' /\ Held' = Held
<1>. DEFINE n == TakeCount
<1>1. /\ pc[t] = "take" /\ batch' = [batch EXCEPT ![t] = Taken] /\ due' = <<>>
      /\ tasks' = SubSeq(tasks, n + 1, Len(tasks))
      /\ UNCHANGED <<run, sleeping>>
    BY DEF Take, work, leaving
<1>2. batch[t] = <<>>
    BY <1>1 DEF RunsWhereItMay
<1>3. batch'[t] = Taken /\ \A u \in Threads \ {t} : batch'[u] = batch[u]
    BY <1>1 DEF TypeOK
<1>4. /\ n \in 0..Len(tasks) /\ Len(tasks) \in Nat /\ Len(due) \in Nat
      /\ Len(batch'[t]) = n + Len(due)
      /\ \A i \in 1..n : batch'[t][i] = tasks[i]
      /\ \A i \in 1..Len(due) : batch'[t][n + i] = due[i]
      /\ Len(tasks') = Len(tasks) - n
      /\ \A i \in 1..(Len(tasks) - n) : tasks'[i] = tasks[n + i]
    BY <1>1, <1>3, TakenProperties, PoolAssumption, LenProperties DEF TypeOK
<1>. HIDE DEF n
<1>. DEFINE Mine(q, u) == q = "batch" /\ u = t
            OQ(q, u, i) == IF Mine(q, u) THEN IF i <= n THEN "tasks" ELSE "due" ELSE q
            OI(q, u, i) == IF Mine(q, u) THEN IF i <= n THEN i ELSE i - n
                           ELSE IF q = "tasks" THEN i + n ELSE i
<1>5. ASSUME NEW q \in Queues, NEW u \in Threads, NEW i \in DOMAIN Content(q, u)'
      PROVE  /\ OQ(q, u, i) \in Queues /\ OI(q, u, i) \in DOMAIN Content(OQ(q, u, i), u)
             /\ Content(q, u)'[i] = Content(OQ(q, u, i), u)[OI(q, u, i)]
             /\ q = "tasks" => OI(q, u, i) > n
             /\ q # "due" /\ (OQ(q, u, i) = "tasks" /\ q # "tasks" => OI(q, u, i) <= n)
    <2>1. i \in 1..Len(Content(q, u)')
        BY ContentTypeNext
    <2>2. /\ Content("tasks", u) = tasks /\ Content("due", u) = due
          /\ "tasks" \in Queues /\ "due" \in Queues
          /\ DOMAIN tasks = 1..Len(tasks) /\ DOMAIN due = 1..Len(due)
        BY LenProperties DEF Content, Queues, TypeOK
    <2>3. CASE Mine(q, u)
        <3>1. Content(q, u)' = batch'[t]
            BY <2>3 DEF Content
        <3>2. CASE i <= n
            BY <1>4, <2>1, <2>2, <2>3, <3>1, <3>2
        <3>3. CASE ~(i <= n)
            <4>1. i - n \in 1..Len(due) /\ n + (i - n) = i
                BY <1>4, <2>1, <3>1, <3>3
            <4>. QED BY <1>4, <2>2, <2>3, <3>1, <3>3, <4>1
        <3>. QED BY <3>2, <3>3
    <2>4. CASE q = "tasks"
        <3>1. Content(q, u)' = tasks'
            BY <2>4 DEF Content
        <3>2. i + n \in 1..Len(tasks) /\ i + n > n /\ tasks'[i] = tasks[i + n]
            BY <1>4, <2>1, <3>1
        <3>. QED BY <2>2, <2>4, <3>1, <3>2
    <2>5. CASE q = "due"
        BY <1>1, <2>1, <2>5 DEF Content
    <2>6. CASE q \in {"run", "sleeping"} \/ (q = "batch" /\ u # t)
        <3>1. Content(q, u)' = Content(q, u)
            BY <1>1, <1>3, <2>6 DEF Content
        <3>. QED BY <2>6, <3>1
    <2>. QED BY <2>3, <2>4, <2>5, <2>6 DEF Queues
<1>6. ASSUME NEW q \in Queues, NEW u \in Threads, NEW i \in DOMAIN Content(q, u)',
             NEW r \in Queues, NEW v \in Threads, NEW j \in DOMAIN Content(r, v)',
             Content(q, u)'[i] = Content(r, v)'[j]
      PROVE  SamePlace(q, u, r, v) /\ i = j
    <2>1. SamePlace(OQ(q, u, i), u, OQ(r, v, j), v) /\ OI(q, u, i) = OI(r, v, j)
        <3>. HIDE DEF OQ, OI
        <3>. QED BY <1>5, <1>6 DEF NothingTwice
    <2>2. i \in Int /\ j \in Int /\ n \in Int
        <3>1. i \in 1..Len(Content(q, u)') /\ j \in 1..Len(Content(r, v)')
            BY ContentTypeNext
        <3>. QED BY <1>4, <3>1
    <2>3. CASE Mine(q, u) /\ Mine(r, v)
        BY <2>1, <2>2, <2>3 DEF SamePlace
    <2>4. CASE Mine(q, u) /\ ~Mine(r, v)
        BY <1>5, <2>1, <2>2, <2>4 DEF SamePlace
    <2>5. CASE ~Mine(q, u) /\ Mine(r, v)
        BY <1>5, <2>1, <2>2, <2>5 DEF SamePlace
    <2>6. CASE ~Mine(q, u) /\ ~Mine(r, v)
        BY <2>1, <2>2, <2>6 DEF SamePlace
    <2>. QED BY <2>3, <2>4, <2>5, <2>6
<1>7. NothingTwice'
    BY <1>6 DEF NothingTwice, SamePlace
<1>8. ASSUME NEW y \in Held'
      PROVE  y \in Held
    <2>1. PICK q \in Queues, u \in Threads : \E i \in DOMAIN Content(q, u)' : y = Content(q, u)'[i]
        BY HeldSlotsNext
    <2>2. PICK i \in DOMAIN Content(q, u)' : y = Content(q, u)'[i]
        BY <2>1
    <2>. HIDE DEF OQ, OI
    <2>. QED BY <1>5, <2>2, HeldSlots
<1>9. ASSUME NEW y \in Held
      PROVE  y \in Held'
    <2>1. PICK q \in Queues, u \in Threads : \E i \in DOMAIN Content(q, u) : y = Content(q, u)[i]
        BY HeldSlots
    <2>2. PICK i \in DOMAIN Content(q, u) : y = Content(q, u)[i]
        BY <2>1
    <2>3. i \in 1..Len(Content(q, u))
        BY ContentType
    <2>4. /\ Content("batch", t)' = batch'[t] /\ "batch" \in Queues
          /\ DOMAIN Content("batch", t)' = 1..Len(batch'[t])
        BY ContentTypeNext DEF Content, Queues
    <2>5. CASE q = "tasks"
        <3>1. Content(q, u) = tasks /\ Content(q, u)' = tasks'
            BY <2>5 DEF Content
        <3>2. CASE i <= n
            <4>1. i \in DOMAIN Content("batch", t)' /\ y = Content("batch", t)'[i]
                BY <1>4, <2>2, <2>3, <2>4, <3>1, <3>2
            <4>. QED BY <2>4, <4>1, HeldSlotsNext
        <3>3. CASE ~(i <= n)
            <4>1. i - n \in 1..(Len(tasks) - n) /\ n + (i - n) = i
                BY <1>4, <2>3, <3>1, <3>3
            <4>2. i - n \in DOMAIN Content(q, u)' /\ y = Content(q, u)'[i - n]
                BY <1>4, <2>2, <3>1, <4>1, ContentTypeNext
            <4>. QED BY <4>2, HeldSlotsNext
        <3>. QED BY <3>2, <3>3
    <2>6. CASE q = "due"
        <3>1. Content(q, u) = due
            BY <2>6 DEF Content
        <3>2. n + i \in DOMAIN Content("batch", t)' /\ y = Content("batch", t)'[n + i]
            BY <1>4, <2>2, <2>3, <2>4, <3>1
        <3>. QED BY <2>4, <3>2, HeldSlotsNext
    <2>7. CASE q = "batch" /\ u = t
        BY <1>2, <2>3, <2>7 DEF Content
    <2>8. CASE q \in {"run", "sleeping"} \/ (q = "batch" /\ u # t)
        <3>1. Content(q, u)' = Content(q, u)
            BY <1>1, <1>3, <2>8 DEF Content
        <3>. QED BY <2>2, <3>1, HeldSlotsNext
    <2>. QED BY <2>5, <2>6, <2>7, <2>8 DEF Queues
<1>. QED BY <1>7, <1>8, <1>9

\* Every step keeps every coroutine in exactly one place.
LEMMA Inv1Step ==
    ASSUME TypeOK, TypeOK', RunsWhereItMay, DoneStarted, Inv1, [Next]_vars
    PROVE  Inv1'
<1>. USE DEF ready, work, leaving
<1>0. /\ blocked \subseteq Unfinished /\ Held = Unfinished \ blocked /\ NothingTwice
    BY Inv1Held
<1>1. ASSUME NEW t \in Threads, NEW x \in Threads, Yield(t, x)
      PROVE  Inv1'
    <2>1. /\ Innermost(t, x) /\ run' = Popped(t) /\ tasks' = Append(tasks, x)
          /\ UNCHANGED <<sleeping, due, batch, blocked, done>>
        BY <1>1 DEF Yield, Runs, Suspends
    <2>2. Unfinished' = Unfinished
        <3>1. Woken(pc, pc')
            BY <1>1, NotifyOneWakes DEF Yield, TypeOK
        <3>. QED BY <2>1, <3>1, WokenKeeps DEF Unfinished
    <2>3. MovesTo(x, "run", t, Len(run[t]), "tasks", t, Len(tasks) + 1)
        <3>1. With(tasks, Len(tasks) + 1, x, tasks')
            BY <2>1, AppendWith DEF TypeOK
        <3>. QED BY <2>1, <3>1, PoppedWithout DEF MovesTo, SamePlace, Queues, Content
    <2>4. Len(run[t]) \in Nat /\ Len(tasks) + 1 \in Nat /\ {"run", "tasks"} \subseteq Places
        BY LenProperties DEF TypeOK, Places, Queues
    <2>5. NothingTwice' /\ Held' = Held
        BY <1>0, <2>3, <2>4, Move
    <2>. QED BY <1>0, <2>1, <2>2, <2>5, Inv1HeldNext
<1>2. ASSUME NEW t \in Threads, NEW x \in Threads, Sleep(t, x)
      PROVE  Inv1'
    <2>1. /\ Innermost(t, x) /\ run' = Popped(t)
          /\ UNCHANGED <<tasks, due, batch, blocked, done>>
        BY <1>2 DEF Sleep, Runs, Suspends
    <2>2. PICK k \in 1..(Len(sleeping) + 1) : sleeping' = InsertAt(sleeping, k, x)
        BY <1>2 DEF Sleep
    <2>3. Unfinished' = Unfinished
        <3>1. Woken(pc, pc')
            BY <1>2, NotifyOneWakes DEF Sleep, TypeOK
        <3>. QED BY <2>1, <3>1, WokenKeeps DEF Unfinished
    <2>4. MovesTo(x, "run", t, Len(run[t]), "sleeping", t, k)
        <3>1. With(sleeping, k, x, sleeping')
            BY <2>2, InsertWith DEF TypeOK
        <3>. QED BY <2>1, <3>1, PoppedWithout DEF MovesTo, SamePlace, Queues, Content
    <2>5. Len(run[t]) \in Nat /\ k \in Nat /\ {"run", "sleeping"} \subseteq Places
        BY LenProperties DEF TypeOK, Places, Queues
    <2>6. NothingTwice' /\ Held' = Held
        BY <1>0, <2>4, <2>5, Move
    <2>. QED BY <1>0, <2>1, <2>3, <2>6, Inv1HeldNext
<1>3. ASSUME NEW t \in Threads, NEW x \in Threads, Block(t, x)
      PROVE  Inv1'
    <2>1. /\ Innermost(t, x) /\ run' = Popped(t) /\ blocked' = blocked \cup {x}
          /\ UNCHANGED <<pc, tasks, sleeping, due, batch, done>>
        BY <1>3 DEF Block, Runs, Suspends
    <2>2. Unfinished' = Unfinished
        BY <2>1 DEF Unfinished, Started
    <2>3. MovesTo(x, "run", t, Len(run[t]), "nowhere", t, 0)
        BY <2>1, PoppedWithout DEF MovesTo, SamePlace, Queues, Content
    <2>4. Len(run[t]) \in Nat /\ 0 \in Nat /\ {"run", "nowhere"} \subseteq Places
        BY LenProperties DEF TypeOK, Places, Queues
    <2>5. NothingTwice' /\ Held' = Held \ {x} /\ x \in Held
        BY <2>3, <2>4, <1>0, Move
    <2>. QED BY <1>0, <2>1, <2>2, <2>5, Inv1HeldNext
<1>4. ASSUME NEW t \in Threads, NEW x \in Threads, NEW y \in Threads, NotifyPeer(t, x, y)
      PROVE  Inv1'
    <2>1. /\ y \in blocked /\ blocked' = blocked \ {y}
          /\ run' = [run EXCEPT ![t] = Append(@, y)]
          /\ UNCHANGED <<pc, tasks, sleeping, due, batch, done>>
        BY <1>4 DEF NotifyPeer, Pop
    <2>2. Unfinished' = Unfinished
        BY <2>1 DEF Unfinished, Started
    <2>3. MovesTo(y, "nowhere", t, 0, "run", t, Len(run[t]) + 1)
        <3>1. With(run[t], Len(run[t]) + 1, y, run'[t]) /\ \A u \in Threads \ {t} : run'[u] = run[u]
            BY <2>1, AppendWith DEF TypeOK
        <3>. QED BY <1>0, <2>1, <3>1 DEF MovesTo, SamePlace, Queues, Content
    <2>4. Len(run[t]) + 1 \in Nat /\ 0 \in Nat /\ {"run", "nowhere"} \subseteq Places
        BY LenProperties DEF TypeOK, Places, Queues
    <2>5. NothingTwice' /\ Held' = Held \cup {y}
        BY <1>0, <2>3, <2>4, Move
    <2>. QED BY <1>0, <2>1, <2>2, <2>5, Inv1HeldNext
<1>5. ASSUME NEW y \in Outside, NotifyFromOutside(y)
      PROVE  Inv1'
    <2>1. /\ y \in Threads /\ y \in blocked /\ blocked' = blocked \ {y}
          /\ tasks' = Append(tasks, y)
          /\ UNCHANGED <<run, sleeping, due, batch, done>>
        BY <1>5, PoolAssumption DEF NotifyFromOutside, Pop
    <2>2. Unfinished' = Unfinished
        <3>1. Woken(pc, pc')
            BY <1>5, NotifyOneWakes DEF NotifyFromOutside, TypeOK
        <3>. QED BY <2>1, <3>1, WokenKeeps DEF Unfinished
    <2>3. MovesTo(y, "nowhere", y, 0, "tasks", y, Len(tasks) + 1)
        <3>1. With(tasks, Len(tasks) + 1, y, tasks')
            BY <2>1, AppendWith DEF TypeOK
        <3>. QED BY <1>0, <2>1, <3>1 DEF MovesTo, SamePlace, Queues, Content
    <2>4. Len(tasks) + 1 \in Nat /\ 0 \in Nat /\ {"tasks", "nowhere"} \subseteq Places
        BY LenProperties DEF TypeOK, Places, Queues
    <2>5. NothingTwice' /\ Held' = Held \cup {y}
        BY <1>0, <2>1, <2>3, <2>4, Move
    <2>. QED BY <1>0, <2>1, <2>2, <2>5, Inv1HeldNext
<1>6. ASSUME NEW t \in Threads, NEW x \in Threads, Finish(t, x)
      PROVE  Inv1'
    <2>1. /\ Innermost(t, x) /\ run' = Popped(t) /\ done' = done \cup {x}
          /\ UNCHANGED <<pc, tasks, sleeping, due, batch, blocked>>
        BY <1>6 DEF Finish, Runs
    <2>2. Unfinished' = Unfinished \ {x}
        BY <2>1 DEF Unfinished, Started
    <2>3. MovesTo(x, "run", t, Len(run[t]), "nowhere", t, 0)
        BY <2>1, PoppedWithout DEF MovesTo, SamePlace, Queues, Content
    <2>4. Len(run[t]) \in Nat /\ 0 \in Nat /\ {"run", "nowhere"} \subseteq Places
        BY LenProperties DEF TypeOK, Places, Queues
    <2>5. NothingTwice' /\ Held' = Held \ {x} /\ x \in Held
        BY <2>3, <2>4, <1>0, Move
    <2>. QED BY <1>0, <2>1, <2>2, <2>5, Inv1HeldNext
<1>7. ASSUME NEW t \in Threads, Start(t)
      PROVE  Inv1'
    <2>1. /\ pc[t] = "out" /\ pc' = [pc EXCEPT ![t] = "start"]
          /\ run' = [run EXCEPT ![t] = <<t>>]
          /\ UNCHANGED <<tasks, sleeping, due, batch, blocked, done>>
        BY <1>7 DEF Start
    <2>2. Unfinished' = Unfinished \cup {t} /\ t \notin Unfinished
        BY <2>1 DEF Unfinished, Started, DoneStarted, TypeOK
    <2>3. MovesTo(t, "nowhere", t, 0, "run", t, 1)
        <3>1. run[t] = <<>> /\ Len(<<>>) = 0
            BY <2>1 DEF RunsWhereItMay
        <3>2. run'[t] = <<t>> /\ \A u \in Threads \ {t} : run'[u] = run[u]
            BY <2>1 DEF TypeOK
        <3>3. With(run[t], 1, t, run'[t])
            BY <3>1, <3>2 DEF With
        <3>4. t \notin Held
            BY <1>0, <2>2
        <3>. QED BY <2>1, <3>2, <3>3, <3>4 DEF MovesTo, SamePlace, Queues, Content
    <2>4. 1 \in Nat /\ 0 \in Nat /\ {"run", "nowhere"} \subseteq Places
        BY DEF Places, Queues
    <2>5. NothingTwice' /\ Held' = Held \cup {t}
        BY <1>0, <2>3, <2>4, Move
    <2>. QED BY <1>0, <2>1, <2>2, <2>5, Inv1HeldNext
<1>8. ASSUME NEW t \in Threads, Take(t)
      PROVE  Inv1'
    <2>1. NothingTwice' /\ Held' = Held
        BY <1>0, <1>8, Inv1Take
    <2>2. Started' = Started /\ UNCHANGED <<blocked, done>>
        BY <1>8, TakeMoves DEF Take, Started, Asleep
    <2>3. Unfinished' = Unfinished
        BY <2>2 DEF Unfinished
    <2>. QED BY <1>0, <2>1, <2>2, <2>3, Inv1HeldNext
<1>9. ASSUME NEW t \in Threads, Resume(t)
      PROVE  Inv1'
    <2>1. /\ run[t] = <<>> /\ batch[t] # <<>> /\ batch[t] \in Seq(Threads)
          /\ run' = [run EXCEPT ![t] = <<Head(batch[t])>>]
          /\ batch' = [batch EXCEPT ![t] = Tail(batch[t])]
          /\ UNCHANGED <<pc, tasks, sleeping, due, blocked, done>>
        BY <1>9 DEF Resume, TypeOK
    <2>2. Unfinished' = Unfinished
        BY <2>1 DEF Unfinished, Started
    <2>3. Head(batch[t]) \in Threads
        BY <2>1, HeadTailProperties
    <2>4. MovesTo(Head(batch[t]), "batch", t, 1, "run", t, 1)
        <3>1. /\ batch'[t] = Tail(batch[t]) /\ \A u \in Threads \ {t} : batch'[u] = batch[u]
              /\ run'[t] = <<Head(batch[t])>> /\ \A u \in Threads \ {t} : run'[u] = run[u]
            BY <2>1 DEF TypeOK
        <3>2. Without(batch[t], 1, batch'[t]) /\ batch[t][1] = Head(batch[t])
            BY <2>1, <3>1, TailWithout
        <3>3. With(run[t], 1, Head(batch[t]), run'[t])
            BY <2>1, <3>1 DEF With
        <3>. QED BY <2>1, <3>1, <3>2, <3>3 DEF MovesTo, SamePlace, Queues, Content
    <2>5. 1 \in Nat /\ {"run", "batch"} \subseteq Places
        BY DEF Places, Queues
    <2>6. NothingTwice' /\ Held' = Held
        BY <1>0, <2>3, <2>4, <2>5, Move
    <2>. QED BY <1>0, <2>1, <2>2, <2>6, Inv1HeldNext
<1>10. ASSUME Tick
       PROVE  Inv1'
    <2>1. /\ sleeping # <<>> /\ sleeping \in Seq(Threads) /\ due \in Seq(Threads)
          /\ sleeping' = Tail(sleeping) /\ due' = Append(due, Head(sleeping))
          /\ UNCHANGED <<pc, tasks, run, batch, blocked, done>>
        BY <1>10 DEF Tick, TypeOK
    <2>2. Unfinished' = Unfinished
        BY <2>1 DEF Unfinished, Started
    <2>3. Head(sleeping) \in Threads
        BY <2>1, HeadTailProperties
    <2>4. PICK t \in Threads : t = Head(sleeping)
        BY <2>3
    <2>5. MovesTo(t, "sleeping", t, 1, "due", t, Len(due) + 1)
        <3>1. Without(sleeping, 1, sleeping') /\ sleeping[1] = t
            BY <2>1, <2>4, TailWithout
        <3>2. With(due, Len(due) + 1, t, due')
            BY <2>1, <2>4, AppendWith
        <3>. QED BY <2>1, <3>1, <3>2 DEF MovesTo, SamePlace, Queues, Content
    <2>6. 1 \in Nat /\ Len(due) + 1 \in Nat /\ {"sleeping", "due"} \subseteq Places
        BY <2>1, LenProperties DEF Places, Queues
    <2>7. NothingTwice' /\ Held' = Held
        BY <1>0, <2>5, <2>6, Move
    <2>. QED BY <1>0, <2>1, <2>2, <2>7, Inv1HeldNext
<1>11. ASSUME NEW a \in Agents, NotifyDecrement(a)
       PROVE  Inv1'
    <2>1. Woken(pc, pc')
        BY <1>11, NotifyOneWakes DEF NotifyDecrement, TypeOK
    <2>2. Unfinished' = Unfinished
        BY <1>11, <2>1, WokenKeeps DEF Unfinished, NotifyDecrement
    <2>. QED BY <1>11, <2>2, Inv1Unchanged DEF NotifyDecrement
<1>12. ASSUME NEW t \in Threads, Announce(t) \/ Drain(t)
       PROVE  Inv1'
    <2>1. Started' = Started
        BY <1>12, AnnounceMoves, DrainMoves DEF Announce, Drain, Started, Asleep
    <2>. QED BY <1>12, <2>1, Inv1Unchanged DEF Announce, Drain, Unfinished
<1>13. ASSUME NEW t \in Threads,
              \/ Register(t) \/ EndBatch(t) \/ Check(t) \/ Wait(t) \/ TimedWake(t)
              \/ SpuriousWake(t) \/ Leave(t) \/ Park(t) \/ TakeResult(t)
       PROVE  Inv1'
    <2>1. PICK l \in Location \ {"out"} : pc[t] # "out" /\ pc' = [pc EXCEPT ![t] = l]
        BY <1>13 DEF Register, EndBatch, Check, Wait, TimedWake, SpuriousWake, Leave,
                     Park, TakeResult, Location, InLoop, Asleep
    <2>2. Started' = Started
        BY <2>1 DEF Started, TypeOK
    <2>3. UNCHANGED <<tasks, sleeping, due, run, batch, blocked, done>>
        BY <1>13 DEF Register, EndBatch, Check, Wait, TimedWake, SpuriousWake, Leave,
                     Park, TakeResult
    <2>. QED BY <2>2, <2>3, Inv1Unchanged DEF Unfinished
<1>14. ASSUME NEW a \in Agents, DecrementExternalWork(a)
       PROVE  Inv1'
    BY <1>14, Inv1Unchanged DEF DecrementExternalWork, Unfinished, Started
<1>15. CASE UNCHANGED vars
    BY <1>15, Inv1Unchanged DEF vars, Unfinished, Started
<1>. QED
    BY <1>1, <1>2, <1>3, <1>4, <1>5, <1>6, <1>7, <1>8, <1>9, <1>10, <1>11, <1>12,
       <1>13, <1>14, <1>15
    DEF Next, CoroutineStep, LoopStep

-----------------------------------------------------------------------------
(***************************************************************************)
(* Where coroutines run, who is counted, who is done                       *)
(***************************************************************************)

\* The innermost coroutine of a stack is held, so it is unfinished and not blocked.
LEMMA InnermostHeld ==
    ASSUME TypeOK, Inv1, NEW t \in Threads, NEW x, Innermost(t, x)
    PROVE  x \in Threads /\ x \in Unfinished \ blocked
<1>1. run[t] \in Seq(Threads) /\ run[t] # <<>> /\ x = Last(run[t])
    BY DEF TypeOK, Innermost
<1>2. x = run[t][Len(run[t])] /\ Len(run[t]) \in 1..Len(run[t]) /\ x \in Threads
    BY <1>1, FrontProperties
<1>3. Content("run", t) = run[t] /\ "run" \in Queues
    BY DEF Content, Queues
<1>4. x \in Held
    BY <1>1, <1>2, <1>3, HeldSlots, LenProperties
<1>. QED BY <1>2, <1>4, Inv1Held

\* What a step may do to the location of a thread, and to what runs on it.
LEMMA RunsStep ==
    ASSUME TypeOK, RunsWhereItMay, [Next]_vars
    PROVE  RunsWhereItMay'
<1>. USE DEF ready, work, leaving
<1>1. ASSUME NEW t \in Threads, NEW x \in Threads,
             Yield(t, x) \/ Sleep(t, x) \/ Block(t, x) \/ Finish(t, x)
      PROVE  RunsWhereItMay'
    <2>1. /\ Woken(pc, pc') \/ pc' = pc
          /\ Innermost(t, x) /\ run' = Popped(t) /\ batch' = batch
        BY <1>1, NotifyOneWakes DEF Yield, Sleep, Block, Finish, Runs, Suspends, TypeOK
    <2>2. /\ pc[t] \in {"start", "run"}
          /\ \A u \in Threads \ {t} : run'[u] = run[u]
        BY <2>1, PoppedProperties DEF Innermost, RunsWhereItMay
    <2>. QED BY <2>1, <2>2 DEF RunsWhereItMay, Woken, Asleep
<1>2. ASSUME NEW t \in Threads, NEW x \in Threads, NEW y \in Threads, NotifyPeer(t, x, y)
      PROVE  RunsWhereItMay'
    <2>1. /\ run[t] # <<>> /\ UNCHANGED <<pc, batch>>
          /\ \A u \in Threads \ {t} : run'[u] = run[u]
        BY <1>2 DEF NotifyPeer, Runs, Innermost, TypeOK
    <2>. QED BY <2>1 DEF RunsWhereItMay
<1>3. CASE \/ \E y \in Outside : NotifyFromOutside(y)
           \/ \E a \in Agents : NotifyDecrement(a)
    <2>1. Woken(pc, pc') /\ UNCHANGED <<run, batch>>
        BY <1>3, NotifyOneWakes DEF NotifyFromOutside, NotifyDecrement, TypeOK
    <2>. QED BY <2>1 DEF RunsWhereItMay, Woken, Asleep
<1>4. ASSUME NEW t \in Threads, Start(t)
      PROVE  RunsWhereItMay'
    <2>1. /\ pc[t] = "out" /\ pc'[t] = "start" /\ batch' = batch
          /\ \A u \in Threads \ {t} : run'[u] = run[u] /\ pc'[u] = pc[u]
        BY <1>4 DEF Start, TypeOK
    <2>. QED BY <2>1 DEF RunsWhereItMay
<1>5. ASSUME NEW t \in Threads, Take(t)
      PROVE  RunsWhereItMay'
    <2>1. /\ pc[t] = "take" /\ run' = run /\ batch'[t] = Taken
          /\ \A u \in Threads \ {t} : batch'[u] = batch[u]
        BY <1>5 DEF Take, TypeOK
    <2>2. /\ pc'[t] = IF Taken = <<>> THEN "check" ELSE "run"
          /\ \A u \in Threads \ {t} : pc'[u] = pc[u] \/ (pc[u] \in Asleep /\ pc'[u] = "take")
        BY <1>5, TakeMoves
    <2>. QED BY <2>1, <2>2 DEF RunsWhereItMay, Asleep
<1>6. ASSUME NEW t \in Threads, Resume(t)
      PROVE  RunsWhereItMay'
    <2>1. /\ pc[t] = "run" /\ pc' = pc
          /\ \A u \in Threads \ {t} : batch'[u] = batch[u] /\ run'[u] = run[u]
        BY <1>6 DEF Resume, TypeOK
    <2>. QED BY <2>1 DEF RunsWhereItMay
<1>7. ASSUME NEW t \in Threads, Announce(t) \/ Drain(t)
      PROVE  RunsWhereItMay'
    <2>1. /\ \A u \in Threads : pc'[u] = pc[u] \/ pc[u] \in Asleep \cup {"parked", "announce", "drain"}
          /\ UNCHANGED <<run, batch>>
        BY <1>7, AnnounceMoves, DrainMoves DEF Announce, Drain
    <2>. QED BY <2>1 DEF RunsWhereItMay, Asleep
<1>8. ASSUME NEW t \in Threads,
              \/ Register(t) \/ EndBatch(t) \/ Check(t) \/ Wait(t) \/ TimedWake(t)
              \/ SpuriousWake(t) \/ Leave(t) \/ Park(t) \/ TakeResult(t)
      PROVE  RunsWhereItMay'
    <2>1. /\ UNCHANGED <<run, batch>> /\ \A u \in Threads \ {t} : pc'[u] = pc[u]
          /\ run[t] = <<>> /\ batch[t] = <<>>
        BY <1>8 DEF Register, EndBatch, Check, Wait, TimedWake, SpuriousWake, Leave,
                    Park, TakeResult, RunsWhereItMay, Asleep, TypeOK
    <2>. QED BY <2>1 DEF RunsWhereItMay
<1>9. CASE Tick \/ (\E a \in Agents : DecrementExternalWork(a)) \/ UNCHANGED vars
    <2>1. UNCHANGED <<pc, run, batch>>
        BY <1>9 DEF Tick, DecrementExternalWork, vars
    <2>. QED BY <2>1 DEF RunsWhereItMay
<1>. QED BY <1>1, <1>2, <1>3, <1>4, <1>5, <1>6, <1>7, <1>8, <1>9
         DEF Next, CoroutineStep, LoopStep

\* A coroutine gives its unit of external work back only after it has been popped
\* from the condition variable and resumed.
LEMMA BlockedCountsStep ==
    ASSUME TypeOK, Inv1, BlockedCounts, [Next]_vars
    PROVE  BlockedCounts'
<1>. USE DEF ready, work, leaving
<1>1. ASSUME NEW t \in Threads, NEW x \in Threads, Block(t, x)
      PROVE  BlockedCounts'
    BY <1>1 DEF Block, Count, BlockedCounts
<1>2. CASE \/ \E t, x, y \in Threads : NotifyPeer(t, x, y)
           \/ \E y \in Outside : NotifyFromOutside(y)
    BY <1>2 DEF NotifyPeer, NotifyFromOutside, Pop, BlockedCounts
<1>3. ASSUME NEW a \in Agents, DecrementExternalWork(a)
      PROVE  BlockedCounts'
    <2>1. counted' = counted \ {a} /\ blocked' = blocked
        BY <1>3 DEF DecrementExternalWork
    <2>2. CASE a \in Holders
        BY <2>1, <2>2, PoolAssumption DEF BlockedCounts, TypeOK
    <2>3. CASE \E t \in Threads : Innermost(t, a)
        BY <2>1, <2>3, InnermostHeld DEF BlockedCounts
    <2>. QED BY <1>3, <2>2, <2>3 DEF DecrementExternalWork
<1>4. ASSUME UNCHANGED <<blocked, counted>>
      PROVE  BlockedCounts'
    BY <1>4 DEF BlockedCounts
<1>. QED
    BY <1>1, <1>2, <1>3, <1>4
    DEF Next, CoroutineStep, LoopStep, vars, Yield, Sleep, Finish, NotifyDecrement,
        Start, Register, Take, Resume, EndBatch, Check, Wait, TimedWake, SpuriousWake,
        Tick, Leave, Announce, Drain, Park, TakeResult

\* No step makes a started coroutine one that has not started.
LEMMA StartedGrows ==
    ASSUME TypeOK, [Next]_vars
    PROVE  Started \subseteq Started'
<1>1. CASE \/ \E t, x \in Threads : Yield(t, x) \/ Sleep(t, x)
           \/ \E y \in Outside : NotifyFromOutside(y)
           \/ \E a \in Agents : NotifyDecrement(a)
    <2>1. Woken(pc, pc')
        BY <1>1, NotifyOneWakes DEF Yield, Sleep, NotifyFromOutside, NotifyDecrement, TypeOK
    <2>. QED BY <2>1, WokenKeeps
<1>2. ASSUME NEW t \in Threads, Take(t) \/ Announce(t) \/ Drain(t)
      PROVE  Started \subseteq Started'
    BY <1>2, TakeMoves, AnnounceMoves, DrainMoves DEF Started
<1>3. ASSUME NEW t \in Threads,
              \/ Start(t) \/ Register(t) \/ EndBatch(t) \/ Check(t) \/ Wait(t) \/ TimedWake(t)
              \/ SpuriousWake(t) \/ Leave(t) \/ Park(t) \/ TakeResult(t)
      PROVE  Started \subseteq Started'
    BY <1>3 DEF Start, Register, EndBatch, Check, Wait, TimedWake, SpuriousWake, Leave,
                Park, TakeResult, Started, TypeOK
<1>4. ASSUME UNCHANGED pc
      PROVE  Started \subseteq Started'
    BY <1>4 DEF Started
<1>. QED
    BY <1>1, <1>2, <1>3, <1>4
    DEF Next, CoroutineStep, LoopStep, vars, Block, Finish, NotifyPeer,
        DecrementExternalWork, Resume, Tick

\* A root that puts its result was running, hence started.
LEMMA DoneStartedStep ==
    ASSUME TypeOK, Inv1, DoneStarted, [Next]_vars
    PROVE  DoneStarted'
<1>. USE DEF ready, work, leaving
<1>1. ASSUME NEW t \in Threads, NEW x \in Threads, Finish(t, x)
      PROVE  DoneStarted'
    <2>1. x \in Started /\ done' = done \cup {x} /\ pc' = pc
        BY <1>1, InnermostHeld DEF Finish, Runs, Unfinished
    <2>. QED BY <2>1 DEF DoneStarted, Started
<1>2. ASSUME UNCHANGED done
      PROVE  DoneStarted'
    BY <1>2, StartedGrows DEF DoneStarted
<1>. QED
    BY <1>1, <1>2
    DEF Next, CoroutineStep, LoopStep, vars, Yield, Sleep, Block, NotifyPeer,
        NotifyFromOutside, NotifyDecrement, DecrementExternalWork, Start, Register,
        Take, Resume, EndBatch, Check, Wait, TimedWake, SpuriousWake, Tick, Leave,
        Announce, Drain, Park, TakeResult

\* The decision to leave: when nothing is left in the queues and nobody is owed
\* external work, every unfinished coroutine is on another thread of the loop, or
\* on one that is about to enter it.
LEMMA LeaveIsSafe ==
    ASSUME TypeOK, Counts, RunsWhereItMay, BlockedCounts, Inv1,
           NEW t \in Threads, pc[t] = "check", NothingLeft, Unfinished # {}
    PROVE  \E u \in Threads \ {t} : pc[u] \in {"start", "run"}
<1>1. /\ tasks = <<>> /\ sleeping = <<>> /\ due = <<>> /\ Cardinality(counted) = 0
    BY DEF NothingLeft, Counts
<1>2. counted = {}
    <2>1. IsFiniteSet(counted)
        BY AgentsFinite DEF TypeOK
    <2>. QED BY <1>1, <2>1, FS_EmptySet
<1>3. PICK x \in Unfinished : x \in Held
    BY <1>2, Inv1Held DEF BlockedCounts
<1>4. PICK q \in Queues, u \in Threads : \E i \in DOMAIN Content(q, u) : x = Content(q, u)[i]
    BY <1>3, HeldSlots
<1>5. Content(q, u) # <<>>
    <2>1. PICK i \in 1..Len(Content(q, u)) : TRUE
        BY <1>4, ContentType
    <2>. QED BY <2>1
<1>6. q \in {"run", "batch"} /\ (run[u] # <<>> \/ batch[u] # <<>>)
    BY <1>1, <1>5 DEF Content, Queues
<1>. QED BY <1>6 DEF RunsWhereItMay

\* No step leaves unfinished coroutines without a thread in the loop.
LEMMA NoOrphanedWorkStep ==
    ASSUME IInv, [Next]_vars
    PROVE  NoOrphanedWork'
<1>. USE DEF ready, work, leaving
<1>. DEFINE Busy == \E t \in Threads : pc[t] \in InLoop \cup {"start"}
<1>0. TypeOK /\ Inv1 /\ (Unfinished # {} => Busy) /\ NoOrphanedWork
    BY DEF IInv, NoOrphanedWork
<1>1. ASSUME NEW t \in Threads, Start(t)
      PROVE  NoOrphanedWork'
    <2>1. pc'[t] = "start"
        BY <1>0, <1>1 DEF Start, TypeOK
    <2>. QED BY <2>1 DEF NoOrphanedWork
<1>2. ASSUME NEW t \in Threads, Check(t)
      PROVE  NoOrphanedWork'
    <2>1. CASE NothingLeft /\ Unfinished # {}
        <3>1. PICK u \in Threads \ {t} : pc[u] \in {"start", "run"}
            BY <1>2, <2>1, LeaveIsSafe DEF IInv, Check
        <3>2. pc'[u] = pc[u]
            BY <1>0, <1>2 DEF Check, TypeOK
        <3>. QED BY <3>1, <3>2 DEF NoOrphanedWork, InLoop
    <2>2. CASE ~NothingLeft
        <3>1. pc'[t] = "wait"
            BY <1>0, <1>2, <2>2 DEF Check, TypeOK
        <3>. QED BY <3>1 DEF NoOrphanedWork, InLoop
    <2>3. CASE Unfinished = {}
        <3>1. Started' = Started /\ done' = done
            BY <1>0, <1>2 DEF Check, Started, TypeOK
        <3>. QED BY <2>3, <3>1 DEF NoOrphanedWork, Unfinished
    <2>. QED BY <2>1, <2>2, <2>3
\* Every other step keeps the threads of the loop in it and starts no coroutine.
<1>3. ASSUME Unfinished' \subseteq Unfinished,
             \A t \in Threads : pc[t] \in InLoop \cup {"start"} => pc'[t] \in InLoop \cup {"start"}
      PROVE  NoOrphanedWork'
    BY <1>0, <1>3 DEF NoOrphanedWork
<1>4. CASE \/ \E t, x \in Threads : Yield(t, x) \/ Sleep(t, x)
           \/ \E y \in Outside : NotifyFromOutside(y)
           \/ \E a \in Agents : NotifyDecrement(a)
    <2>1. Woken(pc, pc') /\ done' = done
        BY <1>0, <1>4, NotifyOneWakes
        DEF Yield, Sleep, NotifyFromOutside, NotifyDecrement, TypeOK
    <2>. QED BY <1>0, <1>3, <2>1, WokenKeeps DEF Unfinished
<1>5. CASE \/ \E t, x \in Threads : Block(t, x) \/ Finish(t, x)
           \/ \E t, x, y \in Threads : NotifyPeer(t, x, y)
           \/ \E a \in Agents : DecrementExternalWork(a)
           \/ \E t \in Threads : Resume(t)
           \/ Tick \/ UNCHANGED vars
    <2>1. pc' = pc /\ done \subseteq done'
        BY <1>5 DEF Block, Finish, NotifyPeer, DecrementExternalWork, Resume, Tick, vars
    <2>. QED BY <1>3, <2>1 DEF Unfinished, Started
<1>6. ASSUME NEW t \in Threads, Take(t) \/ Announce(t) \/ Drain(t)
      PROVE  NoOrphanedWork'
    <2>1. /\ done' = done /\ pc[t] \in {"take", "announce", "drain"}
          /\ pc[t] = "take" => pc'[t] \in {"check", "run"}
          /\ pc'[t] # "out"
          /\ \A u \in Threads \ {t} : \/ pc'[u] = pc[u]
                                      \/ pc[u] \in Asleep /\ pc'[u] = "take"
                                      \/ pc[u] = "parked" /\ pc'[u] = "drain"
        BY <1>0, <1>6, TakeMoves, AnnounceMoves, DrainMoves DEF Take, Announce, Drain
    <2>2. Started' = Started
        BY <2>1 DEF Started, Asleep
    <2>3. \A u \in Threads : pc[u] \in InLoop \cup {"start"} => pc'[u] \in InLoop \cup {"start"}
        BY <2>1 DEF InLoop, Asleep
    <2>. QED BY <1>3, <2>1, <2>2, <2>3 DEF Unfinished
<1>7. ASSUME NEW t \in Threads,
             \/ Register(t) \/ EndBatch(t) \/ Wait(t) \/ TimedWake(t) \/ SpuriousWake(t)
             \/ Leave(t) \/ Park(t) \/ TakeResult(t)
      PROVE  NoOrphanedWork'
    <2>1. /\ done' = done /\ pc[t] # "out" /\ pc'[t] # "out"
          /\ \A u \in Threads \ {t} : pc'[u] = pc[u]
          /\ pc[t] \in InLoop \cup {"start"} => pc'[t] \in InLoop \cup {"start"}
        BY <1>0, <1>7 DEF Register, EndBatch, Wait, TimedWake, SpuriousWake, Leave, Park,
                          TakeResult, TypeOK, InLoop, Asleep
    <2>2. Started' = Started
        BY <2>1 DEF Started
    <2>. QED BY <1>3, <2>1, <2>2 DEF Unfinished
<1>. QED
    BY <1>1, <1>2, <1>4, <1>5, <1>6, <1>7 DEF Next, CoroutineStep, LoopStep

\* The invariant is inductive.
THEOREM NextIInv == IInv /\ [Next]_vars => IInv'
<1>. SUFFICES ASSUME IInv, [Next]_vars PROVE IInv'
    OBVIOUS
<1>1. TypeOK' /\ Counts'
    BY TypeStep DEF IInv
<1>2. Inv1'
    BY <1>1, Inv1Step DEF IInv
<1>3. RunsWhereItMay' /\ BlockedCounts' /\ DoneStarted'
    BY RunsStep, BlockedCountsStep, DoneStartedStep DEF IInv
<1>4. NoOrphanedWork'
    BY NoOrphanedWorkStep
<1>. QED BY <1>1, <1>2, <1>3, <1>4 DEF IInv

\* The invariant holds in every reachable state.
THEOREM PoolInvariant == Spec => []IInv
BY InitIInv, NextIInv, PTL DEF Spec

\* The unsigned counters external_work and active_threads never wrap, and the
\* other variables keep their types.
THEOREM PoolTypeOK == Spec => []TypeOK
BY PoolInvariant, PTL DEF IInv

\* However many threads call block_on, with whatever batches and whoever notifies
\* whom, every coroutine is in exactly one place: none is lost or resumed twice.
THEOREM PoolInv1 == Spec => []Inv1
BY PoolInvariant, PTL DEF IInv

\* The last thread never leaves the loop while a coroutine has not finished.
THEOREM PoolNoOrphanedWork == Spec => []NoOrphanedWork
BY PoolInvariant, PTL DEF IInv

-----------------------------------------------------------------------------
(***************************************************************************)
(* Leaving                                                                 *)
(***************************************************************************)

\* A thread goes from draining to its result in Drain only, and only once the
\* counter of active threads is zero.
LEMMA ResultNeedsZero ==
    ASSUME TypeOK, [Next]_vars, NEW t \in Threads, pc[t] = "drain", pc'[t] = "result"
    PROVE  activeThreads = 0
<1>. USE DEF ready, work, leaving
<1>1. CASE \/ \E u, x \in Threads : Yield(u, x) \/ Sleep(u, x)
           \/ \E y \in Outside : NotifyFromOutside(y)
           \/ \E a \in Agents : NotifyDecrement(a)
    <2>1. Woken(pc, pc')
        BY <1>1, NotifyOneWakes DEF Yield, Sleep, NotifyFromOutside, NotifyDecrement, TypeOK
    <2>. QED BY <2>1 DEF Woken
<1>2. ASSUME NEW u \in Threads, Take(u) \/ Announce(u)
      PROVE  FALSE
    BY <1>2, TakeMoves, AnnounceMoves DEF Take, Asleep
<1>3. ASSUME NEW u \in Threads, Drain(u)
      PROVE  activeThreads = 0
    <2>1. CASE AllLeft
        BY <2>1 DEF AllLeft
    <2>2. CASE ~AllLeft
        <3>1. pc' = [NotifyAll(pc) EXCEPT ![u] = "parking"]
            BY <1>3, <2>2 DEF Drain
        <3>2. Woken(pc, NotifyAll(pc))
            BY NotifyAllWakes DEF TypeOK
        <3>. QED BY <3>1, <3>2 DEF Woken
    <2>. QED BY <2>1, <2>2
<1>4. ASSUME NEW u \in Threads,
              \/ Start(u) \/ Register(u) \/ EndBatch(u) \/ Check(u) \/ Wait(u) \/ TimedWake(u)
              \/ SpuriousWake(u) \/ Leave(u) \/ Park(u) \/ TakeResult(u)
      PROVE  FALSE
    BY <1>4 DEF Start, Register, EndBatch, Check, Wait, TimedWake, SpuriousWake, Leave,
                Park, TakeResult, Asleep, TypeOK
<1>. QED
    BY <1>1, <1>2, <1>3, <1>4
    DEF Next, CoroutineStep, LoopStep, vars, Block, Finish, NotifyPeer,
        DecrementExternalWork, Resume, Tick

\* A thread that stops waiting for the others has the result of its own root,
\* unless another block_on is just starting.
THEOREM PoolDrainsToResult == Spec => DrainsToResult
<1>1. ASSUME IInv, [Next]_vars, NEW t \in Threads, pc[t] = "drain", pc'[t] = "result"
      PROVE  t \in done \/ \E u \in Threads : pc[u] = "start"
    <2>1. TypeOK /\ Counts /\ NoOrphanedWork
        BY <1>1 DEF IInv
    <2>2. Cardinality(Registered) = 0
        BY <1>1, <2>1, ResultNeedsZero DEF Counts
    <2>3. Registered = {}
        <3>1. IsFiniteSet(Registered)
            BY AgentsFinite DEF Registered
        <3>. QED BY <2>2, <3>1, FS_EmptySet
    <2>4. \A u \in Threads : pc[u] \notin InLoop
        BY <2>3 DEF Registered
    <2>5. t \notin done => t \in Unfinished
        BY <1>1 DEF Unfinished, Started
    <2>. QED BY <2>1, <2>4, <2>5 DEF NoOrphanedWork
<1>2. IInv /\ [Next]_vars =>
          [\A t \in Threads : pc[t] = "drain" /\ pc'[t] = "result" =>
               t \in done \/ \E u \in Threads : pc[u] = "start"]_vars
    BY <1>1
<1>. QED BY <1>2, PoolInvariant, PTL DEF Spec, DrainsToResult

\* No step leaves ready work to sleeping threads, except what other threads spawn.
LEMMA WorkIsAttendedStep ==
    ASSUME IInv, WorkIsAttended, [Next]_vars
    PROVE  WorkIsAttended'
<1>. USE DEF ready, work, leaving
<1>0. TypeOK /\ RunsWhereItMay
    BY DEF IInv
<1>1. ASSUME NEW t \in Threads, NEW x \in Threads, Yield(t, x)
      PROVE  WorkIsAttended'
    <2>1. pc[t] \in {"start", "run"} /\ Woken(pc, pc')
        BY <1>0, <1>1, NotifyOneWakes
        DEF Yield, Runs, Innermost, RunsWhereItMay, TypeOK
    <2>. QED BY <1>0, <2>1, WokenKeeps DEF WorkIsAttended
<1>2. ASSUME NEW t \in Threads, Take(t)
      PROVE  WorkIsAttended'
    <2>1. /\ TakeCount \in 0..Len(tasks) /\ Taken \in Seq(Threads) /\ Len(Taken) = TakeCount + Len(due)
          /\ tasks' \in Seq(Threads) /\ Len(tasks') = Len(tasks) - TakeCount
          /\ Len(due) \in Nat /\ Len(tasks) \in Nat
        BY <1>0, <1>2, TakenProperties, PoolAssumption, LenProperties DEF Take, TypeOK
    <2>2. CASE tasks' = <<>>
        BY <2>2 DEF WorkIsAttended, ToSet
    <2>3. CASE tasks' # <<>>
        <3>1. Len(tasks') # 0
            BY <2>1, <2>3, EmptySeq
        <3>2. TakeCount = Batch /\ Batch \in Nat \ {0}
            BY <2>1, <3>1, PoolAssumption DEF TakeCount
        <3>3. Taken # <<>>
            <4>1. Len(Taken) # 0
                BY <2>1, <3>2
            <4>. QED BY <4>1, EmptySeq
        <3>4. pc'[t] = "run"
            BY <1>0, <1>2, <3>3, TakeMoves
        <3>. QED BY <3>4 DEF WorkIsAttended
    <2>. QED BY <2>2, <2>3
<1>3. ASSUME tasks' = tasks,
             \A t \in Threads : pc[t] \in {"start", "take", "run"} => pc'[t] \in {"start", "take", "run"}
      PROVE  WorkIsAttended'
    BY <1>3 DEF WorkIsAttended
<1>4. CASE \/ \E t, x \in Threads : Sleep(t, x)
           \/ \E a \in Agents : NotifyDecrement(a)
    <2>1. Woken(pc, pc') /\ tasks' = tasks
        BY <1>0, <1>4, NotifyOneWakes DEF Sleep, NotifyDecrement, TypeOK
    <2>. QED BY <1>3, <2>1 DEF Woken
<1>5. ASSUME NEW t \in Threads, Announce(t) \/ Drain(t)
      PROVE  WorkIsAttended'
    <2>1. /\ tasks' = tasks /\ pc[t] \in {"announce", "drain"}
          /\ \A u \in Threads \ {t} : \/ pc'[u] = pc[u]
                                      \/ pc[u] \in Asleep \cup {"parked"}
        BY <1>0, <1>5, AnnounceMoves, DrainMoves DEF Announce, Drain
    <2>. QED BY <1>3, <2>1 DEF Asleep
<1>6. ASSUME NEW t \in Threads,
             \/ Start(t) \/ Register(t) \/ EndBatch(t) \/ Check(t) \/ Wait(t) \/ TimedWake(t)
             \/ SpuriousWake(t) \/ Leave(t) \/ Park(t) \/ TakeResult(t)
      PROVE  WorkIsAttended'
    <2>1. /\ tasks' = tasks /\ \A u \in Threads \ {t} : pc'[u] = pc[u]
          /\ pc[t] \in {"start", "take", "run"} => pc'[t] \in {"start", "take", "run"}
        BY <1>0, <1>6 DEF Start, Register, EndBatch, Check, Wait, TimedWake, SpuriousWake,
                          Leave, Park, TakeResult, TypeOK, Asleep
    <2>. QED BY <1>3, <2>1
<1>7. CASE UNCHANGED <<tasks, pc>>
    BY <1>7 DEF WorkIsAttended
<1>8. ASSUME NEW y \in Outside, NotifyFromOutside(y)
      PROVE  WorkIsAttended'
    <2>1. Woken(pc, pc') /\ tasks' = Append(tasks, y) /\ y \in Threads /\ tasks \in Seq(Threads)
        BY <1>0, <1>8, NotifyOneWakes, PoolAssumption DEF NotifyFromOutside, TypeOK
    <2>2. ToSet(tasks') = ToSet(tasks) \cup {y}
        BY <2>1, AppendProperties DEF ToSet
    <2>3. CASE ToSet(tasks) \subseteq Outside
        BY <2>2, <2>3 DEF WorkIsAttended
    <2>4. CASE \E t \in Threads : pc[t] \in {"start", "take", "run"}
        BY <1>0, <2>1, <2>4, WokenKeeps DEF WorkIsAttended, Woken
    <2>. QED BY <2>3, <2>4 DEF WorkIsAttended
<1>. QED
    BY <1>1, <1>2, <1>4, <1>5, <1>6, <1>7, <1>8
    DEF Next, CoroutineStep, LoopStep, vars, Block, Finish, NotifyPeer,
        DecrementExternalWork, Resume, Tick

\* Ready work that the pool itself has spawned never waits for threads that are all
\* asleep, whatever other threads spawn.
THEOREM PoolWorkIsAttended == Spec => []WorkIsAttended
<1>1. Init => WorkIsAttended
    BY DEF Init, WorkIsAttended, ToSet
<1>2. IInv /\ WorkIsAttended /\ [Next]_vars => WorkIsAttended'
    BY WorkIsAttendedStep
<1>. QED BY <1>1, <1>2, PoolInvariant, PTL DEF Spec

\* A thread that is awake looks at the delayed work before it sleeps or leaves.
Watching == {"start", "take", "run", "check", "wait"}

\* No step leaves a deadline to threads that sleep longer.
LEMMA DeadlineIsAttendedStep ==
    ASSUME IInv, DeadlineIsAttended, [Next]_vars
    PROVE  DeadlineIsAttended'
<1>. USE DEF ready, work, leaving
<1>0. TypeOK /\ RunsWhereItMay
    BY DEF IInv
<1>1. ASSUME NEW t \in Threads, pc'[t] \in Watching
      PROVE  DeadlineIsAttended'
    BY <1>1 DEF DeadlineIsAttended, Watching
<1>2. ASSUME UNCHANGED <<sleeping, due, until>>,
             \A t \in Threads : /\ pc[t] \in Watching => pc'[t] \in Watching
                                /\ pc[t] = "timed" => pc'[t] \in {"timed", "take"}
      PROVE  DeadlineIsAttended'
    BY <1>2 DEF DeadlineIsAttended, Watching
<1>3. CASE UNCHANGED <<sleeping, due, until, pc>>
    BY <1>2, <1>3
<1>4. ASSUME UNCHANGED <<sleeping, due, until>>, Woken(pc, pc')
      PROVE  DeadlineIsAttended'
    BY <1>2, <1>4 DEF Woken, Asleep, Watching
<1>5. CASE \/ \E t, x \in Threads : Yield(t, x)
           \/ \E a \in Agents : NotifyDecrement(a)
           \/ \E y \in Outside : NotifyFromOutside(y)
    <2>1. Woken(pc, pc') /\ UNCHANGED <<sleeping, due, until>>
        BY <1>0, <1>5, NotifyOneWakes DEF Yield, NotifyDecrement, NotifyFromOutside, TypeOK
    <2>. QED BY <1>4, <2>1
<1>6. ASSUME NEW t \in Threads, NEW x \in Threads, Sleep(t, x)
      PROVE  DeadlineIsAttended'
    <2>1. pc[t] \in {"start", "run"} /\ Woken(pc, pc')
        BY <1>0, <1>6, NotifyOneWakes DEF Sleep, Runs, Innermost, RunsWhereItMay, TypeOK
    <2>. QED BY <1>0, <1>1, <2>1, WokenKeeps DEF Watching
<1>7. ASSUME NEW t \in Threads, Take(t)
      PROVE  DeadlineIsAttended'
    BY <1>0, <1>1, <1>7, TakeMoves DEF Watching
<1>8. ASSUME NEW t \in Threads, Check(t)
      PROVE  DeadlineIsAttended'
    <2>1. CASE NothingLeft
        BY <1>8, <2>1 DEF Check, NothingLeft, DeadlineIsAttended
    <2>2. CASE ~NothingLeft
        BY <1>0, <1>1, <1>8, <2>2 DEF Check, TypeOK, Watching
    <2>. QED BY <2>1, <2>2
<1>9. ASSUME NEW t \in Threads, Wait(t)
      PROVE  DeadlineIsAttended'
    <2>1. CASE sleeping = <<>> /\ due = <<>>
        BY <1>9, <2>1 DEF Wait, DeadlineIsAttended
    <2>2. CASE ~(sleeping = <<>> /\ due = <<>>)
        BY <1>0, <1>9, <2>2 DEF Wait, NextDeadline, TypeOK, DeadlineIsAttended
    <2>. QED BY <2>1, <2>2
<1>10. ASSUME NEW t \in Threads, Announce(t) \/ Drain(t)
       PROVE  DeadlineIsAttended'
    <2>1. /\ UNCHANGED <<sleeping, due, until>> /\ pc[t] \in {"announce", "drain"}
          /\ \A u \in Threads \ {t} : \/ pc'[u] = pc[u]
                                      \/ pc[u] = "parked"
                                      \/ pc[u] \in Asleep /\ pc'[u] = "take"
        BY <1>0, <1>10, AnnounceMoves, DrainMoves DEF Announce, Drain
    <2>. QED BY <1>2, <2>1 DEF Asleep, Watching
<1>11. ASSUME NEW t \in Threads,
              \/ Start(t) \/ Register(t) \/ EndBatch(t) \/ TimedWake(t) \/ SpuriousWake(t)
              \/ Leave(t) \/ Park(t) \/ TakeResult(t)
       PROVE  DeadlineIsAttended'
    <2>1. /\ UNCHANGED <<sleeping, due, until>> /\ \A u \in Threads \ {t} : pc'[u] = pc[u]
          /\ pc[t] \in Watching => pc'[t] \in Watching
          /\ pc[t] = "timed" => pc'[t] = "take"
        BY <1>0, <1>11 DEF Start, Register, EndBatch, TimedWake, SpuriousWake, Leave, Park,
                           TakeResult, TypeOK, Asleep, Watching
    <2>. QED BY <1>2, <2>1
<1>12. CASE Tick
    <2>1. /\ sleeping # <<>> /\ pc' = pc
          /\ \A t \in Threads : until'[t] = until[t] \ {Head(sleeping)}
        BY <1>12 DEF Tick
    <2>2. PICK t \in Threads : \/ pc[t] \in Watching
                               \/ pc[t] = "timed" /\ until[t] \subseteq {Head(sleeping)}
        BY <2>1 DEF DeadlineIsAttended, Watching
    <2>3. CASE pc[t] \in Watching
        BY <1>1, <2>1, <2>3
    <2>4. CASE pc[t] = "timed" /\ until[t] \subseteq {Head(sleeping)}
        BY <2>1, <2>4 DEF DeadlineIsAttended
    <2>. QED BY <2>2, <2>3, <2>4
<1>. QED
    BY <1>3, <1>5, <1>6, <1>7, <1>8, <1>9, <1>10, <1>11, <1>12
    DEF Next, CoroutineStep, LoopStep, vars, Block, Finish, NotifyPeer,
        DecrementExternalWork, Resume

\* Some thread is awake, or sleeps no longer than until the earliest deadline.
THEOREM PoolDeadlineIsAttended == Spec => []DeadlineIsAttended
<1>1. Init => DeadlineIsAttended
    BY DEF Init, DeadlineIsAttended
<1>2. IInv /\ DeadlineIsAttended /\ [Next]_vars => DeadlineIsAttended'
    BY DeadlineIsAttendedStep
<1>. QED BY <1>1, <1>2, PoolInvariant, PTL DEF Spec
=============================================================================
