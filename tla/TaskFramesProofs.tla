-------------------------- MODULE TaskFramesProofs --------------------------
(***************************************************************************)
(* Safety of the coroutines on one TaskStack, for any executors, any       *)
(* number of threads, any depth of calls, and whoever drops the stack: its *)
(* invariants, and that it implements CallStack.                           *)
(***************************************************************************)
EXTENDS TaskFrames, FiniteSetTheorems, SequenceTheorems, TLAPS

\* Whoever runs the stack holds it, and a stack with coroutines is held.
StackHeld ==
    /\ running \subseteq locked
    /\ frames # <<>> => Held

\* Where the stack goes on.
AtHome ==
    frames # <<>> =>
        /\ \A u \in running : ExecutorOf(u) = Top.ex
        /\ \A e \in Executors : Works(e) > 0 => e = Top.ex
        /\ waiting => Top.unit = {Top.ex}

\* A coroutine counts external work on its own executor only ...
UnitsAtHome == \A i \in 1..Len(frames) : frames[i].unit \subseteq {frames[i].ex}

\* ... and whenever a coroutine of another executor is above it, it or one above it that
\* is of its executor does.
Hops(s) ==
    \A k \in 1..Len(s) : \A i \in 1..k :
        \/ s[i].ex = s[k].ex
        \/ \E j \in i..(k - 1) : s[j].unit = {s[i].ex}

HopsCounted == Hops(frames)

Control == OneResumer /\ StackHeld /\ AtHome
Calls   == UnitsAtHome /\ HopsCounted

IInv == TypeOK /\ Control /\ Calls /\ UnitsCounted /\ NotAbandoned /\ ResultPassed

-----------------------------------------------------------------------------
(***************************************************************************)
(* Facts about the helpers                                                 *)
(***************************************************************************)

\* A call is put on top of the others.
LEMMA Pushing ==
    ASSUME NEW s \in Seq(Frame), NEW f \in Frame
    PROVE  /\ Append(s, f) \in Seq(Frame)
           /\ Len(Append(s, f)) = Len(s) + 1 /\ Append(s, f) # <<>>
           /\ \A i \in 1..Len(s) : Append(s, f)[i] = s[i]
           /\ Append(s, f)[Len(s) + 1] = f
BY AppendProperties, ElementOfSeq, EmptySeq

\* The innermost call is at the end, and has an executor and a unit.
LEMMA TopFacts ==
    ASSUME frames \in Seq(Frame), frames # <<>>
    PROVE  /\ Len(frames) \in Nat \ {0} /\ Len(frames) \in 1..Len(frames)
           /\ Top = frames[Len(frames)] /\ Top \in Frame
           /\ Top.ex \in Executors /\ Top.unit \in SUBSET Executors
<1>1. Len(frames) \in Nat \ {0} /\ \A i \in 1..Len(frames) : frames[i] \in Frame
    BY EmptySeq, ElementOfSeq
<1>. QED BY <1>1 DEF Top, Last, Frame

\* The innermost call returns: the others stay as they are.
LEMMA Popping ==
    ASSUME NEW S, NEW s \in Seq(S), s # <<>>
    PROVE  /\ Front(s) \in Seq(S)
           /\ Len(Front(s)) = Len(s) - 1
           /\ \A i \in 1..(Len(s) - 1) : Front(s)[i] = s[i]
<1>. DEFINE n == Len(s) - 1
<1>1. /\ n \in Nat /\ 1 \in Int /\ n \in Int /\ n - 1 + 1 = n
      /\ \A i \in 1..n : s[i] \in S /\ 1 + i - 1 = i
    BY EmptySeq, ElementOfSeq
<1>. HIDE DEF n
<1>2. /\ SubSeq(s, 1, n) \in Seq(S)
      /\ Len(SubSeq(s, 1, n)) = IF 1 <= n THEN n - 1 + 1 ELSE 0
      /\ \A i \in 1..(n - 1 + 1) : SubSeq(s, 1, n)[i] = s[1 + i - 1]
    BY <1>1, SubSeqProperties
<1>3. Len(SubSeq(s, 1, n)) = n
    BY <1>1, <1>2
<1>. QED BY <1>1, <1>2, <1>3 DEF n, Front

\* The innermost call takes or leaves a unit.
LEMMA Retopping ==
    ASSUME frames \in Seq(Frame), frames # <<>>, NEW x \in SUBSET Executors
    PROVE  /\ TopUnit(x) \in Seq(Frame) /\ Len(TopUnit(x)) = Len(frames) /\ TopUnit(x) # <<>>
           /\ \A i \in 1..(Len(frames) - 1) : TopUnit(x)[i] = frames[i]
           /\ TopUnit(x)[Len(frames)] = [ex |-> Top.ex, unit |-> x]
<1>. DEFINE n == Len(frames)
            t == [i \in 1..n |-> IF i = n THEN [ex |-> Top.ex, unit |-> x] ELSE frames[i]]
<1>1. n \in Nat \ {0} /\ n \in 1..n /\ Top = frames[n] /\ Top.ex \in Executors /\ Top \in Frame
    BY TopFacts
<1>2. \A i \in 1..n : frames[i] \in Frame
    BY ElementOfSeq
<1>3. [ex |-> Top.ex, unit |-> x] \in Frame /\ [Top EXCEPT !.unit = x] = [ex |-> Top.ex, unit |-> x]
    BY <1>1 DEF Frame
<1>4. TopUnit(x) = t
    <2>1. frames = [i \in 1..n |-> frames[i]]
        BY LenProperties
    <2>. QED BY <1>1, <1>3, <2>1 DEF TopUnit
<1>5. t \in [1..n -> Frame]
    BY <1>1, <1>2, <1>3
<1>6. t \in Seq(Frame) /\ Len(t) = n
    BY <1>1, <1>5, IsASeq, LenProperties
<1>7. \A i \in 1..(n - 1) : i \in 1..n /\ i # n
    BY <1>1
<1>. QED BY <1>1, <1>4, <1>6, <1>7, EmptySeq

\* Hops is kept by one more call, of the same executor or counted ...
LEMMA HopsPush ==
    ASSUME NEW s \in Seq(Frame), NEW t \in Seq(Frame), Hops(s),
           Len(s) > 0, Len(t) = Len(s) + 1,
           \A i \in 1..(Len(s) - 1) : t[i] = s[i],
           t[Len(s)].ex = s[Len(s)].ex,
           t[Len(t)].ex = s[Len(s)].ex \/ t[Len(s)].unit = {s[Len(s)].ex}
    PROVE  Hops(t)
<1>. DEFINE n == Len(s)
<1>1. n \in Nat \ {0} /\ n \in 1..n
    BY LenProperties
<1>2. \A i \in 1..n : t[i].ex = s[i].ex
    BY <1>1
<1>3. \A k \in 1..n : \A i \in 1..k :
         \/ s[i].ex = s[k].ex
         \/ \E j \in i..(k - 1) : s[j].unit = {s[i].ex}
    BY <1>1 DEF Hops
<1>. SUFFICES ASSUME NEW k \in 1..(n + 1), NEW i \in 1..k
              PROVE  \/ t[i].ex = t[k].ex
                     \/ \E j \in i..(k - 1) : t[j].unit = {t[i].ex}
    BY DEF Hops
<1>4. CASE k \in 1..n
    <2>1. CASE s[i].ex = s[k].ex
        BY <1>1, <1>2, <1>4, <2>1
    <2>2. ASSUME NEW j \in i..(k - 1), s[j].unit = {s[i].ex}
          PROVE  t[j].unit = {t[i].ex}
        <3>1. j \in 1..(n - 1) /\ i \in 1..n
            BY <1>1, <1>4
        <3>. QED BY <1>2, <2>2, <3>1
    <2>. QED BY <1>3, <1>4, <2>1, <2>2
<1>5. CASE k = n + 1 /\ i = n + 1
    BY <1>5
<1>6. CASE k = n + 1 /\ i \in 1..n
    <2>1. CASE s[i].ex = s[n].ex
        BY <1>1, <1>2, <1>6, <2>1
    <2>2. ASSUME NEW j \in i..(n - 1), s[j].unit = {s[i].ex}
          PROVE  t[j].unit = {t[i].ex} /\ j \in i..(k - 1)
        <3>1. j \in 1..(n - 1)
            BY <1>1, <1>6
        <3>. QED BY <1>1, <1>2, <1>6, <2>2, <3>1
    <2>. QED BY <1>1, <1>3, <1>6, <2>1, <2>2
<1>7. k \in 1..n \/ (k = n + 1 /\ i = n + 1) \/ (k = n + 1 /\ i \in 1..n)
    BY <1>1
<1>. QED BY <1>4, <1>5, <1>6, <1>7

\* ... and by fewer calls, whatever unit the innermost one has.
LEMMA HopsPop ==
    ASSUME NEW s \in Seq(Frame), NEW t \in Seq(Frame), Hops(s), Len(t) <= Len(s),
           \A i \in 1..Len(t) : t[i].ex = s[i].ex,
           \A i \in 1..(Len(t) - 1) : t[i].unit = s[i].unit
    PROVE  Hops(t)
<1>1. Len(s) \in Nat /\ Len(t) \in Nat
    BY LenProperties
<1>. SUFFICES ASSUME NEW k \in 1..Len(t), NEW i \in 1..k
              PROVE  \/ t[i].ex = t[k].ex
                     \/ \E j \in i..(k - 1) : t[j].unit = {t[i].ex}
    BY DEF Hops
<1>2. k \in 1..Len(s) /\ i \in 1..Len(t) /\ t[i].ex = s[i].ex /\ t[k].ex = s[k].ex
    BY <1>1
<1>3. ASSUME NEW j \in i..(k - 1), s[j].unit = {s[i].ex}
      PROVE  t[j].unit = {t[i].ex}
    <2>1. j \in 1..(Len(t) - 1)
        BY <1>1
    <2>. QED BY <1>2, <1>3, <2>1
<1>4. \/ s[i].ex = s[k].ex
      \/ \E j \in i..(k - 1) : s[j].unit = {s[i].ex}
    BY <1>2 DEF Hops
<1>. QED BY <1>2, <1>3, <1>4

\* The calls that hold a unit of an executor.
UnitsOn(s, e) == {i \in DOMAIN s : e \in s[i].unit}

\* They are finitely many.
LEMMA UnitsOnFacts ==
    ASSUME NEW s \in Seq(Frame), NEW e
    PROVE  /\ UnitsOn(s, e) = {i \in 1..Len(s) : e \in s[i].unit}
           /\ IsFiniteSet(UnitsOn(s, e)) /\ Cardinality(UnitsOn(s, e)) \in Nat
<1>1. DOMAIN s = 1..Len(s) /\ Len(s) \in Nat
    BY LenProperties
<1>2. IsFiniteSet(1..Len(s))
    BY <1>1, FS_Interval
<1>3. UnitsOn(s, e) \in SUBSET (1..Len(s))
    BY <1>1 DEF UnitsOn
<1>4. IsFiniteSet(UnitsOn(s, e))
    BY <1>2, <1>3, FS_Subset
<1>. QED BY <1>1, <1>4, FS_CardinalityType DEF UnitsOn

\* The innermost call takes a unit ...
LEMMA CountedOneMore ==
    ASSUME NEW s \in Seq(Frame), NEW t \in Seq(Frame), NEW x \in Executors, NEW i,
           NEW c \in [Executors -> Nat],
           \A e \in Executors : c[e] = Cardinality(UnitsOn(s, e)),
           i \notin UnitsOn(s, x), UnitsOn(t, x) = UnitsOn(s, x) \cup {i},
           \A e \in Executors \ {x} : UnitsOn(t, e) = UnitsOn(s, e)
    PROVE  /\ Plus(c, x) \in [Executors -> Nat]
           /\ \A e \in Executors : Plus(c, x)[e] = Cardinality(UnitsOn(t, e))
<1>1. IsFiniteSet(UnitsOn(s, x)) /\ Cardinality(UnitsOn(t, x)) \in Nat
    BY UnitsOnFacts
<1>2. Cardinality(UnitsOn(t, x)) = Cardinality(UnitsOn(s, x)) + 1
    BY <1>1, FS_AddElement
<1>3. /\ \A e \in Executors : c[e] \in Nat /\ Plus(c, x)[e] = IF e = x THEN c[e] + 1 ELSE c[e]
      /\ Plus(c, x) = [e \in Executors |-> Plus(c, x)[e]]
    BY DEF Plus
<1>4. ASSUME NEW e \in Executors
      PROVE  Plus(c, x)[e] = Cardinality(UnitsOn(t, e)) /\ Plus(c, x)[e] \in Nat
    <2>1. CASE e = x
        BY <1>1, <1>2, <1>3, <2>1
    <2>2. CASE e # x
        <3>1. Plus(c, x)[e] = c[e] /\ c[e] \in Nat
            BY <1>3, <2>2
        <3>. QED BY <3>1, <2>2
    <2>. QED BY <2>1, <2>2
<1>. QED BY <1>3, <1>4

\* ... or gives it back, and the counter of its executor goes with it.
LEMMA CountedOneLess ==
    ASSUME NEW s \in Seq(Frame), NEW t \in Seq(Frame), NEW x \in Executors, NEW i,
           NEW c \in [Executors -> Nat],
           \A e \in Executors : c[e] = Cardinality(UnitsOn(s, e)),
           i \in UnitsOn(s, x), UnitsOn(t, x) = UnitsOn(s, x) \ {i},
           \A e \in Executors \ {x} : UnitsOn(t, e) = UnitsOn(s, e)
    PROVE  /\ Minus(c, x) \in [Executors -> Nat]
           /\ \A e \in Executors : Minus(c, x)[e] = Cardinality(UnitsOn(t, e))
<1>1. IsFiniteSet(UnitsOn(s, x)) /\ Cardinality(UnitsOn(t, x)) \in Nat
    BY UnitsOnFacts
<1>2. Cardinality(UnitsOn(t, x)) = Cardinality(UnitsOn(s, x)) - 1
    <2>. DEFINE A == UnitsOn(s, x)
    <2>1. IsFiniteSet(A) /\ i \in A /\ UnitsOn(t, x) = A \ {i}
        BY <1>1
    <2>. HIDE DEF A
    <2>2. Cardinality(A \ {i}) = Cardinality(A) - 1
        BY <2>1, FS_RemoveElement
    <2>. QED BY <2>1, <2>2 DEF A
<1>3. /\ \A e \in Executors : c[e] \in Nat /\ Minus(c, x)[e] = IF e = x THEN c[e] - 1 ELSE c[e]
      /\ Minus(c, x) = [e \in Executors |-> Minus(c, x)[e]]
    BY DEF Minus
<1>4. ASSUME NEW e \in Executors
      PROVE  Minus(c, x)[e] = Cardinality(UnitsOn(t, e)) /\ Minus(c, x)[e] \in Nat
    <2>1. CASE e = x
        BY <1>1, <1>2, <1>3, <2>1
    <2>2. CASE e # x
        BY <1>3, <2>2
    <2>. QED BY <2>1, <2>2
<1>. QED BY <1>3, <1>4

\* UnitsCounted in these words.
LEMMA UnitsCountedMeans ==
    UnitsCounted <=> \A e \in Executors : externalWork[e] = Cardinality(UnitsOn(frames, e))
BY DEF UnitsCounted, UnitsOn

-----------------------------------------------------------------------------
(***************************************************************************)
(* The inductive invariant, one action after the other                     *)
(***************************************************************************)

\* A thread that runs the stack is the only one who goes on with it, on its executor.
LEMMA Runner ==
    ASSUME IInv, NEW u \in running, frames # <<>>
    PROVE  /\ running = {u} /\ u \in locked /\ u \in Threads
           /\ ExecutorOf(u) = Top.ex /\ Top.ex \in Executors
           /\ ~waiting /\ \A e \in Executors : strong[e] = 0 /\ weak[e] = 0
<1>1. u \in Threads /\ u \in locked /\ ExecutorOf(u) = Top.ex /\ Top.ex \in Executors
    BY TopFacts DEF IInv, Control, TypeOK, StackHeld, AtHome
<1>2. running = {u}
    BY DEF IInv, Control, OneResumer
<1>3. ~waiting /\ \A e \in Executors : Works(e) = 0
    BY DEF IInv, Control, OneResumer
<1>4. \A e \in Executors : strong[e] \in Nat /\ weak[e] \in Nat
    BY DEF IInv, TypeOK
<1>. QED BY <1>1, <1>2, <1>3, <1>4 DEF Works

\* The first coroutine starts on a thread of block_on.
LEMMA InitIInv == Init => IInv
<1>. SUFFICES ASSUME Init PROVE IInv
    OBVIOUS
<1>1. /\ Pushed(Home) \in Frame /\ <<Home, 1>> \in Threads /\ Home \in Executors
      /\ Pushed(Home).ex = Home /\ Pushed(Home).unit = {}
    BY FramesAssumption DEF Pushed, Frame, Threads
<1>2. /\ frames \in Seq(Frame) /\ Len(frames) = 1 /\ frames # <<>>
      /\ frames[1] = Pushed(Home) /\ Top = Pushed(Home) /\ DOMAIN frames = {1}
    BY <1>1 DEF Init, Top, Last
<1>3. TypeOK
    BY <1>1, <1>2, FramesAssumption DEF Init, TypeOK, Result
<1>4. Control
    BY <1>1, <1>2 DEF Init, Control, OneResumer, StackHeld, Held, AtHome, Works, ExecutorOf
<1>5. Calls
    BY <1>1, <1>2 DEF Calls, UnitsAtHome, HopsCounted, Hops
<1>6. \A e \in Executors : UnitsOn(frames, e) = {}
    BY <1>1, <1>2 DEF UnitsOn
<1>7. UnitsCounted
    BY <1>6, FS_EmptySet, UnitsCountedMeans DEF Init
<1>8. NotAbandoned /\ ResultPassed
    BY <1>2 DEF Init, NotAbandoned, ResultPassed
<1>. QED BY <1>3, <1>4, <1>5, <1>7, <1>8 DEF IInv

\* Task::await_suspend.
LEMMA CallKeeps ==
    ASSUME IInv, NEW u \in Threads, Call(u)
    PROVE  IInv'
<1>1. u \in running /\ frames # <<>> /\ frames \in Seq(Frame)
    BY DEF Call, Step, InBody, IInv, TypeOK
<1>2. Top.ex \in Executors /\ Pushed(Top.ex) \in Frame /\ Top = frames[Len(frames)]
      /\ Len(frames) \in Nat \ {0} /\ Pushed(Top.ex).ex = Top.ex /\ Pushed(Top.ex).unit = {}
    BY <1>1, TopFacts DEF Pushed, Frame
<1>. DEFINE n == Len(frames)
<1>3. /\ frames' \in Seq(Frame) /\ Len(frames') = n + 1 /\ frames' # <<>>
      /\ \A i \in 1..n : frames'[i] = frames[i]
      /\ frames'[n + 1] = Pushed(Top.ex)
    BY <1>1, <1>2, Pushing DEF Call
<1>4. Top' = Pushed(Top.ex)
    BY <1>3 DEF Top, Last
<1>5. TypeOK'
    BY <1>3 DEF IInv, TypeOK, Call, Step, queues, holds
<1>6. Control'
    <2>1. OneResumer'
        BY <1>1, <1>3, Runner DEF IInv, Control, OneResumer, Call, queues, holds, Works, Held
    <2>2. StackHeld'
        BY <1>1, <1>3 DEF IInv, Control, StackHeld, Call, queues, holds, Held
    <2>3. AtHome'
        BY <1>1, <1>2, <1>4, Runner DEF Call, queues, holds, Works, AtHome, ExecutorOf
    <2>. QED BY <2>1, <2>2, <2>3 DEF Control
<1>7. Calls'
    <2>1. UnitsAtHome'
        BY <1>2, <1>3 DEF IInv, Calls, UnitsAtHome
    <2>2. HopsCounted'
        <3>1. /\ Hops(frames) /\ Len(frames) > 0 /\ Len(frames') = Len(frames) + 1
              /\ frames \in Seq(Frame) /\ frames' \in Seq(Frame)
              /\ \A i \in 1..(Len(frames) - 1) : frames'[i] = frames[i]
              /\ frames'[Len(frames)].ex = frames[Len(frames)].ex
              /\ frames'[Len(frames')].ex = frames[Len(frames)].ex
            BY <1>1, <1>2, <1>3 DEF IInv, Calls, HopsCounted
        <3>2. Hops(frames')
            BY <3>1, HopsPush
        <3>. QED BY <3>2 DEF HopsCounted
    <2>. QED BY <2>1, <2>2 DEF Calls
<1>8. UnitsCounted'
    <2>1. DOMAIN frames = 1..n /\ DOMAIN frames' = 1..(n + 1) /\ n \in Nat
        BY <1>1, <1>3, LenProperties
    <2>2. \A e \in Executors : UnitsOn(frames', e) = UnitsOn(frames, e)
        BY <1>2, <1>3, <2>1 DEF UnitsOn
    <2>. QED BY <2>2, UnitsCountedMeans DEF IInv, UnitsCounted, UnitsOn, Call
<1>9. NotAbandoned'
    <2>1. DOMAIN frames = 1..n /\ DOMAIN frames' = 1..(n + 1) /\ n \in Nat
        BY <1>1, <1>3, LenProperties
    <2>. QED BY <1>2, <1>3, <2>1 DEF IInv, NotAbandoned, Call
<1>10. ResultPassed'
    BY <1>1, <1>3 DEF IInv, ResultPassed, Call
<1>. QED BY <1>5, <1>6, <1>7, <1>8, <1>9, <1>10 DEF IInv

\* What does not change the calls keeps what only they decide.
LEMMA SameFrames ==
    ASSUME IInv, UNCHANGED <<frames, externalWork, left, result, entry, crashed>>
    PROVE  Calls' /\ UnitsCounted' /\ NotAbandoned' /\ ResultPassed'
BY DEF IInv, Calls, UnitsAtHome, HopsCounted, UnitsCounted, NotAbandoned, ResultPassed

\* WithExecutor::await_suspend.
LEMMA HopKeeps ==
    ASSUME IInv, NEW u \in Threads, NEW e \in Executors, Hop(u, e)
    PROVE  IInv'
<1>. DEFINE n == Len(frames)
            s == TopUnit({Top.ex})
<1>1. u \in running /\ frames # <<>> /\ frames \in Seq(Frame) /\ Top.unit = {}
    BY DEF Hop, Step, InBody, IInv, TypeOK
<1>2. /\ Top.ex \in Executors /\ Pushed(e) \in Frame /\ Top = frames[n]
      /\ n \in Nat \ {0} /\ Pushed(e).ex = e /\ Pushed(e).unit = {} /\ Top \in Frame
    BY <1>1, TopFacts DEF Pushed, Frame
<1>3. /\ s \in Seq(Frame) /\ Len(s) = n
      /\ \A i \in 1..(n - 1) : s[i] = frames[i]
      /\ s[n] = [ex |-> Top.ex, unit |-> {Top.ex}]
    BY <1>1, <1>2, Retopping
<1>. HIDE DEF s
<1>4. /\ frames' \in Seq(Frame) /\ Len(frames') = n + 1 /\ frames' # <<>>
      /\ \A i \in 1..n : frames'[i] = s[i]
      /\ frames'[n + 1] = Pushed(e)
    <2>1. frames' = Append(s, Pushed(e))
        BY DEF Hop, s
    <2>2. /\ Append(s, Pushed(e)) \in Seq(Frame)
          /\ Len(Append(s, Pushed(e))) = Len(s) + 1 /\ Append(s, Pushed(e)) # <<>>
          /\ \A i \in 1..Len(s) : Append(s, Pushed(e))[i] = s[i]
          /\ Append(s, Pushed(e))[Len(s) + 1] = Pushed(e)
        BY <1>2, <1>3, Pushing
    <2>. QED BY <1>3, <2>1, <2>2
<1>5. /\ \A i \in 1..(n - 1) : frames'[i] = frames[i]
      /\ frames'[n].ex = Top.ex /\ frames'[n].unit = {Top.ex}
      /\ Top' = Pushed(e)
    BY <1>2, <1>3, <1>4 DEF Top, Last
<1>6. \A f \in Executors : strong'[f] = (IF f = e THEN 1 ELSE 0) /\ weak'[f] = 0
    BY <1>1, Runner DEF Hop, Plus, IInv, TypeOK
<1>7. running' = {} /\ ~waiting' /\ locked' = locked /\ owned' = owned
    BY <1>1, Runner DEF Hop, Gives, holds
<1>8. externalWork' \in [Executors -> Nat] /\ UnitsCounted'
    <2>1. DOMAIN frames = 1..n /\ DOMAIN frames' = 1..(n + 1) /\ n \in Nat
        BY <1>1, <1>4, LenProperties
    <2>2. \A f \in Executors \ {Top.ex} : UnitsOn(frames', f) = UnitsOn(frames, f)
        BY <1>1, <1>2, <1>4, <1>5, <2>1 DEF UnitsOn
    <2>3. n \notin UnitsOn(frames, Top.ex)
        BY <1>1, <1>2 DEF UnitsOn
    <2>4. UnitsOn(frames', Top.ex) = UnitsOn(frames, Top.ex) \cup {n}
        BY <1>1, <1>2, <1>4, <1>5, <2>1 DEF UnitsOn
    <2>5. externalWork \in [Executors -> Nat]
          /\ \A f \in Executors : externalWork[f] = Cardinality(UnitsOn(frames, f))
        BY UnitsCountedMeans DEF IInv, TypeOK
    <2>6. externalWork' = Plus(externalWork, Top.ex)
        BY DEF Hop, HopCounts
    <2>7. /\ externalWork' \in [Executors -> Nat]
          /\ \A f \in Executors : externalWork'[f] = Cardinality(UnitsOn(frames', f))
        BY <1>1, <1>2, <1>4, <2>2, <2>3, <2>4, <2>5, <2>6, CountedOneMore, SMTT(40)
    <2>. QED BY <2>7 DEF UnitsCounted, UnitsOn
<1>9. TypeOK'
    <2>1. strong' \in [Executors -> Nat] /\ weak' \in [Executors -> Nat]
        BY DEF Hop, Plus, IInv, TypeOK
    <2>. QED BY <1>4, <1>7, <1>8, <2>1 DEF IInv, TypeOK, Hop, Step, holds
<1>10. Control'
    <2>1. OneResumer'
        BY <1>4, <1>6, <1>7 DEF OneResumer, Works
    <2>2. StackHeld'
        BY <1>6, <1>7 DEF StackHeld, Held
    <2>3. AtHome'
        BY <1>2, <1>5, <1>6, <1>7 DEF AtHome, Works
    <2>. QED BY <2>1, <2>2, <2>3 DEF Control
<1>11. Calls'
    <2>1. UnitsAtHome'
        BY <1>2, <1>4, <1>5 DEF IInv, Calls, UnitsAtHome
    <2>2. /\ Hops(frames) /\ Len(frames) > 0 /\ Len(frames') = Len(frames) + 1
          /\ frames \in Seq(Frame) /\ frames' \in Seq(Frame)
          /\ \A i \in 1..(Len(frames) - 1) : frames'[i] = frames[i]
          /\ frames'[Len(frames)].ex = frames[Len(frames)].ex
          /\ frames'[Len(frames)].unit = {frames[Len(frames)].ex}
        BY <1>1, <1>2, <1>4, <1>5 DEF IInv, Calls, HopsCounted
    <2>3. Hops(frames')
        BY <2>2, HopsPush
    <2>. QED BY <2>1, <2>3 DEF Calls, HopsCounted
<1>12. NotAbandoned'
    <2>1. DOMAIN frames = 1..n /\ DOMAIN frames' = 1..(n + 1) /\ n \in Nat
        BY <1>1, <1>4, LenProperties
    <2>2. left' = left /\ e \notin left
        BY DEF Hop
    <2>. QED BY <1>2, <1>4, <1>5, <2>1, <2>2 DEF IInv, NotAbandoned
<1>13. ResultPassed'
    BY <1>1, <1>4 DEF IInv, ResultPassed, Hop
<1>. QED BY <1>8, <1>9, <1>10, <1>11, <1>12, <1>13 DEF IInv

\* final_suspend of a callee, and FinalAwaiter.
LEMMA ReturnKeeps ==
    ASSUME IInv, NEW u \in Threads, Return(u)
    PROVE  IInv'
<1>. DEFINE n == Len(frames)
<1>1. u \in running /\ frames # <<>> /\ frames \in Seq(Frame) /\ Top.unit = {}
    BY DEF Return, InBody, IInv, TypeOK
<1>2. n \in Nat /\ n > 1 /\ Top = frames[n]
    BY <1>1, TopFacts DEF Return
<1>3. /\ frames' = Front(frames) /\ frames' \in Seq(Frame) /\ Len(frames') = n - 1
      /\ \A i \in 1..(n - 1) : frames'[i] = frames[i]
    BY <1>1, Popping DEF Return
<1>4. frames' # <<>> /\ Top' = frames[n - 1] /\ Top'.ex \in Executors
    <2>1. frames' # <<>>
        BY <1>2, <1>3, EmptySeq
    <2>2. Top' = frames[n - 1]
        BY <1>2, <1>3 DEF Top, Last
    <2>3. frames[n - 1] \in Frame
        BY <1>1, <1>2, ElementOfSeq
    <2>. QED BY <2>1, <2>2, <2>3 DEF Frame
<1>5. \/ /\ strong' = strong /\ running' = running /\ ExecutorOf(u) = Top'.ex
      \/ /\ strong' = Plus(strong, Top'.ex) /\ running' = {}
    BY <1>1, <1>3, Runner DEF Return, GoesHome, Gives, Top
<1>6. /\ ~waiting' /\ locked' = locked /\ owned' = owned /\ running = {u} /\ u \in locked
      /\ strong \in [Executors -> Nat] /\ weak' = weak
      /\ \A f \in Executors : strong[f] = 0 /\ weak[f] = 0
    BY <1>1, Runner DEF Return, IInv, TypeOK, holds
<1>7. \/ /\ running' = {u} /\ ExecutorOf(u) = Top'.ex
         /\ \A f \in Executors : strong'[f] = 0 /\ weak'[f] = 0
      \/ /\ running' = {}
         /\ \A f \in Executors : strong'[f] = (IF f = Top'.ex THEN 1 ELSE 0) /\ weak'[f] = 0
    BY <1>4, <1>5, <1>6 DEF Plus
<1>8. TypeOK'
    <2>1. strong' \in [Executors -> Nat]
        BY <1>4, <1>5, <1>6 DEF Plus
    <2>2. running' \subseteq Threads
        BY <1>7
    <2>. QED BY <1>3, <2>1, <2>2 DEF Return, IInv, TypeOK, holds
<1>9. Control'
    <2>1. OneResumer'
        <3>1. CASE running' = {u} /\ \A f \in Executors : strong'[f] = 0 /\ weak'[f] = 0
            BY <1>4, <1>6, <3>1 DEF OneResumer, Works
        <3>2. CASE /\ running' = {}
                   /\ \A f \in Executors : strong'[f] = (IF f = Top'.ex THEN 1 ELSE 0) /\ weak'[f] = 0
            <4>1. \A f \in Executors : Works(f)' = IF f = Top'.ex THEN 1 ELSE 0
                BY <3>2 DEF Works
            <4>. QED BY <1>4, <1>6, <3>2, <4>1 DEF OneResumer
        <3>. QED BY <1>7, <3>1, <3>2
    <2>2. StackHeld'
        BY <1>4, <1>6, <1>7 DEF StackHeld, Held
    <2>3. AtHome'
        BY <1>4, <1>6, <1>7 DEF AtHome, Works
    <2>. QED BY <2>1, <2>2, <2>3 DEF Control
<1>10. Calls'
    <2>1. UnitsAtHome'
        BY <1>2, <1>3 DEF IInv, Calls, UnitsAtHome
    <2>2. /\ Hops(frames) /\ Len(frames') <= Len(frames)
          /\ frames \in Seq(Frame) /\ frames' \in Seq(Frame)
          /\ \A i \in 1..Len(frames') : frames'[i].ex = frames[i].ex
          /\ \A i \in 1..(Len(frames') - 1) : frames'[i].unit = frames[i].unit
        BY <1>1, <1>2, <1>3 DEF IInv, Calls, HopsCounted
    <2>3. Hops(frames')
        BY <2>2, HopsPop
    <2>. QED BY <2>1, <2>3 DEF Calls, HopsCounted
<1>11. DOMAIN frames = 1..n /\ DOMAIN frames' = 1..(n - 1)
    BY <1>1, <1>3, LenProperties
<1>12. UnitsCounted'
    <2>1. \A e \in Executors : UnitsOn(frames', e) = UnitsOn(frames, e)
        BY <1>1, <1>2, <1>3, <1>11 DEF UnitsOn
    <2>. QED BY <2>1, UnitsCountedMeans DEF IInv, UnitsCounted, UnitsOn, Return
<1>13. NotAbandoned' /\ ResultPassed'
    BY <1>2, <1>3, <1>11 DEF IInv, NotAbandoned, ResultPassed, Return
<1>. QED BY <1>8, <1>9, <1>10, <1>12, <1>13 DEF IInv

\* A stack without coroutines keeps what only they decide, once their units are back.
LEMMA EmptyFrames ==
    ASSUME frames' = <<>>, \A e \in Executors : externalWork'[e] = 0
    PROVE  Calls' /\ UnitsCounted' /\ NotAbandoned' /\ ResultPassed'
<1>1. Len(frames') = 0 /\ DOMAIN frames' = {}
    OBVIOUS
<1>2. Calls' /\ NotAbandoned' /\ ResultPassed'
    BY <1>1 DEF Calls, UnitsAtHome, HopsCounted, Hops, NotAbandoned, ResultPassed
<1>3. \A e \in Executors : {i \in DOMAIN frames' : e \in frames'[i].unit} = {}
    BY <1>1
<1>. QED BY <1>2, <1>3, FS_EmptySet DEF UnitsCounted

\* ~TaskStack gives every unit back.
LEMMA UnwoundIsZero ==
    ASSUME IInv
    PROVE  Unwound = [e \in Executors |-> 0]
<1>1. \A e \in Executors : /\ externalWork[e] \in Nat
                           /\ externalWork[e] = Cardinality({i \in DOMAIN frames : e \in frames[i].unit})
    BY DEF IInv, TypeOK, UnitsCounted
<1>. QED BY <1>1 DEF Unwound

\* The first coroutine ends.
LEMMA FinishKeeps ==
    ASSUME IInv, NEW u \in Threads, Finish(u)
    PROVE  IInv'
<1>1. u \in running /\ frames # <<>> /\ frames \in Seq(Frame) /\ Top.unit = {} /\ frames' = <<>>
    BY DEF Finish, InBody, IInv, TypeOK
<1>2. /\ ~waiting' /\ running' = {}
      /\ \A f \in Executors : strong'[f] = 0 /\ weak'[f] = 0
    BY <1>1, Runner DEF Finish, Gives, queues
<1>3. \A e \in Executors : UnitsOn(frames, e) = {}
    <2>1. DOMAIN frames = {1} /\ Top = frames[1]
        BY <1>1, LenProperties, TopFacts DEF Finish
    <2>. QED BY <1>1, <2>1 DEF UnitsOn
<1>4. \A e \in Executors : externalWork'[e] = 0
    BY <1>3, UnitsCountedMeans, FS_EmptySet DEF IInv, Finish
<1>5. TypeOK'
    BY <1>1, <1>2 DEF Finish, IInv, TypeOK, queues, holds
<1>6. Control'
    BY <1>1, <1>2 DEF IInv, Control, OneResumer, StackHeld, AtHome, Works
<1>. QED BY <1>1, <1>4, <1>5, <1>6, EmptyFrames DEF IInv

\* take_result().
LEMMA TakeResultKeeps ==
    ASSUME IInv, NEW u \in Threads, TakeResult(u)
    PROVE  IInv'
<1>1. TypeOK'
    BY DEF TakeResult, Taken, Result, IInv, TypeOK, queues, holds
<1>2. Control'
    BY DEF TakeResult, IInv, Control, OneResumer, StackHeld, AtHome, Works, Held, Top, queues, holds
<1>3. Calls' /\ UnitsCounted' /\ NotAbandoned'
    BY DEF TakeResult, IInv, Calls, UnitsAtHome, HopsCounted, UnitsCounted, NotAbandoned
<1>4. ResultPassed'
    BY DEF TakeResult, Taken, ResultPassed
<1>. QED BY <1>1, <1>2, <1>3, <1>4 DEF IInv

\* ~WithExecutor and ~Awaiter.
LEMMA EndAwaitKeeps ==
    ASSUME IInv, NEW u \in Threads, EndAwait(u)
    PROVE  IInv'
<1>. DEFINE n == Len(frames)
<1>1. u \in running /\ frames # <<>> /\ frames \in Seq(Frame) /\ Top.unit # {}
    BY DEF EndAwait, IInv, TypeOK
<1>2. n \in Nat \ {0} /\ n \in 1..n /\ Top = frames[n] /\ Top.ex \in Executors
    BY <1>1, TopFacts
<1>3. Top.unit = {Top.ex}
    BY <1>1, <1>2 DEF IInv, Calls, UnitsAtHome
<1>4. externalWork' = Minus(externalWork, Top.ex) /\ frames' = TopUnit({})
    BY <1>3 DEF EndAwait, GivenBack
<1>5. /\ frames' \in Seq(Frame) /\ Len(frames') = n /\ frames' # <<>>
      /\ \A i \in 1..(n - 1) : frames'[i] = frames[i]
      /\ frames'[n].ex = Top.ex /\ frames'[n].unit = {}
    <2>. DEFINE s == TopUnit({})
    <2>1. /\ s \in Seq(Frame) /\ Len(s) = n /\ s # <<>>
          /\ \A i \in 1..(n - 1) : s[i] = frames[i]
          /\ s[n] = [ex |-> Top.ex, unit |-> {}]
        BY <1>1, <1>2, Retopping
    <2>. HIDE DEF s
    <2>2. frames' = s
        BY <1>4 DEF s
    <2>. QED BY <2>1, <2>2
<1>6. Top'.ex = Top.ex
    BY <1>2, <1>5 DEF Top, Last
<1>7. DOMAIN frames = 1..n /\ DOMAIN frames' = 1..n
    BY <1>1, <1>5, LenProperties
<1>8. externalWork' \in [Executors -> Nat] /\ UnitsCounted'
    <2>1. \A f \in Executors \ {Top.ex} : UnitsOn(frames', f) = UnitsOn(frames, f)
        BY <1>2, <1>3, <1>5, <1>7 DEF UnitsOn
    <2>2. n \in UnitsOn(frames, Top.ex)
        BY <1>2, <1>3, <1>7 DEF UnitsOn
    <2>3. UnitsOn(frames', Top.ex) = UnitsOn(frames, Top.ex) \ {n}
        BY <1>2, <1>3, <1>5, <1>7 DEF UnitsOn
    <2>4. externalWork \in [Executors -> Nat]
          /\ \A f \in Executors : externalWork[f] = Cardinality(UnitsOn(frames, f))
        BY UnitsCountedMeans DEF IInv, TypeOK
    <2>5. /\ externalWork' \in [Executors -> Nat]
          /\ \A f \in Executors : externalWork'[f] = Cardinality(UnitsOn(frames', f))
        BY <1>1, <1>2, <1>4, <1>5, <2>1, <2>2, <2>3, <2>4, CountedOneLess, SMTT(40)
    <2>. QED BY <2>5 DEF UnitsCounted, UnitsOn
<1>9. TypeOK'
    BY <1>5, <1>8 DEF EndAwait, IInv, TypeOK, queues, holds
<1>10. Control'
    <2>1. OneResumer' /\ StackHeld'
        BY <1>1, <1>5 DEF EndAwait, IInv, Control, OneResumer, StackHeld, Works, Held, queues, holds
    <2>2. AtHome'
        BY <1>1, <1>6, Runner DEF EndAwait, IInv, Control, AtHome, Works, queues
    <2>. QED BY <2>1, <2>2 DEF Control
<1>11. Calls'
    <2>1. UnitsAtHome'
        BY <1>2, <1>5 DEF IInv, Calls, UnitsAtHome
    <2>2. /\ Hops(frames) /\ Len(frames') <= Len(frames)
          /\ frames \in Seq(Frame) /\ frames' \in Seq(Frame)
          /\ \A i \in 1..Len(frames') : frames'[i].ex = frames[i].ex
          /\ \A i \in 1..(Len(frames') - 1) : frames'[i].unit = frames[i].unit
        BY <1>1, <1>2, <1>5 DEF IInv, Calls, HopsCounted
    <2>3. Hops(frames')
        BY <2>2, HopsPop
    <2>. QED BY <2>1, <2>3 DEF Calls, HopsCounted
<1>12. NotAbandoned' /\ ResultPassed'
    BY <1>1, <1>2, <1>5, <1>7 DEF EndAwait, IInv, NotAbandoned, ResultPassed
<1>. QED BY <1>8, <1>9, <1>10, <1>11, <1>12 DEF IInv

\* ConditionVariable::Awaiter::await_suspend.
LEMMA WaitKeeps ==
    ASSUME IInv, NEW u \in Threads, Wait(u)
    PROVE  IInv'
<1>. DEFINE n == Len(frames)
<1>1. u \in running /\ frames # <<>> /\ frames \in Seq(Frame) /\ Top.unit = {}
    BY DEF Wait, Step, InBody, IInv, TypeOK
<1>2. n \in Nat \ {0} /\ n \in 1..n /\ Top = frames[n] /\ Top.ex \in Executors
    BY <1>1, TopFacts
<1>3. ExecutorOf(u) = Top.ex
    BY <1>1, Runner
<1>4. externalWork' = Plus(externalWork, Top.ex) /\ frames' = TopUnit({Top.ex})
    BY <1>3 DEF Wait
<1>5. /\ frames' \in Seq(Frame) /\ Len(frames') = n /\ frames' # <<>>
      /\ \A i \in 1..(n - 1) : frames'[i] = frames[i]
      /\ frames'[n].ex = Top.ex /\ frames'[n].unit = {Top.ex}
    <2>. DEFINE s == TopUnit({Top.ex})
    <2>1. /\ s \in Seq(Frame) /\ Len(s) = n /\ s # <<>>
          /\ \A i \in 1..(n - 1) : s[i] = frames[i]
          /\ s[n] = [ex |-> Top.ex, unit |-> {Top.ex}]
        BY <1>1, <1>2, Retopping
    <2>. HIDE DEF s
    <2>2. frames' = s
        BY <1>4 DEF s
    <2>. QED BY <2>1, <2>2
<1>6. Top'.ex = Top.ex /\ Top'.unit = {Top.ex}
    BY <1>2, <1>5 DEF Top, Last
<1>7. DOMAIN frames = 1..n /\ DOMAIN frames' = 1..n
    BY <1>1, <1>5, LenProperties
<1>8. externalWork' \in [Executors -> Nat] /\ UnitsCounted'
    <2>1. \A f \in Executors \ {Top.ex} : UnitsOn(frames', f) = UnitsOn(frames, f)
        BY <1>1, <1>2, <1>5, <1>7 DEF UnitsOn
    <2>2. n \notin UnitsOn(frames, Top.ex)
        BY <1>1, <1>2, <1>7 DEF UnitsOn
    <2>3. UnitsOn(frames', Top.ex) = UnitsOn(frames, Top.ex) \cup {n}
        BY <1>1, <1>2, <1>5, <1>7 DEF UnitsOn
    <2>4. externalWork \in [Executors -> Nat]
          /\ \A f \in Executors : externalWork[f] = Cardinality(UnitsOn(frames, f))
        BY UnitsCountedMeans DEF IInv, TypeOK
    <2>5. frames \in Seq(Frame) /\ frames' \in Seq(Frame) /\ Top.ex \in Executors
        BY <1>1, <1>2, <1>5
    <2>6. /\ Plus(externalWork, Top.ex) \in [Executors -> Nat]
          /\ \A f \in Executors : Plus(externalWork, Top.ex)[f] = Cardinality(UnitsOn(frames', f))
        BY <2>1, <2>2, <2>3, <2>4, <2>5, CountedOneMore, SMTT(40)
    <2>. QED BY <1>4, <2>6 DEF UnitsCounted, UnitsOn
<1>9. /\ running' = {} /\ waiting'
      /\ \A f \in Executors : strong'[f] = 0 /\ weak'[f] = 0
    BY <1>1, Runner DEF Wait, Gives
<1>10. TypeOK'
    BY <1>5, <1>8, <1>9 DEF Wait, Step, IInv, TypeOK, holds
<1>11. Control'
    <2>1. OneResumer'
        BY <1>5, <1>9 DEF OneResumer, Works
    <2>2. StackHeld'
        BY <1>1, <1>9 DEF Wait, IInv, Control, StackHeld, Held, holds
    <2>3. AtHome'
        BY <1>6, <1>9 DEF AtHome, Works
    <2>. QED BY <2>1, <2>2, <2>3 DEF Control
<1>12. Calls'
    <2>1. UnitsAtHome'
        BY <1>2, <1>5 DEF IInv, Calls, UnitsAtHome
    <2>2. /\ Hops(frames) /\ Len(frames') <= Len(frames)
          /\ frames \in Seq(Frame) /\ frames' \in Seq(Frame)
          /\ \A i \in 1..Len(frames') : frames'[i].ex = frames[i].ex
          /\ \A i \in 1..(Len(frames') - 1) : frames'[i].unit = frames[i].unit
        BY <1>1, <1>2, <1>5 DEF IInv, Calls, HopsCounted
    <2>3. Hops(frames')
        BY <2>2, HopsPop
    <2>. QED BY <2>1, <2>3 DEF Calls, HopsCounted
<1>13. NotAbandoned'
    <2>1. left' = left
        BY DEF Wait
    <2>2. \A i \in 1..n : frames'[i].ex = frames[i].ex
        BY <1>2, <1>5
    <2>. QED BY <1>7, <2>1, <2>2 DEF IInv, NotAbandoned
<1>14. ResultPassed'
    BY <1>1, <1>5 DEF Wait, Step, InBody, IInv, ResultPassed
<1>. QED BY <1>8, <1>10, <1>11, <1>12, <1>13, <1>14 DEF IInv

\* A stack that is in a queue or waits belongs to nobody else, and goes on at home.
LEMMA Parked ==
    ASSUME IInv, Held, NEW e \in Executors, Works(e) > 0 \/ waiting
    PROVE  /\ frames # <<>> /\ running = {} /\ Top.ex \in Executors
           /\ Works(e) > 0 => /\ ~waiting /\ e = Top.ex /\ Works(e) = 1
                              /\ \A f \in Executors : Works(f) = IF f = e THEN 1 ELSE 0
           /\ waiting => \A f \in Executors : Works(f) = 0
<1>1. frames # <<>>
    BY DEF IInv, Control, OneResumer
<1>2. running = {}
    BY DEF IInv, Control, OneResumer
<1>3. Top.ex \in Executors
    BY <1>1, TopFacts DEF IInv, TypeOK
<1>4. \A f \in Executors : Works(f) \in Nat
    BY DEF IInv, TypeOK, Works
<1>5. waiting => \A f \in Executors : Works(f) = 0
    BY DEF IInv, Control, OneResumer
<1>6. ASSUME Works(e) > 0
      PROVE  /\ ~waiting /\ e = Top.ex /\ Works(e) = 1
             /\ \A f \in Executors : Works(f) = IF f = e THEN 1 ELSE 0
    <2>1. ~waiting
        BY <1>4, <1>5, <1>6
    <2>2. e = Top.ex
        BY <1>1, <1>6 DEF IInv, Control, AtHome
    <2>3. \A f \in Executors : Works(f) > 0 => f = e /\ Works(f) = 1
        BY <1>6 DEF IInv, Control, OneResumer
    <2>. QED BY <1>4, <1>6, <2>1, <2>2, <2>3
<1>. QED BY <1>1, <1>2, <1>3, <1>5, <1>6

\* co_await Yield{} and Sleep{}.
LEMMA SpawnKeeps ==
    ASSUME IInv, NEW u \in Threads, Spawn(u)
    PROVE  IInv'
<1>1. u \in running /\ frames # <<>>
    BY DEF Spawn, Step, InBody
<1>2. weak' = Plus(weak, Top.ex) /\ running' = {}
    BY <1>1, Runner DEF Spawn, Gives
<1>3. /\ ~waiting' /\ strong' = strong /\ Top.ex \in Executors
      /\ \A f \in Executors : strong[f] = 0 /\ weak[f] = 0
    BY <1>1, Runner DEF Spawn
<1>4. \A f \in Executors : Works(f)' = IF f = Top.ex THEN 1 ELSE 0
    BY <1>2, <1>3 DEF Works, Plus, IInv, TypeOK
<1>5. TypeOK'
    BY <1>2, <1>3 DEF Spawn, Step, Plus, IInv, TypeOK, holds
<1>6. Control'
    <2>1. OneResumer'
        BY <1>1, <1>2, <1>3, <1>4 DEF Spawn, OneResumer
    <2>2. StackHeld'
        BY <1>2, <1>3 DEF Spawn, IInv, Control, StackHeld, Held, holds
    <2>3. AtHome'
        BY <1>2, <1>3, <1>4 DEF Spawn, AtHome, Top
    <2>. QED BY <2>1, <2>2, <2>3 DEF Control
<1>7. Calls' /\ UnitsCounted' /\ NotAbandoned' /\ ResultPassed'
    BY SameFrames DEF Spawn
<1>. QED BY <1>5, <1>6, <1>7 DEF IInv

\* What a thread that starts to run the stack leaves behind.
LEMMA ResumedKeeps ==
    ASSUME IInv, NEW u \in Threads, Runs(u), frames # <<>>, ExecutorOf(u) = Top.ex, running = {},
           ~waiting', \A f \in Executors : Works(f)' = 0,
           strong' \in [Executors -> Nat], weak' \in [Executors -> Nat], waiting' \in BOOLEAN,
           UNCHANGED <<frames, result, entry, owned, externalWork, left, crashed, steps>>
    PROVE  IInv'
<1>1. running' = {u} /\ locked' = locked \cup {u}
    BY DEF Runs
<1>2. TypeOK'
    BY <1>1 DEF IInv, TypeOK
<1>3. Control'
    BY <1>1 DEF Control, OneResumer, StackHeld, AtHome, Held, Top
<1>4. Calls' /\ UnitsCounted' /\ NotAbandoned' /\ ResultPassed'
    BY SameFrames
<1>. QED BY <1>2, <1>3, <1>4 DEF IInv

\* The executor of a thread.
LEMMA ThreadExecutor ==
    ASSUME NEW u \in Threads
    PROVE  ExecutorOf(u) \in Executors
BY DEF Threads, ExecutorOf

\* The Work of a schedule().
LEMMA RunStrongKeeps ==
    ASSUME IInv, NEW u \in Threads, RunStrong(u)
    PROVE  IInv'
<1>. DEFINE e == ExecutorOf(u)
<1>1. /\ e \in Executors /\ strong[e] > 0 /\ strong' = Minus(strong, e) /\ Runs(u)
      /\ strong \in [Executors -> Nat] /\ weak \in [Executors -> Nat] /\ weak' = weak
      /\ waiting' = waiting
    BY ThreadExecutor DEF RunStrong, IInv, TypeOK
<1>. HIDE DEF e
<1>2. Held /\ Works(e) > 0
    BY <1>1 DEF Held, Works
<1>3. /\ frames # <<>> /\ running = {} /\ ~waiting /\ e = Top.ex
      /\ \A f \in Executors : Works(f) = IF f = e THEN 1 ELSE 0
    BY <1>1, <1>2, Parked
<1>4. strong[e] = 1 /\ weak[e] = 0 /\ \A f \in Executors \ {e} : strong[f] = 0 /\ weak[f] = 0
    BY <1>1, <1>3 DEF Works
<1>5. strong' \in [Executors -> Nat] /\ \A f \in Executors : Works(f)' = 0
    BY <1>1, <1>4 DEF Minus, Works
<1>6. /\ ExecutorOf(u) = Top.ex /\ weak' \in [Executors -> Nat]
      /\ UNCHANGED <<frames, result, entry, owned, externalWork, left, crashed, steps>>
    BY <1>1, <1>3 DEF RunStrong, e
<1>7. ~waiting' /\ waiting' \in BOOLEAN
    BY <1>1, <1>3 DEF IInv, TypeOK
<1>. QED BY <1>1, <1>3, <1>5, <1>6, <1>7, ResumedKeeps

\* The Work of a Yield or Sleep.
LEMMA RunWeakKeeps ==
    ASSUME IInv, NEW u \in Threads, RunWeak(u)
    PROVE  IInv'
<1>. DEFINE e == ExecutorOf(u)
<1>1. /\ e \in Executors /\ weak[e] > 0 /\ weak' = Minus(weak, e)
      /\ strong \in [Executors -> Nat] /\ weak \in [Executors -> Nat] /\ strong' = strong
      /\ waiting' = waiting
    BY ThreadExecutor DEF RunWeak, IInv, TypeOK
<1>. HIDE DEF e
<1>2. Works(e) > 0
    BY <1>1 DEF Works
<1>3. weak' \in [Executors -> Nat]
      /\ \A f \in Executors : Works(f)' = IF f = e THEN Works(f) - 1 ELSE Works(f)
    BY <1>1 DEF Minus, Works
<1>4. CASE Held
    <2>1. /\ frames # <<>> /\ running = {} /\ ~waiting /\ e = Top.ex
          /\ \A f \in Executors : Works(f) = IF f = e THEN 1 ELSE 0
        BY <1>1, <1>2, <1>4, Parked
    <2>2. Runs(u) /\ \A f \in Executors : Works(f)' = 0
        BY <1>3, <1>4, <2>1 DEF RunWeak
    <2>3. /\ ExecutorOf(u) = Top.ex /\ strong' \in [Executors -> Nat]
          /\ UNCHANGED <<frames, result, entry, owned, externalWork, left, crashed, steps>>
        BY <1>1, <1>4, <2>1 DEF RunWeak, e
    <2>4. ~waiting' /\ waiting' \in BOOLEAN
        BY <1>1, <2>1 DEF IInv, TypeOK
    <2>. QED BY <1>3, <2>1, <2>2, <2>3, <2>4, ResumedKeeps
<1>5. CASE ~Held
    <2>1. locked' = locked /\ running' = running /\ owned' = owned /\ frames = <<>>
          /\ frames' = frames
        BY <1>5 DEF RunWeak, IInv, Control, StackHeld
    <2>2. TypeOK'
        BY <1>1, <1>3, <2>1 DEF RunWeak, IInv, TypeOK
    <2>3. \A f \in Executors : Works(f) \in Nat
        BY <1>1 DEF Works
    <2>4. running = {} /\ ~Held' /\ ~waiting
        BY <1>1, <1>2, <1>5, <2>1 DEF IInv, Control, OneResumer, Held
    <2>5. \A f \in Executors : Works(f) > 0 => f = e /\ Works(e) = 1
        BY <1>1, <1>2 DEF IInv, Control, OneResumer
    <2>6. \A f \in Executors : Works(f)' = 0
        BY <1>1, <1>2, <1>3, <2>3, <2>5
    <2>7. Control'
        BY <1>1, <2>1, <2>4, <2>6 DEF Control, OneResumer, StackHeld, AtHome
    <2>8. Calls' /\ UnitsCounted' /\ NotAbandoned' /\ ResultPassed'
        BY SameFrames DEF RunWeak
    <2>. QED BY <2>2, <2>7, <2>8 DEF IInv
<1>. QED BY <1>4, <1>5

\* notify_one() on a thread of the same executor.
LEMMA NotifyHereKeeps ==
    ASSUME IInv, NEW u \in Threads, NotifyHere(u)
    PROVE  IInv'
<1>1. /\ Held /\ waiting /\ waiting' = FALSE /\ Runs(u) /\ ExecutorOf(u) = Top.ex
      /\ strong' = strong /\ weak' = weak
      /\ strong \in [Executors -> Nat] /\ weak \in [Executors -> Nat]
    BY DEF NotifyHere, GoesHome, IInv, TypeOK
<1>2. ExecutorOf(u) \in Executors
    BY ThreadExecutor
<1>3. frames # <<>> /\ running = {} /\ \A f \in Executors : Works(f) = 0
    BY <1>1, <1>2, Parked
<1>4. \A f \in Executors : Works(f)' = 0
    BY <1>1, <1>3 DEF Works
<1>. QED BY <1>1, <1>3, <1>4, ResumedKeeps DEF NotifyHere

\* notify_one() elsewhere.
LEMMA NotifyElsewhereKeeps ==
    ASSUME IInv, NotifyElsewhere
    PROVE  IInv'
<1>1. /\ Held /\ waiting /\ waiting' = FALSE /\ strong' = Plus(strong, Top.ex) /\ weak' = weak
      /\ locked' = locked /\ owned' = owned /\ running' = running /\ frames' = frames
      /\ strong \in [Executors -> Nat] /\ weak \in [Executors -> Nat]
    BY DEF NotifyElsewhere, holds, IInv, TypeOK
<1>2. /\ frames # <<>> /\ running = {} /\ Top.ex \in Executors
      /\ \A f \in Executors : Works(f) = 0
    BY <1>1, FramesAssumption, Parked
<1>3. /\ strong' \in [Executors -> Nat] /\ strong'[Top.ex] > 0
      /\ \A f \in Executors : Works(f)' = IF f = Top.ex THEN 1 ELSE 0
    BY <1>1, <1>2 DEF Works, Plus
<1>4. TypeOK'
    BY <1>1, <1>3 DEF NotifyElsewhere, IInv, TypeOK
<1>5. Control'
    <2>1. OneResumer'
        BY <1>1, <1>2, <1>3 DEF OneResumer
    <2>2. StackHeld'
        BY <1>1, <1>2, <1>3 DEF IInv, Control, StackHeld, Held
    <2>3. AtHome'
        BY <1>1, <1>2, <1>3 DEF AtHome, Top
    <2>. QED BY <2>1, <2>2, <2>3 DEF Control
<1>6. Calls' /\ UnitsCounted' /\ NotAbandoned' /\ ResultPassed'
    BY SameFrames DEF NotifyElsewhere
<1>. QED BY <1>4, <1>5, <1>6 DEF IInv

\* ~TaskStack, or not: what Release and Cancel do to the coroutines.
LEMMA DestroyedKeeps ==
    ASSUME IInv, NEW unheld \in BOOLEAN, DestroyedIf(unheld),
           UNCHANGED <<result, entry, running, queues, left, crashed>>,
           Held' <=> ~unheld, Held' => Held, running \subseteq locked', unheld => running = {}
    PROVE  Control' /\ Calls' /\ UnitsCounted' /\ NotAbandoned' /\ ResultPassed'
           /\ frames' \in Seq(Frame) /\ externalWork' \in [Executors -> Nat]
<1>1. /\ running' = running /\ waiting' = waiting /\ strong' = strong /\ weak' = weak
      /\ \A e \in Executors : Works(e)' = Works(e)
    BY DEF queues, Works
<1>2. CASE unheld
    <2>1. frames' = <<>> /\ externalWork' = [e \in Executors |-> 0] /\ ~Held' /\ running = {}
        BY <1>2, UnwoundIsZero DEF DestroyedIf
    <2>2. Calls' /\ UnitsCounted' /\ NotAbandoned' /\ ResultPassed'
        BY <2>1, EmptyFrames
    <2>3. Control'
        BY <1>1, <2>1 DEF IInv, Control, OneResumer, StackHeld, AtHome
    <2>4. frames' \in Seq(Frame) /\ externalWork' \in [Executors -> Nat]
        BY <2>1
    <2>. QED BY <2>2, <2>3, <2>4
<1>3. CASE ~unheld
    <2>1. frames' = frames /\ externalWork' = externalWork /\ Held' /\ Held
        BY <1>3 DEF DestroyedIf
    <2>2. Calls' /\ UnitsCounted' /\ NotAbandoned' /\ ResultPassed'
        BY <2>1, SameFrames
    <2>3. Control'
        BY <1>1, <2>1 DEF IInv, Control, OneResumer, StackHeld, AtHome, Top
    <2>. QED BY <2>1, <2>2, <2>3 DEF IInv, TypeOK
<1>. QED BY <1>2, <1>3

\* A thread is done with the stack.
LEMMA ReleaseKeeps ==
    ASSUME IInv, NEW u \in Threads, Release(u)
    PROVE  IInv'
<1>. DEFINE unheld == ~owned /\ locked = {u} /\ \A e \in Executors : strong[e] = 0
<1>1. /\ u \in locked /\ u \notin running /\ locked' = locked \ {u} /\ DestroyedIf(unheld)
      /\ UNCHANGED <<result, entry, running, queues, owned, left, crashed, steps>>
    BY DEF Release
<1>2. running \subseteq locked
    BY DEF IInv, Control, StackHeld
<1>3. Held /\ strong' = strong
    BY <1>1 DEF Held, queues
<1>4. Held' <=> ~unheld
    <2>1. locked' = {} <=> locked = {u}
        BY <1>1
    <2>2. Held' <=> owned \/ locked' # {} \/ \E e \in Executors : strong[e] > 0
        BY <1>1, <1>3 DEF Held
    <2>3. \A e \in Executors : strong[e] \in Nat
        BY DEF IInv, TypeOK
    <2>. QED BY <2>1, <2>2, <2>3
<1>5. running \subseteq locked' /\ (unheld => running = {}) /\ unheld \in BOOLEAN
    BY <1>1, <1>2
<1>. HIDE DEF unheld
<1>6. Control' /\ Calls' /\ UnitsCounted' /\ NotAbandoned' /\ ResultPassed'
      /\ frames' \in Seq(Frame) /\ externalWork' \in [Executors -> Nat]
    BY <1>1, <1>3, <1>4, <1>5, DestroyedKeeps
<1>7. TypeOK'
    BY <1>1, <1>6 DEF IInv, TypeOK, queues
<1>. QED BY <1>6, <1>7 DEF IInv

\* The owner drops the stack.
LEMMA CancelKeeps ==
    ASSUME IInv, Cancel
    PROVE  IInv'
<1>. DEFINE unheld == locked = {} /\ \A e \in Executors : strong[e] = 0
<1>1. /\ owned /\ owned' = FALSE /\ DestroyedIf(unheld)
      /\ UNCHANGED <<result, entry, running, queues, locked, left, crashed, steps>>
    BY DEF Cancel
<1>2. running \subseteq locked
    BY DEF IInv, Control, StackHeld
<1>3. Held /\ strong' = strong /\ locked' = locked
    BY <1>1 DEF Held, queues
<1>4. Held' <=> ~unheld
    <2>1. Held' <=> locked # {} \/ \E e \in Executors : strong[e] > 0
        BY <1>1, <1>3 DEF Held
    <2>2. \A e \in Executors : strong[e] \in Nat
        BY DEF IInv, TypeOK
    <2>. QED BY <2>1, <2>2
<1>5. running \subseteq locked' /\ (unheld => running = {}) /\ unheld \in BOOLEAN
    BY <1>2, <1>3
<1>. HIDE DEF unheld
<1>6. Control' /\ Calls' /\ UnitsCounted' /\ NotAbandoned' /\ ResultPassed'
      /\ frames' \in Seq(Frame) /\ externalWork' \in [Executors -> Nat]
    BY <1>1, <1>3, <1>4, <1>5, DestroyedKeeps
<1>7. TypeOK'
    BY <1>1, <1>6 DEF IInv, TypeOK, queues
<1>. QED BY <1>6, <1>7 DEF IInv

\* block_on of e returns: no call belongs to e, for the stack would be run or queued
\* there, or one of its calls would have counted external work.
LEMMA LeaveKeeps ==
    ASSUME IInv, NEW e \in Executors, Leave(e)
    PROVE  IInv'
<1>. DEFINE n == Len(frames)
<1>1. /\ strong[e] = 0 /\ weak[e] = 0 /\ externalWork[e] = 0
      /\ \A u \in locked : ExecutorOf(u) # e
      /\ left' = left \cup {e}
      /\ UNCHANGED <<frames, result, entry, running, queues, holds, externalWork, crashed, steps>>
    BY DEF Leave
<1>2. frames \in Seq(Frame) /\ DOMAIN frames = 1..n /\ n \in Nat
    BY LenProperties DEF IInv, TypeOK
<1>3. \A i \in 1..n : frames[i].unit # {e}
    <2>1. UnitsOn(frames, e) = {}
        BY <1>1, <1>2, UnitsCountedMeans, UnitsOnFacts, FS_EmptySet DEF IInv
    <2>. QED BY <1>2, <2>1 DEF UnitsOn
<1>4. ASSUME frames # <<>>
      PROVE  Top.ex # e
    <2>1. CASE running # {}
        <3>1. PICK u \in running : TRUE
            BY <2>1
        <3>. QED BY <1>1, <1>4, <3>1, Runner
    <2>2. CASE waiting
        <3>1. Top.unit = {Top.ex} /\ Top = frames[n] /\ n \in 1..n
            BY <1>2, <1>4, <2>2, TopFacts DEF IInv, Control, AtHome
        <3>. QED BY <1>3, <3>1
    <2>3. CASE \E f \in Executors : Works(f) > 0
        <3>1. PICK f \in Executors : Works(f) > 0
            BY <2>3
        <3>2. f = Top.ex
            BY <1>4, <3>1 DEF IInv, Control, AtHome
        <3>3. f # e
            BY <1>1, <3>1 DEF Works
        <3>. QED BY <3>2, <3>3
    <2>. QED BY <1>4, <2>1, <2>2, <2>3 DEF IInv, Control, OneResumer
<1>5. \A i \in 1..n : frames[i].ex # e
    <2>. SUFFICES ASSUME NEW i \in 1..n, frames[i].ex = e PROVE FALSE
        OBVIOUS
    <2>1. frames # <<>> /\ n \in 1..n /\ Top = frames[n] /\ i \in 1..n
        BY <1>2, TopFacts
    <2>2. \/ frames[i].ex = frames[n].ex
          \/ \E j \in i..(n - 1) : frames[j].unit = {frames[i].ex}
        BY <2>1 DEF IInv, Calls, HopsCounted, Hops
    <2>3. PICK j \in i..(n - 1) : frames[j].unit = {frames[i].ex}
        BY <1>4, <2>1, <2>2
    <2>4. j \in 1..n
        BY <1>2
    <2>. QED BY <1>3, <2>3, <2>4
<1>6. NotAbandoned'
    BY <1>1, <1>2, <1>5 DEF IInv, NotAbandoned
<1>7. TypeOK'
    BY <1>1 DEF IInv, TypeOK, queues, holds
<1>8. Control' /\ Calls' /\ UnitsCounted' /\ ResultPassed'
    BY <1>1 DEF IInv, Control, OneResumer, StackHeld, AtHome, Works, Held, Top, Calls,
                UnitsAtHome, HopsCounted, UnitsCounted, ResultPassed, queues, holds
<1>. QED BY <1>6, <1>7, <1>8 DEF IInv

\* Every step keeps IInv.
LEMMA NextIInv == IInv /\ [Next]_vars => IInv'
<1>. SUFFICES ASSUME IInv, [Next]_vars PROVE IInv'
    OBVIOUS
<1>1. ASSUME NEW u \in Threads, Goes(u) PROVE IInv'
    BY <1>1, CallKeeps, ReturnKeeps, FinishKeeps, TakeResultKeeps, EndAwaitKeeps, SpawnKeeps,
       WaitKeeps, HopKeeps DEF Goes
<1>2. ASSUME NEW u \in Threads, Resumes(u) \/ NotifyHere(u) \/ Release(u) PROVE IInv'
    BY <1>2, RunStrongKeeps, RunWeakKeeps, NotifyHereKeeps, ReleaseKeeps DEF Resumes
<1>3. CASE NotifyElsewhere \/ Cancel \/ \E e \in Executors : Leave(e)
    BY <1>3, NotifyElsewhereKeeps, CancelKeeps, LeaveKeeps
<1>4. CASE UNCHANGED vars
    BY <1>4, SameFrames DEF vars, queues, holds, IInv, TypeOK, Control, OneResumer, StackHeld,
       AtHome, Works, Held, Top
<1>. QED BY <1>1, <1>2, <1>3, <1>4 DEF Next

-----------------------------------------------------------------------------
(***************************************************************************)
(* The theorems                                                            *)
(***************************************************************************)

\* The inductive invariant of a stack and its coroutines.
THEOREM FramesInvariant == Spec => []IInv
BY InitIInv, NextIInv, PTL DEF Spec

\* Every variable keeps its type: no external work below zero, no result twice.
THEOREM FramesTypeOK == Spec => []TypeOK
<1>1. IInv => TypeOK
    BY DEF IInv
<1>. QED BY <1>1, FramesInvariant, PTL

\* Inv1: one thread, Work or condition variable goes on with the stack, on any number of
\* executors and threads.
THEOREM FramesOneResumer == Spec => []OneResumer
<1>1. IInv => OneResumer
    BY DEF IInv, Control
<1>. QED BY <1>1, FramesInvariant, PTL

\* Every unit of external work is held by a coroutine, and is given back wherever the
\* stack is destroyed.
THEOREM FramesUnitsCounted == Spec => []UnitsCounted
<1>1. IInv => UnitsCounted
    BY DEF IInv
<1>. QED BY <1>1, FramesInvariant, PTL

\* No block_on returns while a coroutine of its executor is on the stack.
THEOREM FramesNotAbandoned == Spec => []NotAbandoned
<1>1. IInv => NotAbandoned
    BY DEF IInv
<1>. QED BY <1>1, FramesInvariant, PTL

\* take_result() and put_result() find what they assert.
THEOREM FramesResultPassed == Spec => []ResultPassed
<1>1. IInv => ResultPassed
    BY DEF IInv
<1>. QED BY <1>1, FramesInvariant, PTL

-----------------------------------------------------------------------------
(***************************************************************************)
(* The refinement of CallStack                                             *)
(***************************************************************************)

\* The executors of the calls.
Calling(s) == [i \in DOMAIN s |-> s[i].ex]

\* The calls are as many as the coroutines.
LEMMA CallingFacts ==
    ASSUME NEW s \in Seq(Frame)
    PROVE  /\ Calling(s) \in Seq(Executors) /\ Len(Calling(s)) = Len(s)
           /\ \A i \in 1..Len(s) : Calling(s)[i] = s[i].ex
           /\ Calling(s) = <<>> <=> s = <<>>
<1>1. DOMAIN s = 1..Len(s) /\ Len(s) \in Nat /\ \A i \in 1..Len(s) : s[i].ex \in Executors
    <2>1. \A i \in 1..Len(s) : s[i] \in Frame
        BY ElementOfSeq
    <2>. QED BY <2>1, LenProperties DEF Frame
<1>2. Calling(s) \in [1..Len(s) -> Executors]
    BY <1>1 DEF Calling
<1>3. Calling(s) \in Seq(Executors) /\ Len(Calling(s)) = Len(s)
    BY <1>1, <1>2, IsASeq, LenProperties
<1>. QED BY <1>1, <1>3, EmptySeq DEF Calling

\* A coroutine that is pushed is a call.
LEMMA CallingAppend ==
    ASSUME NEW s \in Seq(Frame), NEW f \in Frame
    PROVE  Calling(Append(s, f)) = Append(Calling(s), f.ex)
<1>. DEFINE t == Append(s, f)
            c == Calling(s)
<1>1. /\ t \in Seq(Frame) /\ Len(t) = Len(s) + 1 /\ Len(s) \in Nat
      /\ t[Len(s) + 1] = f /\ \A i \in 1..Len(s) : t[i] = s[i]
    BY Pushing, LenProperties
<1>2. f.ex \in Executors
    BY DEF Frame
<1>3. c \in Seq(Executors) /\ Len(c) = Len(s) /\ \A i \in 1..Len(s) : c[i] = s[i].ex
    BY CallingFacts
<1>. HIDE DEF t, c
<1>4. /\ Calling(t) \in Seq(Executors) /\ Len(Calling(t)) = Len(t)
      /\ \A i \in 1..Len(t) : Calling(t)[i] = t[i].ex
    BY <1>1, CallingFacts
<1>5. /\ Append(c, f.ex) \in Seq(Executors) /\ Len(Append(c, f.ex)) = Len(c) + 1
      /\ \A i \in 1..Len(c) : Append(c, f.ex)[i] = c[i]
      /\ Append(c, f.ex)[Len(c) + 1] = f.ex
    BY <1>2, <1>3, AppendProperties
<1>6. \A i \in 1..Len(t) : Calling(t)[i] = Append(c, f.ex)[i]
    BY <1>1, <1>3, <1>4, <1>5
<1>7. Calling(t) = Append(c, f.ex)
    BY <1>1, <1>3, <1>4, <1>5, <1>6, SeqEqual
<1>. QED BY <1>7 DEF t, c

\* A unit of external work is not seen in the calls.
LEMMA CallingTopUnit ==
    ASSUME frames \in Seq(Frame), frames # <<>>, NEW x \in SUBSET Executors
    PROVE  Calling(TopUnit(x)) = Calling(frames)
<1>. DEFINE t == TopUnit(x)
<1>1. /\ t \in Seq(Frame) /\ Len(t) = Len(frames) /\ Len(frames) \in Nat \ {0}
      /\ \A i \in 1..(Len(frames) - 1) : t[i] = frames[i]
      /\ t[Len(frames)].ex = frames[Len(frames)].ex
    <2>1. [ex |-> Top.ex, unit |-> x].ex = Top.ex
        OBVIOUS
    <2>2. Top.ex = frames[Len(frames)].ex /\ Len(frames) \in Nat \ {0}
        BY TopFacts
    <2>3. /\ t \in Seq(Frame) /\ Len(t) = Len(frames)
          /\ \A i \in 1..(Len(frames) - 1) : t[i] = frames[i]
          /\ t[Len(frames)] = [ex |-> Top.ex, unit |-> x]
        BY Retopping
    <2>. HIDE DEF t
    <2>. QED BY <2>1, <2>2, <2>3
<1>. HIDE DEF t
<1>2. /\ Calling(t) \in Seq(Executors) /\ Len(Calling(t)) = Len(t)
      /\ \A i \in 1..Len(t) : Calling(t)[i] = t[i].ex
    BY <1>1, CallingFacts
<1>3. /\ Calling(frames) \in Seq(Executors) /\ Len(Calling(frames)) = Len(frames)
      /\ \A i \in 1..Len(frames) : Calling(frames)[i] = frames[i].ex
    BY CallingFacts
<1>4. \A i \in 1..Len(frames) : Calling(t)[i] = Calling(frames)[i]
    BY <1>1, <1>2, <1>3
<1>5. Calling(t) = Calling(frames)
    BY <1>1, <1>2, <1>3, <1>4, SeqEqual
<1>. QED BY <1>5 DEF t

\* A coroutine that is popped is a call less.
LEMMA CallingFront ==
    ASSUME NEW s \in Seq(Frame), s # <<>>
    PROVE  Calling(Front(s)) = Front(Calling(s))
<1>. DEFINE t == Front(s)
            c == Calling(s)
<1>1. /\ t \in Seq(Frame) /\ Len(t) = Len(s) - 1 /\ Len(s) \in Nat
      /\ \A i \in 1..(Len(s) - 1) : t[i] = s[i]
    BY Popping, LenProperties
<1>2. c \in Seq(Executors) /\ c # <<>> /\ Len(c) = Len(s) /\ \A i \in 1..Len(s) : c[i] = s[i].ex
    BY CallingFacts
<1>. HIDE DEF t, c
<1>3. /\ Calling(t) \in Seq(Executors) /\ Len(Calling(t)) = Len(t)
      /\ \A i \in 1..Len(t) : Calling(t)[i] = t[i].ex
    BY <1>1, CallingFacts
<1>4. /\ Front(c) \in Seq(Executors) /\ Len(Front(c)) = Len(c) - 1
      /\ \A i \in 1..(Len(c) - 1) : Front(c)[i] = c[i]
    BY <1>2, Popping
<1>5. \A i \in 1..Len(t) : Calling(t)[i] = Front(c)[i]
    <2>. TAKE i \in 1..Len(t)
    <2>1. i \in 1..(Len(s) - 1) /\ i \in 1..Len(s) /\ i \in 1..(Len(c) - 1)
        BY <1>1, <1>2
    <2>2. Calling(t)[i] = t[i].ex /\ t[i] = s[i] /\ c[i] = s[i].ex /\ Front(c)[i] = c[i]
        BY <1>1, <1>2, <1>3, <1>4, <2>1
    <2>. QED BY <2>2
<1>6. Calling(t) = Front(c)
    BY <1>1, <1>2, <1>3, <1>4, <1>5, SeqEqual
<1>. QED BY <1>6 DEF t, c

\* The innermost call belongs to the executor of the innermost coroutine.
LEMMA CallingLast ==
    ASSUME frames \in Seq(Frame), frames # <<>>
    PROVE  Calling(frames) # <<>> /\ Last(Calling(frames)) = Top.ex
BY CallingFacts, TopFacts DEF Last

\* CallStack's operators on sequences are those of this module.
LEMMA SameOperators ==
    ASSUME NEW s
    PROVE  Abs!Last(s) = Last(s) /\ Abs!Front(s) = Front(s)
BY DEF Abs!Last, Last, Abs!Front, Front

\* block_on starts the abstract stack.
LEMMA InitImplements == Init => Abs!Init
<1>. SUFFICES ASSUME Init PROVE Abs!Init
    OBVIOUS
<1>1. <<Home, 1>> \in Threads /\ ExecutorOf(<<Home, 1>>) = Home
    BY FramesAssumption DEF Threads, ExecutorOf
<1>2. Calling(frames) = <<Home>>
    <2>1. frames = <<Pushed(Home)>> /\ Pushed(Home).ex = Home
        BY DEF Init, Pushed
    <2>. QED BY <2>1 DEF Calling
<1>. QED BY <1>1, <1>2 DEF Init, Abs!Init, Calling

\* Who runs the stack controls it.
LEMMA RunnerControls ==
    ASSUME IInv, NEW u \in running, frames # <<>>
    PROVE  Abs!Controls(u)
<1>1. Calling(frames) # <<>> /\ Last(Calling(frames)) = Top.ex
    BY CallingLast DEF IInv, TypeOK
<1>. QED BY <1>1, Runner, SameOperators DEF Abs!Controls, Calling

\* A step of the innermost coroutine is one of the innermost call, or none.
LEMMA GoesImplements ==
    ASSUME IInv, NEW u \in Threads, Goes(u)
    PROVE  Abs!Next \/ UNCHANGED <<Calling(frames), running>>
<1>1. u \in running /\ frames # <<>> /\ frames \in Seq(Frame)
    BY DEF Goes, Call, Return, Finish, TakeResult, EndAwait, Spawn, Wait, Hop, Step, InBody,
           IInv, TypeOK
<1>2. /\ Abs!Controls(u) /\ Calling(frames) # <<>> /\ Last(Calling(frames)) = Top.ex
      /\ running = {u} /\ ExecutorOf(u) = Top.ex /\ Top.ex \in Executors
    BY <1>1, RunnerControls, CallingLast, Runner
<1>3. CASE Call(u)
    <2>1. Pushed(Top.ex) \in Frame /\ Pushed(Top.ex).ex = Top.ex
        BY <1>2 DEF Pushed, Frame
    <2>2. Calling(frames') = Append(Calling(frames), Last(Calling(frames)))
        BY <1>1, <1>2, <1>3, <2>1, CallingAppend DEF Call
    <2>. QED BY <1>2, <1>3, <2>2, SameOperators DEF Call, Abs!Next, Abs!Call, Calling
<1>4. ASSUME NEW e \in Executors, Hop(u, e) PROVE Abs!Next
    <2>1. Pushed(e) \in Frame /\ Pushed(e).ex = e
        BY DEF Pushed, Frame
    <2>2. TopUnit({Top.ex}) \in Seq(Frame) /\ Calling(TopUnit({Top.ex})) = Calling(frames)
        BY <1>1, <1>2, Retopping, CallingTopUnit
    <2>3. Calling(frames') = Append(Calling(frames), e)
        BY <1>4, <2>1, <2>2, CallingAppend DEF Hop
    <2>4. running' = {}
        BY <1>2, <1>4 DEF Hop, Gives
    <2>. QED BY <1>2, <2>3, <2>4 DEF Abs!Next, Abs!CallOn, Calling
<1>5. CASE Return(u)
    <2>1. Calling(frames') = Front(Calling(frames))
        BY <1>1, <1>5, CallingFront DEF Return
    <2>2. frames' \in Seq(Frame) /\ frames' # <<>> /\ frames' = Front(frames)
        BY <1>1, <1>5, Popping, EmptySeq DEF Return
    <2>3. Calling(frames') # <<>> /\ Last(Calling(frames')) = Last(frames').ex
        BY <2>2, CallingFacts DEF Last
    <2>4. running' = IF Last(Calling(frames')) = Last(Calling(frames)) THEN running ELSE {}
        BY <1>2, <1>5, <2>2, <2>3 DEF Return, GoesHome, Gives
    <2>. QED BY <1>2, <2>1, <2>3, <2>4, SameOperators DEF Abs!Next, Abs!Return, Calling
<1>6. CASE Finish(u)
    <2>1. frames' = <<>> /\ running' = {} /\ Len(frames) = 1
        BY <1>2, <1>6 DEF Finish, Gives
    <2>2. /\ Front(Calling(frames)) \in Seq(Executors) /\ Len(Front(Calling(frames))) = 0
          /\ Calling(frames) \in Seq(Executors)
        BY <1>1, <1>2, <2>1, CallingFacts, Popping
    <2>3. Calling(frames') = <<>> /\ Front(Calling(frames)) = <<>>
        BY <2>1, <2>2, EmptySeq DEF Calling
    <2>. QED BY <1>2, <2>1, <2>3, SameOperators DEF Abs!Next, Abs!Return, Calling
<1>7. CASE TakeResult(u)
    BY <1>7 DEF TakeResult
<1>8. CASE EndAwait(u)
    BY <1>1, <1>8, CallingTopUnit DEF EndAwait
<1>9. CASE Spawn(u)
    BY <1>2, <1>9 DEF Spawn, Gives, Abs!Next, Abs!Suspend, Calling
<1>10. CASE Wait(u)
    <2>1. Calling(frames') = Calling(frames) /\ running' = {}
        BY <1>1, <1>2, <1>10, CallingTopUnit DEF Wait, Gives
    <2>. QED BY <1>2, <2>1 DEF Abs!Next, Abs!Suspend, Calling
<1>. QED BY <1>3, <1>4, <1>5, <1>6, <1>7, <1>8, <1>9, <1>10 DEF Goes

\* A thread that starts to run the stack resumes the innermost call.
LEMMA ResumedImplements ==
    ASSUME IInv, NEW u \in Threads, Runs(u), frames # <<>>, frames' = frames,
           ExecutorOf(u) = Top.ex, running = {}
    PROVE  Abs!Next
<1>1. Calling(frames) # <<>> /\ Last(Calling(frames)) = Top.ex
    BY CallingLast DEF IInv, TypeOK
<1>. QED BY <1>1, SameOperators DEF Runs, Abs!Next, Abs!Resume, Calling

\* The other steps of a thread resume the innermost call, let the calls vanish, or are
\* none.
LEMMA OthersImplement ==
    ASSUME IInv, NEW u \in Threads, Resumes(u) \/ NotifyHere(u) \/ Release(u)
    PROVE  Abs!Next \/ UNCHANGED <<Calling(frames), running>>
<1>. DEFINE e == ExecutorOf(u)
<1>1. e \in Executors /\ strong[e] \in Nat /\ weak[e] \in Nat
    BY ThreadExecutor DEF IInv, TypeOK
<1>. HIDE DEF e
<1>2. CASE RunStrong(u)
    <2>1. Held /\ Works(e) > 0 /\ Runs(u) /\ frames' = frames
        BY <1>1, <1>2 DEF RunStrong, Held, Works, e
    <2>2. frames # <<>> /\ running = {} /\ e = Top.ex
        BY <1>1, <2>1, Parked
    <2>. QED BY <2>1, <2>2, ResumedImplements DEF e
<1>3. CASE RunWeak(u) /\ Held
    <2>1. Works(e) > 0 /\ Runs(u) /\ frames' = frames
        BY <1>1, <1>3 DEF RunWeak, Works, e
    <2>2. frames # <<>> /\ running = {} /\ e = Top.ex
        BY <1>1, <1>3, <2>1, Parked
    <2>. QED BY <2>1, <2>2, ResumedImplements DEF e
<1>4. CASE RunWeak(u) /\ ~Held
    BY <1>4 DEF RunWeak
<1>5. CASE NotifyHere(u)
    <2>1. Held /\ waiting /\ Runs(u) /\ frames' = frames /\ e = Top.ex
        BY <1>5 DEF NotifyHere, GoesHome, e
    <2>2. frames # <<>> /\ running = {}
        BY <1>1, <2>1, Parked
    <2>. QED BY <2>1, <2>2, ResumedImplements DEF e
<1>6. CASE Release(u)
    <2>1. running' = running /\ running \subseteq locked
        BY <1>6 DEF Release, IInv, Control, StackHeld
    <2>2. CASE frames' = frames
        BY <2>1, <2>2
    <2>3. CASE frames' # frames
        <3>1. running = {} /\ frames' = <<>>
            BY <1>6, <2>1, <2>3 DEF Release, DestroyedIf
        <3>2. Calling(frames') = <<>>
            BY <3>1 DEF Calling
        <3>. QED BY <2>1, <3>1, <3>2 DEF Abs!Next, Abs!Vanish, Calling
    <2>. QED BY <2>2, <2>3
<1>. QED BY <1>2, <1>3, <1>4, <1>5, <1>6 DEF Resumes

\* Every step is one of the abstract stack or changes nothing of it.
LEMMA NextImplements == IInv /\ [Next]_vars => [Abs!Next]_<<Calling(frames), running>>
<1>. SUFFICES ASSUME IInv, [Next]_vars
              PROVE  Abs!Next \/ UNCHANGED <<Calling(frames), running>>
    OBVIOUS
<1>1. ASSUME NEW u \in Threads, Goes(u) \/ Resumes(u) \/ NotifyHere(u) \/ Release(u)
      PROVE  Abs!Next \/ UNCHANGED <<Calling(frames), running>>
    BY <1>1, GoesImplements, OthersImplement
<1>2. CASE NotifyElsewhere
    BY <1>2 DEF NotifyElsewhere
<1>3. CASE Cancel
    <2>1. running' = running /\ running \subseteq locked
        BY <1>3 DEF Cancel, IInv, Control, StackHeld
    <2>2. CASE frames' = frames
        BY <2>1, <2>2
    <2>3. CASE frames' # frames
        <3>1. running = {} /\ frames' = <<>>
            BY <1>3, <2>1, <2>3 DEF Cancel, DestroyedIf
        <3>2. Calling(frames') = <<>>
            BY <3>1 DEF Calling
        <3>. QED BY <2>1, <3>1, <3>2 DEF Abs!Next, Abs!Vanish, Calling
    <2>. QED BY <2>2, <2>3
<1>4. ASSUME NEW e \in Executors, Leave(e)
      PROVE  UNCHANGED <<Calling(frames), running>>
    BY <1>4 DEF Leave
<1>5. CASE UNCHANGED vars
    BY <1>5 DEF vars
<1>. QED BY <1>1, <1>2, <1>3, <1>4, <1>5 DEF Next

\* A TaskStack implements a stack of calls, whatever the executors and whoever drops it.
THEOREM FramesImplements == Spec => Implements
<1>1. IInv /\ [Next]_vars => [Abs!Next]_<<[i \in DOMAIN frames |-> frames[i].ex], running>>
    BY NextImplements DEF Calling
<1>. QED BY <1>1, InitImplements, FramesInvariant, PTL DEF Spec, Implements, Abs!Spec
=============================================================================
