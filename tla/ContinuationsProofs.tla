------------------------ MODULE ContinuationsProofs -------------------------
(***************************************************************************)
(* What the operations on a condition variable's continuations do to the   *)
(* set of tasks that they list.                                            *)
(***************************************************************************)
EXTENDS Continuations, SequenceTheorems, TLAPS

\* No reference in the deque has expired.
AllAlive(c) == Expired \notin ToSet(c)

\* An empty deque lists nobody.
LEMMA ListsNobody == Lists(<<>>, {}) /\ AllAlive(<<>>)
BY EmptySeq DEF Lists, ToSet, AllAlive

\* wait() adds a task that was not there.
LEMMA ListsEnqueue ==
    ASSUME NEW S, Expired \notin S, NEW c \in Seq(S \cup {Expired}), NEW W, Lists(c, W),
           NEW x \in S, x \notin W
    PROVE  /\ Enqueue(c, x) \in Seq(S \cup {Expired})
           /\ Lists(Enqueue(c, x), W \cup {x})
           /\ AllAlive(c) => AllAlive(Enqueue(c, x))
<1> DEFINE d == Append(c, x)
<1>1. /\ d \in Seq(S \cup {Expired}) /\ Len(d) = Len(c) + 1 /\ Len(c) \in Nat
      /\ DOMAIN c = 1..Len(c) /\ DOMAIN d = 1..Len(c) + 1
      /\ d[Len(c) + 1] = x /\ \A i \in 1..Len(c) : d[i] = c[i]
    BY AppendProperties, LenProperties
<1> HIDE DEF d
<1>2. x # Expired /\ x \notin ToSet(c)
    BY DEF Lists
<1>3. \A i \in 1..Len(c) : c[i] \in ToSet(c)
    BY <1>1 DEF ToSet
<1>4. ToSet(d) = ToSet(c) \cup {x}
    <2>1. \A y \in ToSet(d) : y \in ToSet(c) \cup {x}
        BY <1>1 DEF ToSet
    <2>2. \A y \in ToSet(c) \cup {x} : y \in ToSet(d)
        BY <1>1 DEF ToSet
    <2> QED BY <2>1, <2>2
<1>5. ASSUME NEW i \in DOMAIN d, NEW j \in DOMAIN d, d[i] = d[j], i # j
      PROVE  d[i] = Expired
    <2>1. CASE i \in 1..Len(c) /\ j \in 1..Len(c)
        BY <1>1, <1>5, <2>1 DEF Lists
    <2>2. CASE ~(i \in 1..Len(c) /\ j \in 1..Len(c))
        BY <1>1, <1>2, <1>3, <1>5, <2>2
    <2> QED BY <2>1, <2>2
<1>6. Lists(d, W \cup {x})
    BY <1>2, <1>4, <1>5 DEF Lists
<1>7. AllAlive(c) => AllAlive(d)
    BY <1>2, <1>4 DEF AllAlive
<1> QED BY <1>1, <1>6, <1>7 DEF d, Enqueue

\* notify_one() takes at most one task off, and exactly one that waits if no
\* reference has expired.
LEMMA ListsPopFront ==
    ASSUME NEW S, Expired \notin S, NEW c \in Seq(S \cup {Expired}), NEW W, Lists(c, W)
    PROVE  /\ PopFront(c) \in Seq(S \cup {Expired})
           /\ NotifiedOne(c) \subseteq W /\ NotifiedOne(c) \subseteq S
           /\ Lists(PopFront(c), W \ NotifiedOne(c))
           /\ AllAlive(c) => AllAlive(PopFront(c))
           /\ AllAlive(c) /\ W # {} => \E x \in W : NotifiedOne(c) = {x}
           /\ NotifiedOne(c) = {} \/ \E x \in W : NotifiedOne(c) = {x}
<1>1. CASE c = <<>>
    <2>1. ToSet(c) = {} /\ NotifiedOne(c) = {} /\ PopFront(c) = c
        BY <1>1, EmptySeq DEF ToSet, NotifiedOne, PopFront
    <2>2. W = {} /\ W \ {} = W
        BY <2>1 DEF Lists
    <2> QED BY <2>1, <2>2
<1>2. CASE c # <<>>
    <2> DEFINE h == c[1]
               d == Tail(c)
    <2>1. /\ d \in Seq(S \cup {Expired}) /\ Len(c) \in Nat \ {0}
          /\ Len(d) = Len(c) - 1 /\ Head(c) = h /\ h \in S \cup {Expired}
          /\ DOMAIN c = 1..Len(c) /\ DOMAIN d = 1..Len(d)
          /\ \A i \in 1..Len(d) : d[i] = c[i + 1]
        BY <1>2, HeadTailProperties, EmptySeq, LenProperties
    <2>2. PopFront(c) = d /\ NotifiedOne(c) = {h} \ {Expired}
        BY <1>2, <2>1 DEF PopFront, NotifiedOne
    <2>3. h \in ToSet(c)
        BY <2>1 DEF ToSet
    <2> HIDE DEF d
    <2>4. \A i \in 1..Len(d) : i + 1 \in 1..Len(c) /\ i + 1 # 1 /\ d[i] = c[i + 1]
        BY <2>1
    <2>5. ToSet(d) \subseteq ToSet(c)
        BY <2>1, <2>4 DEF ToSet
    <2>6. \A y \in ToSet(c) : y # h => y \in ToSet(d)
        <3> SUFFICES ASSUME NEW k \in 1..Len(c), c[k] # h
                     PROVE  c[k] \in ToSet(d)
            BY <2>1 DEF ToSet
        <3>1. k - 1 \in 1..Len(d) /\ (k - 1) + 1 = k
            BY <2>1
        <3>2. d[k - 1] = c[k]
            BY <2>4, <3>1
        <3> QED BY <2>1, <3>1, <3>2 DEF ToSet
    <2>7. h # Expired => h \notin ToSet(d)
        <3> SUFFICES ASSUME NEW i \in 1..Len(d), d[i] = h
                     PROVE  h = Expired
            BY <2>1 DEF ToSet
        <3>1. i + 1 \in DOMAIN c /\ 1 \in DOMAIN c /\ i + 1 # 1 /\ c[i + 1] = c[1]
            BY <2>1, <2>4
        <3> QED BY <3>1 DEF Lists
    <2>8. ToSet(d) \ {Expired} = W \ ({h} \ {Expired})
        BY <2>3, <2>5, <2>6, <2>7 DEF Lists
    <2>9. ASSUME NEW i \in DOMAIN d, NEW j \in DOMAIN d, d[i] = d[j], i # j
          PROVE  d[i] = Expired
        <3>1. i + 1 \in DOMAIN c /\ j + 1 \in DOMAIN c /\ i + 1 # j + 1 /\ c[i + 1] = c[j + 1]
            BY <2>1, <2>4, <2>9
        <3> QED BY <2>1, <2>4, <3>1 DEF Lists
    <2>10. Lists(d, W \ NotifiedOne(c))
        BY <2>2, <2>8, <2>9 DEF Lists
    <2>11. h # Expired => h \in W
        BY <2>3 DEF Lists
    <2>12. AllAlive(c) => h # Expired /\ AllAlive(d)
        BY <2>3, <2>5 DEF AllAlive
    <2> QED BY <2>1, <2>2, <2>10, <2>11, <2>12
<1> QED BY <1>1, <1>2

\* A task that is destroyed is not listed any more.
LEMMA ListsExpire ==
    ASSUME NEW S, Expired \notin S, NEW c \in Seq(S \cup {Expired}), NEW W, Lists(c, W),
           NEW x, x # Expired
    PROVE  /\ Expire(c, x) \in Seq(S \cup {Expired})
           /\ Lists(Expire(c, x), W \ {x})
           /\ x \notin W => Expire(c, x) = c
<1> DEFINE d == Expire(c, x)
<1>1. /\ DOMAIN c = 1..Len(c) /\ Len(c) \in Nat
      /\ \A i \in 1..Len(c) : c[i] \in S \cup {Expired}
    BY LenProperties, ElementOfSeq
<1>2. d = [i \in 1..Len(c) |-> IF c[i] = x THEN Expired ELSE c[i]]
    BY <1>1 DEF Expire
<1> HIDE DEF d
<1>3. /\ d \in [1..Len(c) -> S \cup {Expired}]
      /\ DOMAIN d = 1..Len(c)
      /\ \A i \in 1..Len(c) : d[i] = IF c[i] = x THEN Expired ELSE c[i]
    BY <1>1, <1>2
<1>4. d \in Seq(S \cup {Expired})
    BY <1>1, <1>3, SeqDef
<1>5. ToSet(d) \ {Expired} = W \ {x}
    <2>1. \A y \in ToSet(d) \ {Expired} : y \in ToSet(c) /\ y # x
        BY <1>1, <1>3 DEF ToSet
    <2>2. \A y \in ToSet(c) : y # x => y \in ToSet(d)
        BY <1>1, <1>3 DEF ToSet
    <2> QED BY <2>1, <2>2 DEF Lists
<1>6. \A i, j \in DOMAIN d : d[i] = d[j] /\ i # j => d[i] = Expired
    BY <1>1, <1>3 DEF Lists
<1>7. Lists(d, W \ {x})
    BY <1>5, <1>6 DEF Lists
<1>8. ASSUME x \notin W
      PROVE  d = c
    <2>1. \A i \in 1..Len(c) : c[i] # x
        <3>1. \A i \in 1..Len(c) : c[i] \in ToSet(c)
            BY <1>1 DEF ToSet
        <3> QED BY <1>8, <3>1 DEF Lists
    <2>2. c = [i \in 1..Len(c) |-> c[i]]
        BY LenProperties
    <2> QED BY <1>2, <2>1, <2>2
<1> QED BY <1>4, <1>7, <1>8 DEF d
=============================================================================
