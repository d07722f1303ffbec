---------------------- MODULE ThisThreadExecutorProofs ----------------------
(***************************************************************************)
(* Safety of ThisThreadExecutor, for any coroutines, durations and number  *)
(* of suspensions.                                                         *)
(***************************************************************************)
EXTENDS ThisThreadExecutor, FiniteSetTheorems, SequenceTheorems, WellFoundedInduction, TLAPS

\* The Works queued, and those of the batch that block_on goes through.
Works == ToSet(tasks) \cup ToSet(batch)

\* Where the thread is in block_on says what it has in hand.  What other threads push
\* between the end of the batch and the decision is strong.
Loop ==
    /\ pc # "run" => batch = <<>> /\ spent = {}
    /\ pc \notin {"start", "run"} => run = <<>>
    /\ pc = "decide" => \A w \in ToSet(tasks) : w.what = "strong"

\* No stack that has been destroyed, or not been made, is held; what a guard keeps has
\* ended.
Held ==
    /\ \A x \in Owned : stage[x] \in {"live", "finished"}
    /\ \A x \in Coroutines : \A c \in kept[x] : stage[c] = "finished"

\* Another thread's push has got lost.
Lost(x) == Ways(x) = 0 /\ Racing /\ (x \notin Foreign => x \in counted)

\* Who has not ended goes on in exactly one way, and others do not go on.
Once ==
    \A x \in Coroutines :
        /\ stage[x] = "live" => Ways(x) = 1 \/ Lost(x)
        /\ stage[x] \in {"absent", "finished"} => Ways(x) = 0

\* A timer and a cancellation are those of a Timeout, which one coroutine awaits.
Awaited ==
    /\ \A c \in Children : \A p, q \in awaiter[c] : p = q
    /\ \A c \in Children : stage[c] = "absent" \/ handle[c] # {} => awaiter[c] = {}
    /\ \A w \in Works : w.what \in {"timer", "cancel"}
         => w.who \in Children /\ awaiter[w.who] # {}
    /\ \A d \in delayed : d.what = "timer" => d.who \in Children /\ awaiter[d.who] # {}

\* Who removes the guard decides, and the timer that has done it is the only one to cancel.
CancelsOnce ==
    \A c \in Children : /\ Queued(c, {"cancel"}) <= 1
                        /\ c \in guarded => Queued(c, {"cancel"}) = 0

\* The Timeout whose guard is there has its timer.
TimersSet ==
    \A c \in guarded : awaiter[c] # {} =>
        \/ \E d \in delayed : d.who = c /\ d.what = "timer"
        \/ \E w \in ToSet(batch) : w.who = c /\ w.what = "timer"

\* Who is external work, and who has been but is already queued.
Counting ==
    /\ externalWork = Cardinality(counted)
    /\ \A x \in counted \cup blocked \cup away : stage[x] = "live"
    /\ blocked \subseteq counted
    /\ \A x \in counted : x \notin ToSet(run) /\ Timeouts(x) = {}
    /\ \A x \in Coroutines \ Foreign :
           x \in away \/ (\E w \in Works : w.who = x /\ w.what = "strong") => x \in counted

\* block_on leaves when the root has ended.
Ready ==
    Root \notin Foreign =>
        /\ pc \in {"result", "returned"} => stage[Root] = "finished"
        /\ pc # "failed"

\* The slumber ends no later than the earliest deadline.
InTime ==
    \A d \in delayed : /\ d.in >= 0
                       /\ pc \in {"start", "run", "decide"} => d.in > 0
                       /\ pc = "asleep" => d.in >= wake

\* Some delayed Work is that of a stack that is alive.
Awaits == \E d \in delayed : ~Canceled(d)

\* Once all is over nothing moves but timers, and a whole slumber is spent only for those
\* whose stacks are alive.
Quiet ==
    /\ idle > 0 => Over /\ spent = {}
    /\ pc = "asleep" => idle + wake <= Slumber \/ Awaits
    /\ pc \in {"run", "decide"} /\ idle > 0 /\ tasks = <<>> => delayed = {} \/ Awaits

\* The inductive invariant.
IInv ==
    /\ TypeOK /\ IsFiniteSet(delayed)
    /\ Loop /\ Held /\ Once /\ Awaited /\ CancelsOnce /\ TimersSet
    /\ Counting /\ Ready /\ InTime /\ Quiet

-----------------------------------------------------------------------------
(***************************************************************************)
(* Facts about sequences and sets                                          *)
(***************************************************************************)

\* The positions that Number counts.
At(s, V) == {i \in DOMAIN s : s[i] \in V}

\* They are finitely many.
LEMMA AtFinite ==
    ASSUME NEW S, NEW s \in Seq(S), NEW V
    PROVE  /\ IsFiniteSet(At(s, V)) /\ Number(s, V) = Cardinality(At(s, V))
           /\ Number(s, V) \in Nat
<1>1. DOMAIN s = 1..Len(s) /\ Len(s) \in Nat
    BY LenProperties
<1>2. IsFiniteSet(1..Len(s)) /\ At(s, V) \in SUBSET (1..Len(s))
    BY <1>1, FS_Interval DEF At
<1>3. IsFiniteSet(At(s, V))
    BY <1>2, FS_Subset
<1>. QED BY <1>3, FS_CardinalityType DEF Number, At

\* What Number counts is there.
LEMMA NumberZero ==
    ASSUME NEW S, NEW s \in Seq(S), NEW V
    PROVE  Number(s, V) > 0 <=> \E e \in ToSet(s) : e \in V
<1>1. Number(s, V) \in Nat /\ (Number(s, V) = 0 <=> At(s, V) = {})
    BY AtFinite, FS_EmptySet
<1>2. At(s, V) # {} <=> \E e \in ToSet(s) : e \in V
    BY DEF At, ToSet
<1>. QED BY <1>1, <1>2

\* The empty sequence has no element.
LEMMA EmptyHasNone == ToSet(<<>>) = {} /\ \A V : Number(<<>>, V) = 0
BY FS_EmptySet DEF ToSet, Number

\* Append adds one element.
LEMMA AppendOne ==
    ASSUME NEW S, NEW s \in Seq(S), NEW e \in S
    PROVE  /\ Append(s, e) \in Seq(S) /\ Append(s, e) # <<>>
           /\ ToSet(Append(s, e)) = ToSet(s) \cup {e}
           /\ \A V : Number(Append(s, e), V) = Number(s, V) + (IF e \in V THEN 1 ELSE 0)
<1>. DEFINE t == Append(s, e)
            n == Len(s)
<1>1. /\ t \in Seq(S) /\ t # <<>> /\ Len(t) = n + 1 /\ n \in Nat
      /\ DOMAIN s = 1..n /\ DOMAIN t = 1..n + 1
      /\ t[n + 1] = e /\ \A i \in 1..n : t[i] = s[i]
    BY AppendProperties, LenProperties
<1>. HIDE DEF t, n
<1>2. ToSet(t) = ToSet(s) \cup {e}
    <2>1. \A y \in ToSet(t) : y \in ToSet(s) \cup {e}
        BY <1>1 DEF ToSet
    <2>2. \A y \in ToSet(s) \cup {e} : y \in ToSet(t)
        BY <1>1 DEF ToSet
    <2>. QED BY <2>1, <2>2
<1>3. ASSUME NEW V
      PROVE  Number(t, V) = Number(s, V) + (IF e \in V THEN 1 ELSE 0)
    <2>1. At(t, V) = IF e \in V THEN At(s, V) \cup {n + 1} ELSE At(s, V)
        BY <1>1 DEF At
    <2>2. n + 1 \notin At(s, V)
        BY <1>1 DEF At
    <2>3. IsFiniteSet(At(s, V)) /\ Number(s, V) = Cardinality(At(s, V))
            /\ Number(s, V) \in Nat
        BY AtFinite
    <2>4. Number(t, V) = Cardinality(At(t, V))
        BY <1>1, AtFinite
    <2>5. Cardinality(At(s, V) \cup {n + 1}) = Cardinality(At(s, V)) + 1
        BY <2>2, <2>3, FS_AddElement
    <2>. QED BY <2>1, <2>3, <2>4, <2>5
<1>. QED BY <1>1, <1>2, <1>3 DEF t

\* A set of numbers that is shifted has as many elements.
LEMMA ShiftSize ==
    ASSUME NEW S \in SUBSET Int, IsFiniteSet(S), NEW k \in Int
    PROVE  /\ IsFiniteSet({i + k : i \in S})
           /\ Cardinality({i + k : i \in S}) = Cardinality(S)
<1>. DEFINE T == {i + k : i \in S}
            f == [i \in S |-> i + k]
<1>1. f \in [S -> T]
    OBVIOUS
<1>2. \A i, j \in S : f[i] = f[j] => i = j
    OBVIOUS
<1>3. \A j \in T : \E i \in S : f[i] = j
    OBVIOUS
<1>4. f \in Bijection(S, T)
    BY <1>1, <1>2, <1>3 DEF Bijection, Injection, Surjection, IsInjective
<1>. QED BY <1>4, FS_Bijection DEF ExistsBijection

\* \o joins the elements.
LEMMA ConcatJoins ==
    ASSUME NEW S, NEW s \in Seq(S), NEW t \in Seq(S)
    PROVE  /\ s \o t \in Seq(S)
           /\ ToSet(s \o t) = ToSet(s) \cup ToSet(t)
           /\ \A V : Number(s \o t, V) = Number(s, V) + Number(t, V)
<1>. DEFINE u == s \o t
            m == Len(s)
            n == Len(t)
<1>1. /\ u \in Seq(S) /\ m \in Nat /\ n \in Nat
      /\ DOMAIN s = 1..m /\ DOMAIN t = 1..n /\ DOMAIN u = 1..(m + n)
      /\ \A i \in 1..(m + n) : u[i] = IF i <= m THEN s[i] ELSE t[i - m]
    BY ConcatProperties, LenProperties
<1>. HIDE DEF u, m, n
<1>2. /\ \A i \in 1..m : i \in 1..(m + n) /\ u[i] = s[i]
      /\ \A i \in 1..n : i + m \in 1..(m + n) /\ ~(i + m <= m) /\ i + m - m = i
    BY <1>1
<1>3. \A i \in 1..n : u[i + m] = t[i]
    BY <1>1, <1>2
<1>4. \A i \in 1..(m + n) : i \notin 1..m => i - m \in 1..n /\ (i - m) + m = i
    BY <1>1
<1>5. ToSet(u) = ToSet(s) \cup ToSet(t)
    <2>1. ASSUME NEW i \in 1..(m + n) PROVE u[i] \in ToSet(s) \cup ToSet(t)
        BY <1>1, <1>2, <1>3, <1>4 DEF ToSet
    <2>2. \A i \in 1..m : s[i] \in ToSet(u)
        BY <1>1, <1>2 DEF ToSet
    <2>3. ASSUME NEW i \in 1..n PROVE t[i] \in ToSet(u)
        <3>1. i + m \in DOMAIN u /\ u[i + m] = t[i]
            BY <1>1, <1>2, <1>3
        <3>. QED BY <3>1 DEF ToSet
    <2>4. ToSet(s) = {s[i] : i \in 1..m} /\ ToSet(t) = {t[i] : i \in 1..n}
          /\ ToSet(u) = {u[i] : i \in 1..(m + n)}
        BY <1>1 DEF ToSet
    <2>. HIDE DEF u
    <2>5. ToSet(u) \subseteq ToSet(s) \cup ToSet(t)
        BY <2>1, <2>4
    <2>6. ToSet(s) \subseteq ToSet(u) /\ ToSet(t) \subseteq ToSet(u)
        BY <2>2, <2>3, <2>4
    <2>. QED BY <2>5, <2>6
<1>6. ASSUME NEW V PROVE Number(u, V) = Number(s, V) + Number(t, V)
    <2>. DEFINE A == At(s, V)
                B == At(t, V)
                C == {i + m : i \in B}
    <2>1. /\ IsFiniteSet(A) /\ Number(s, V) = Cardinality(A) /\ Number(s, V) \in Nat
          /\ IsFiniteSet(B) /\ Number(t, V) = Cardinality(B) /\ Number(t, V) \in Nat
          /\ Number(u, V) = Cardinality(At(u, V))
        BY <1>1, AtFinite
    <2>2. A = {i \in 1..m : s[i] \in V} /\ B = {i \in 1..n : t[i] \in V}
        BY <1>1 DEF At
    <2>3. At(u, V) = {i \in 1..(m + n) : u[i] \in V}
        BY <1>1 DEF At
    <2>. HIDE DEF A, B
    <2>4. IsFiniteSet(C) /\ Cardinality(C) = Cardinality(B)
        <3>1. B \in SUBSET Int /\ m \in Int
            BY <1>1, <2>2
        <3>. QED BY <3>1, <2>1, ShiftSize
    <2>5. A \cap C = {}
        BY <1>1, <2>2
    <2>6. At(u, V) = A \cup C
        <3>1. \A i \in At(u, V) : i \in A \cup C
            <4>. SUFFICES ASSUME NEW i \in 1..(m + n), u[i] \in V PROVE i \in A \cup C
                BY <2>3
            <4>1. CASE i \in 1..m
                BY <4>1, <1>2, <2>2
            <4>2. CASE i \notin 1..m
                <5>1. i - m \in 1..n /\ (i - m) + m = i
                    BY <4>2, <1>4
                <5>2. u[i] = t[i - m]
                    BY <5>1, <1>3
                <5>3. i - m \in B
                    BY <5>1, <5>2, <2>2
                <5>. QED BY <5>1, <5>3
            <4>. QED BY <4>1, <4>2
        <3>2. \A i \in A : i \in At(u, V)
            BY <1>2, <2>2, <2>3
        <3>3. \A i \in B : i + m \in At(u, V)
            BY <1>2, <1>3, <2>2, <2>3
        <3>. QED BY <3>1, <3>2, <3>3
    <2>. HIDE DEF C
    <2>7. Cardinality(A \cup C) = Cardinality(A) + Cardinality(C)
        <3>1. Cardinality(A \cup C)
                = Cardinality(A) + Cardinality(C) - Cardinality(A \cap C)
            BY <2>1, <2>4, FS_Union
        <3>2. Cardinality(A \cap C) = 0
            BY <2>5, FS_EmptySet
        <3>. QED BY <3>1, <3>2, <2>1, <2>4
    <2>. QED BY <2>1, <2>4, <2>6, <2>7
<1>. QED BY <1>1, <1>5, <1>6 DEF u

\* Head and Tail take one element off.
LEMMA TailOne ==
    ASSUME NEW S, NEW s \in Seq(S), s # <<>>
    PROVE  /\ Head(s) \in S /\ Tail(s) \in Seq(S)
           /\ ToSet(s) = ToSet(Tail(s)) \cup {Head(s)}
           /\ \A V : Number(s, V) = Number(Tail(s), V) + (IF Head(s) \in V THEN 1 ELSE 0)
<1>. DEFINE h == Append(<<>>, Head(s))
<1>1. Head(s) \in S /\ Tail(s) \in Seq(S) /\ <<>> \in Seq(S)
    BY HeadTailProperties, EmptySeq
<1>2. /\ h \in Seq(S) /\ ToSet(h) = {Head(s)}
      /\ \A V : Number(h, V) = IF Head(s) \in V THEN 1 ELSE 0
    <2>1. /\ h \in Seq(S) /\ ToSet(h) = ToSet(<<>>) \cup {Head(s)}
          /\ \A V : Number(h, V) = Number(<<>>, V) + (IF Head(s) \in V THEN 1 ELSE 0)
        BY <1>1, AppendOne
    <2>. HIDE DEF h
    <2>. QED BY <2>1, EmptyHasNone
<1>3. s = h \o Tail(s)
    <2>1. /\ Len(h) = 1 /\ h[1] = Head(s) /\ Len(s) \in Nat \ {0} /\ Head(s) = s[1]
          /\ Len(Tail(s)) = Len(s) - 1 /\ \A i \in 1..(Len(s) - 1) : Tail(s)[i] = s[i + 1]
        BY <1>1, AppendProperties, EmptySeq, HeadTailProperties
    <2>2. /\ h \o Tail(s) \in Seq(S) /\ Len(h \o Tail(s)) = Len(h) + Len(Tail(s))
          /\ \A i \in 1..(Len(h) + Len(Tail(s))) :
                 (h \o Tail(s))[i] = IF i <= Len(h) THEN h[i] ELSE Tail(s)[i - Len(h)]
        BY <1>1, <1>2, ConcatProperties
    <2>. HIDE DEF h
    <2>3. Len(h \o Tail(s)) = Len(s)
        BY <2>1, <2>2
    <2>4. ASSUME NEW i \in 1..Len(s) PROVE s[i] = (h \o Tail(s))[i]
        <3>1. CASE i = 1
            BY <3>1, <2>1, <2>2
        <3>2. CASE i # 1
            <4>1. i - 1 \in 1..(Len(s) - 1) /\ ~(i <= 1) /\ (i - 1) + 1 = i
                BY <3>2, <2>1
            <4>2. Tail(s)[i - 1] = s[i]
                BY <4>1, <2>1
            <4>. QED BY <4>1, <4>2, <2>1, <2>2
        <3>. QED BY <3>1, <3>2
    <2>. QED BY <2>2, <2>3, <2>4, SeqEqual
<1>. HIDE DEF h
<1>4. /\ ToSet(h \o Tail(s)) = ToSet(h) \cup ToSet(Tail(s))
      /\ \A V : Number(h \o Tail(s), V) = Number(h, V) + Number(Tail(s), V)
    <2>. DEFINE t == Tail(s)
    <2>1. h \in Seq(S) /\ t \in Seq(S)
        BY <1>1, <1>2
    <2>. HIDE DEF t
    <2>2. /\ ToSet(h \o t) = ToSet(h) \cup ToSet(t)
          /\ \A V : Number(h \o t, V) = Number(h, V) + Number(t, V)
        BY <2>1, ConcatJoins
    <2>. QED BY <2>2 DEF t
<1>5. \A V : Number(Tail(s), V) \in Nat
    BY <1>1, AtFinite
<1>6. ToSet(s) = ToSet(Tail(s)) \cup {Head(s)}
    BY <1>2, <1>3, <1>4
<1>7. ASSUME NEW V
      PROVE  Number(s, V) = Number(Tail(s), V) + (IF Head(s) \in V THEN 1 ELSE 0)
    <2>1. Number(s, V) = Number(h, V) + Number(Tail(s), V)
        BY <1>3, <1>4
    <2>. QED BY <2>1, <1>2, <1>5
<1>. QED BY <1>1, <1>6, <1>7

\* Last and Front take one element off.
LEMMA FrontOne ==
    ASSUME NEW S, NEW s \in Seq(S), s # <<>>
    PROVE  /\ Last(s) \in S /\ Front(s) \in Seq(S)
           /\ ToSet(s) = ToSet(Front(s)) \cup {Last(s)}
           /\ \A V : Number(s, V) = Number(Front(s), V) + (IF Last(s) \in V THEN 1 ELSE 0)
<1>1. Len(s) \in Nat \ {0} /\ \A i \in 1..Len(s) : s[i] \in S
    BY EmptySeq, ElementOfSeq
<1>2. Last(s) = s[Len(s)] /\ Last(s) \in S
    BY <1>1 DEF Last
<1>3. /\ Front(s) \in Seq(S) /\ Len(Front(s)) = Len(s) - 1
      /\ \A i \in 1..(Len(s) - 1) : Front(s)[i] = s[i]
    <2>. DEFINE n == Len(s) - 1
    <2>1. n \in Int /\ n >= 0 /\ 1 \in Int /\ n - 1 + 1 = n
          /\ \A i \in 1..n : s[i] \in S /\ 1 + i - 1 = i
        BY <1>1
    <2>. HIDE DEF n
    <2>2. /\ SubSeq(s, 1, n) \in Seq(S)
          /\ Len(SubSeq(s, 1, n)) = IF 1 <= n THEN n - 1 + 1 ELSE 0
          /\ \A i \in 1..(n - 1 + 1) : SubSeq(s, 1, n)[i] = s[1 + i - 1]
        BY <2>1, SubSeqProperties
    <2>3. Len(SubSeq(s, 1, n)) = n
        BY <2>1, <2>2
    <2>. QED BY <2>1, <2>2, <2>3 DEF n, Front
<1>. DEFINE t == Append(Front(s), Last(s))
<1>4. s = t
    <2>1. /\ t \in Seq(S) /\ Len(t) = Len(Front(s)) + 1 /\ t[Len(Front(s)) + 1] = Last(s)
          /\ \A i \in 1..Len(Front(s)) : t[i] = Front(s)[i]
        BY <1>2, <1>3, AppendProperties
    <2>. HIDE DEF t
    <2>2. Len(s) = Len(t)
        BY <2>1, <1>1, <1>3
    <2>3. ASSUME NEW i \in 1..Len(s) PROVE s[i] = t[i]
        <3>1. CASE i = Len(s)
            BY <3>1, <2>1, <1>1, <1>2, <1>3
        <3>2. CASE i # Len(s)
            <4>1. i \in 1..(Len(s) - 1)
                BY <3>2, <1>1
            <4>. QED BY <4>1, <2>1, <1>3
        <3>. QED BY <3>1, <3>2
    <2>. QED BY <2>1, <2>2, <2>3, SeqEqual
<1>5. /\ ToSet(t) = ToSet(Front(s)) \cup {Last(s)}
      /\ \A V : Number(t, V) = Number(Front(s), V) + (IF Last(s) \in V THEN 1 ELSE 0)
    BY <1>2, <1>3, AppendOne
<1>. HIDE DEF t
<1>. QED BY <1>2, <1>3, <1>4, <1>5

\* Whether x is in a set, as a number.
LEMMA OneOf ==
    ASSUME NEW S, NEW x
    PROVE  Cardinality(S \cap {x}) = IF x \in S THEN 1 ELSE 0
<1>1. S \cap {x} = IF x \in S THEN {x} ELSE {}
    OBVIOUS
<1>. QED BY <1>1, FS_Singleton, FS_EmptySet

\* A set of natural numbers has a least element.
LEMMA LeastNatural ==
    ASSUME NEW T, T \subseteq Nat, T # {}
    PROVE  \E x \in T : \A y \in T : x <= y
<1>. DEFINE R == {p \in Nat \X Nat : p[1] < p[2]}
<1>1. IsWellFoundedOn(R, Nat)
    BY NatLessThanWellFounded DEF OpToRel
<1>2. PICK x \in T : \A y \in T : ~ (<<y, x>> \in R)
    BY <1>1, WFMin
<1>3. ASSUME NEW y \in T PROVE x <= y
    <2>1. <<y, x>> \in Nat \X Nat /\ x \in Nat /\ y \in Nat
        OBVIOUS
    <2>2. y < x => <<y, x>> \in R
        BY <2>1
    <2>. QED BY <2>1, <2>2, <1>2
<1>. QED BY <1>3
-----------------------------------------------------------------------------
(***************************************************************************)
(* Facts about a state                                                     *)
(***************************************************************************)

\* The kinds of Work that resume a stack.
Back == {"weak", "strong"}

\* The terms of Ways, and what it means that they are zero.
Places(x) ==
    /\ Ways(x) = Number(run, {x}) + Queued(x, Back) + Cardinality(Sleeps(x))
                 + Cardinality(blocked \cap {x}) + Cardinality(away \cap {x})
                 + Cardinality(Timeouts(x))
    /\ Number(run, {x}) \in Nat /\ (Number(run, {x}) > 0 <=> x \in ToSet(run))
    /\ Queued(x, Back) \in Nat
    /\ Queued(x, Back) > 0 <=> \E w \in Works : w.who = x /\ w.what \in Back
    /\ Cardinality(Sleeps(x)) \in Nat /\ (Cardinality(Sleeps(x)) = 0 <=> Sleeps(x) = {})
    /\ IsFiniteSet(Sleeps(x))
    /\ Cardinality(blocked \cap {x}) = IF x \in blocked THEN 1 ELSE 0
    /\ Cardinality(away \cap {x}) = IF x \in away THEN 1 ELSE 0
    /\ Cardinality(Timeouts(x)) \in Nat
         /\ (Cardinality(Timeouts(x)) = 0 <=> Timeouts(x) = {})
    /\ IsFiniteSet(Timeouts(x))

\* The Works about x of a kind in k.
Of(x, k) == [who : {x}, what : k]

\* A Work is what Queued counts, or not.
LEMMA CountedInTwo ==
    ASSUME NEW s \in Seq(Work), NEW t \in Seq(Work), NEW x, NEW k
    PROVE  /\ Number(s, Of(x, k)) + Number(t, Of(x, k)) \in Nat
           /\ Number(s, Of(x, k)) + Number(t, Of(x, k)) > 0
              <=> \E w \in ToSet(s) \cup ToSet(t) : w.who = x /\ w.what \in k
<1>. DEFINE V == Of(x, k)
<1>1. /\ Number(s, V) \in Nat /\ Number(t, V) \in Nat
      /\ Number(s, V) > 0 <=> \E w \in ToSet(s) : w \in V
      /\ Number(t, V) > 0 <=> \E w \in ToSet(t) : w \in V
    BY AtFinite, NumberZero
<1>2. \A w \in ToSet(s) \cup ToSet(t) : w \in Work
    BY LenProperties, ElementOfSeq DEF ToSet
<1>3. \A w \in Work : w \in V <=> w.who = x /\ w.what \in k
    BY DEF Work, Of
<1>. HIDE DEF V
<1>4. (\E w \in ToSet(s) \cup ToSet(t) : w.who = x /\ w.what \in k)
      <=> \E w \in ToSet(s) \cup ToSet(t) : w \in V
    BY <1>2, <1>3
<1>5. Number(s, V) + Number(t, V) \in Nat
    BY <1>1
<1>6. Number(s, V) + Number(t, V) > 0 <=> Number(s, V) > 0 \/ Number(t, V) > 0
    BY <1>1
<1>7. Number(s, V) + Number(t, V) > 0
      <=> \E w \in ToSet(s) \cup ToSet(t) : w.who = x /\ w.what \in k
    BY <1>1, <1>4, <1>6
<1>. QED BY <1>5, <1>7 DEF V

\* Queued is positive exactly when there is such a Work.
LEMMA QueuedFacts ==
    ASSUME tasks \in Seq(Work), batch \in Seq(Work), NEW x, NEW k
    PROVE  /\ Queued(x, k) \in Nat
           /\ Queued(x, k) > 0 <=> \E w \in Works : w.who = x /\ w.what \in k
<1>. DEFINE n == Number(tasks, Of(x, k)) + Number(batch, Of(x, k))
<1>1. n \in Nat
        /\ (n > 0 <=> \E w \in ToSet(tasks) \cup ToSet(batch) : w.who = x /\ w.what \in k)
    BY CountedInTwo
<1>2. Queued(x, k) = n /\ Works = ToSet(tasks) \cup ToSet(batch)
    BY DEF Queued, Works, Of
<1>. HIDE DEF n
<1>. QED BY <1>1, <1>2

\* The same after a step.
LEMMA QueuedNext ==
    ASSUME tasks' \in Seq(Work), batch' \in Seq(Work), NEW x, NEW k
    PROVE  /\ Queued(x, k)' \in Nat
           /\ Queued(x, k)' > 0 <=> \E w \in Works' : w.who = x /\ w.what \in k
<1>. DEFINE n == Number(tasks', Of(x, k)) + Number(batch', Of(x, k))
<1>1. n \in Nat
        /\ (n > 0 <=> \E w \in ToSet(tasks') \cup ToSet(batch') : w.who = x /\ w.what \in k)
    BY CountedInTwo
<1>2. Queued(x, k)' = n /\ Works' = ToSet(tasks') \cup ToSet(batch')
    BY DEF Queued, Works, Of
<1>. HIDE DEF n
<1>. QED BY <1>1, <1>2

\* The terms of Ways are what Places says.
LEMMA PlacesHold ==
    ASSUME TypeOK, IsFiniteSet(delayed), NEW x \in Coroutines
    PROVE  Places(x)
<1>1. /\ Ways(x) = Number(run, {x}) + Queued(x, Back) + Cardinality(Sleeps(x))
                   + Cardinality(blocked \cap {x}) + Cardinality(away \cap {x})
                   + Cardinality(Timeouts(x))
    BY DEF Ways, Back
<1>2. Number(run, {x}) \in Nat /\ (Number(run, {x}) > 0 <=> x \in ToSet(run))
    <2>1. run \in Seq(Coroutines)
        BY DEF TypeOK
    <2>2. Number(run, {x}) > 0 <=> \E e \in ToSet(run) : e \in {x}
        BY <2>1, NumberZero
    <2>. QED BY <2>1, <2>2, AtFinite
<1>3. /\ Queued(x, Back) \in Nat
      /\ Queued(x, Back) > 0 <=> \E w \in Works : w.who = x /\ w.what \in Back
    BY QueuedFacts DEF TypeOK, Back
<1>4. /\ IsFiniteSet(Sleeps(x)) /\ Cardinality(Sleeps(x)) \in Nat
      /\ Cardinality(Sleeps(x)) = 0 <=> Sleeps(x) = {}
    BY FS_Subset, FS_CardinalityType, FS_EmptySet DEF Sleeps
<1>5. /\ IsFiniteSet(Timeouts(x)) /\ Cardinality(Timeouts(x)) \in Nat
      /\ Cardinality(Timeouts(x)) = 0 <=> Timeouts(x) = {}
    <2>1. IsFiniteSet(Children) /\ Timeouts(x) \in SUBSET Children
        BY ThisThreadAssumption DEF Timeouts
    <2>. QED BY <2>1, FS_Subset, FS_CardinalityType, FS_EmptySet
<1>. QED BY <1>1, <1>2, <1>3, <1>4, <1>5, OneOf DEF Places

\* Who is held.
LEMMA OwnedIs ==
    \A x : x \in Owned <=> \/ x = Root \/ x \in guarded \/ x \in spent \/ x \in abroad
                           \/ x \in ToSet(run) \/ (x \in Children /\ handle[x] # {})
                           \/ \E w \in Works : w.who = x /\ w.what = "strong"
BY DEF Owned, Works

\* The same after a step.
LEMMA OwnedNext ==
    \A x : x \in Owned' <=> \/ x = Root \/ x \in guarded' \/ x \in spent' \/ x \in abroad'
                            \/ x \in ToSet(run') \/ (x \in Children /\ handle'[x] # {})
                            \/ \E w \in Works' : w.who = x /\ w.what = "strong"
BY DEF Owned, Works

\* Those who are held are coroutines.
LEMMA OwnedCoroutines == TypeOK => Owned \subseteq Coroutines /\ Works \subseteq Work
<1>. SUFFICES ASSUME TypeOK PROVE Owned \subseteq Coroutines /\ Works \subseteq Work
    OBVIOUS
<1>1. Works \subseteq Work /\ ToSet(run) \subseteq Coroutines
    BY LenProperties, ElementOfSeq DEF TypeOK, Works, ToSet
<1>2. \A w \in Work : w.who \in Coroutines
    BY DEF Work
<1>. QED BY <1>1, <1>2, OwnedIs DEF TypeOK, Coroutines

\* Who is held is alive, and who is alive without being held has ended.
LEMMA AliveIs ==
    ASSUME TypeOK, Held, NEW x \in Coroutines
    PROVE  /\ x \in Owned => Alive(x)
           /\ Alive(x) => x \in Owned \/ stage[x] = "finished"
           /\ Alive(x) => stage[x] \in {"live", "finished"}
<1>1. x \in Owned => Alive(x)
    BY DEF Alive
<1>. DEFINE S == Owned \cup {y \in Coroutines : stage[y] = "finished"}
<1>2. S \in SUBSET Coroutines /\ Owned \subseteq S
    BY OwnedCoroutines
<1>3. \A y \in S : kept[y] \subseteq S
    <2>1. \A y \in Coroutines : kept[y] \subseteq Coroutines
        BY DEF TypeOK, Coroutines
    <2>. QED BY <2>1, <1>2 DEF Held
<1>4. Alive(x) => x \in S
    BY <1>2, <1>3 DEF Alive
<1>. QED BY <1>1, <1>4 DEF Held

\* It depends on who is held, and on what is kept.
LEMMA AliveSame ==
    ASSUME Owned' = Owned, kept' = kept
    PROVE  /\ \A x : Alive(x)' <=> Alive(x)
           /\ \A d : Canceled(d)' <=> Canceled(d)
BY DEF Alive, Canceled

\* Who is alive, and goes on in some way, has not ended and goes on in no other way.
LEMMA GoingOn ==
    ASSUME IInv, NEW x \in Coroutines, Alive(x) \/ x \in Owned, Ways(x) > 0
    PROVE  stage[x] = "live" /\ Ways(x) = 1 /\ x \in Owned
<1>1. TypeOK /\ Held /\ Once
    BY DEF IInv
<1>2. stage[x] \in {"live", "finished"} /\ (stage[x] = "live" => x \in Owned)
    BY <1>1, AliveIs DEF Held
<1>. QED BY <1>1, <1>2 DEF Once, Lost

\* Who runs does nothing else.
LEMMA Running ==
    ASSUME IInv, NEW x \in ToSet(run)
    PROVE  /\ x \in Coroutines /\ x \in Owned /\ stage[x] = "live"
           /\ Ways(x) = 1 /\ Number(run, {x}) = 1 /\ Queued(x, Back) = 0 /\ Sleeps(x) = {}
           /\ x \notin blocked /\ x \notin away /\ Timeouts(x) = {} /\ x \notin counted
           /\ pc \in {"start", "run"} /\ idle = 0
<1>0. TypeOK /\ IsFiniteSet(delayed) /\ Counting /\ Loop /\ Quiet
    BY DEF IInv
<1>1. x \in Owned /\ x \in Coroutines
    BY <1>0, OwnedIs, OwnedCoroutines
<1>2. Places(x)
    BY <1>0, <1>1, PlacesHold
<1>3. Ways(x) > 0
    BY <1>2 DEF Places
<1>4. stage[x] = "live" /\ Ways(x) = 1
    BY <1>1, <1>3, GoingOn
<1>5. Number(run, {x}) = 1 /\ Queued(x, Back) = 0 /\ Cardinality(Sleeps(x)) = 0
      /\ x \notin blocked /\ x \notin away /\ Cardinality(Timeouts(x)) = 0
    BY <1>2, <1>4 DEF Places
<1>6. Sleeps(x) = {} /\ Timeouts(x) = {}
    BY <1>2, <1>5 DEF Places
<1>7. x \notin counted
    BY <1>0 DEF Counting
<1>8. pc \in {"start", "run"}
    BY <1>0, EmptyHasNone DEF Loop
<1>9. idle = 0
    BY <1>0, <1>1, <1>4 DEF Quiet, Over, TypeOK
<1>. QED BY <1>1, <1>4, <1>5, <1>6, <1>7, <1>8, <1>9

\* The innermost coroutine, and the others.
LEMMA Innermost ==
    ASSUME IInv, NEW x \in Coroutines, Runs(x) \/ Current(x)
    PROVE  /\ Dying = {} /\ x \in Owned /\ stage[x] = "live" /\ Ways(x) = 1
           /\ Queued(x, Back) = 0 /\ Sleeps(x) = {} /\ x \notin blocked /\ x \notin away
           /\ Timeouts(x) = {} /\ x \notin counted
           /\ pc \in {"start", "run"} /\ idle = 0
           /\ run \in Seq(Coroutines) /\ x \in ToSet(run) /\ Popped \in Seq(Coroutines)
           /\ ToSet(Popped) = ToSet(run) \ {x}
           /\ \A y \in Coroutines :
                  Number(Popped, {y}) = Number(run, {y}) - (IF y = x THEN 1 ELSE 0)
<1>1. run \in Seq(Coroutines) /\ run # <<>> /\ x = Last(run) /\ Dying = {}
    BY DEF IInv, TypeOK, Runs, Current
<1>2. /\ Popped \in Seq(Coroutines)
      /\ ToSet(run) = ToSet(Popped) \cup {x}
      /\ \A V : Number(run, V) = Number(Popped, V) + (IF x \in V THEN 1 ELSE 0)
    BY <1>1, FrontOne DEF Popped
<1>3. \A V : Number(Popped, V) \in Nat
    BY <1>2, AtFinite
<1>4. ASSUME NEW y \in Coroutines
      PROVE  Number(Popped, {y}) = Number(run, {y}) - (IF y = x THEN 1 ELSE 0)
    <2>1. x \in {y} <=> y = x
        OBVIOUS
    <2>. QED BY <2>1, <1>2, <1>3
<1>5. x \in ToSet(run)
    BY <1>2
<1>6. /\ x \in Owned /\ stage[x] = "live" /\ Ways(x) = 1 /\ Number(run, {x}) = 1
      /\ Queued(x, Back) = 0 /\ Sleeps(x) = {} /\ x \notin blocked /\ x \notin away
      /\ Timeouts(x) = {} /\ x \notin counted /\ pc \in {"start", "run"} /\ idle = 0
    BY <1>5, Running
<1>7. Number(Popped, {x}) = 0
    BY <1>4, <1>6
<1>8. x \notin ToSet(Popped)
    BY <1>2, <1>7, NumberZero
<1>. QED BY <1>1, <1>2, <1>4, <1>5, <1>6, <1>8

\* The sets of coroutines are finite.
LEMMA CoroutinesFinite ==
    /\ IsFiniteSet(Coroutines)
    /\ \A S \in SUBSET Coroutines : IsFiniteSet(S) /\ Cardinality(S) \in Nat
<1>1. IsFiniteSet(Coroutines)
    BY ThisThreadAssumption, FS_Singleton, FS_Union DEF Coroutines
<1>. QED BY <1>1, FS_Subset, FS_CardinalityType

-----------------------------------------------------------------------------
(***************************************************************************)
(* What a step does to the terms of Ways                                   *)
(***************************************************************************)

\* The kinds of Work.
Whats == {"weak", "strong", "timer", "cancel"}

\* 1 when the Work w is about x and of a kind in k.
Is(w, x, k) == IF w.who = x /\ w.what \in k THEN 1 ELSE 0

\* A Work among those that Queued counts.
LEMMA Counted ==
    ASSUME NEW w \in Work, NEW x, NEW k
    PROVE  w \in [who : {x}, what : k] <=> w.who = x /\ w.what \in k
BY DEF Work

\* A Work is pushed.
LEMMA PushWork ==
    ASSUME TypeOK, NEW w \in Work, tasks' = Append(tasks, w), batch' = batch
    PROVE  /\ tasks' \in Seq(Work) /\ tasks' # <<>> /\ ToSet(tasks') = ToSet(tasks) \cup {w}
           /\ Works' = Works \cup {w}
           /\ \A x \in Coroutines : \A k \in SUBSET Whats :
                  Queued(x, k)' = Queued(x, k) + Is(w, x, k)
<1>1. /\ tasks' \in Seq(Work) /\ tasks' # <<>> /\ ToSet(tasks') = ToSet(tasks) \cup {w}
      /\ \A V : Number(tasks', V) = Number(tasks, V) + (IF w \in V THEN 1 ELSE 0)
    BY AppendOne DEF TypeOK
<1>2. \A V : Number(tasks, V) \in Nat /\ Number(batch, V) \in Nat
    BY AtFinite DEF TypeOK
<1>3. ASSUME NEW x \in Coroutines, NEW k \in SUBSET Whats
      PROVE  Queued(x, k)' = Queued(x, k) + Is(w, x, k)
    <2>. DEFINE V == [who : {x}, what : k]
    <2>1. /\ Queued(x, k) = Number(tasks, V) + Number(batch, V)
          /\ Queued(x, k)' = Number(tasks', V) + Number(batch, V)
        BY DEF Queued
    <2>2. w \in V <=> w.who = x /\ w.what \in k
        BY Counted
    <2>. HIDE DEF V
    <2>. QED BY <1>1, <1>2, <2>1, <2>2 DEF Is
<1>4. Works' = Works \cup {w}
    BY <1>1 DEF Works
<1>. QED BY <1>1, <1>3, <1>4

\* A Work that brings x back is pushed.
LEMMA PushBack ==
    ASSUME TypeOK, NEW x \in Coroutines, NEW what \in Back,
           tasks' = Append(tasks, W(x, what)),
           batch' = batch
    PROVE  /\ tasks' \in Seq(Work) /\ tasks' # <<>> /\ Works' = Works \cup {W(x, what)}
           /\ ToSet(tasks') = ToSet(tasks) \cup {W(x, what)}
           /\ \A y \in Coroutines : Queued(y, Back)'
                = Queued(y, Back) + (IF y = x THEN 1 ELSE 0)
           /\ \A c \in Children : Queued(c, {"cancel"})' = Queued(c, {"cancel"})
<1>1. W(x, what) \in Work /\ Back \in SUBSET Whats /\ {"cancel"} \in SUBSET Whats
      /\ what \notin {"cancel"}
    BY DEF W, Work, Back, Whats
<1>2. \A y \in Coroutines : \A k \in SUBSET Whats :
          Queued(y, k)' = Queued(y, k) + Is(W(x, what), y, k)
    BY <1>1, PushWork
<1>3. \A y : /\ Is(W(x, what), y, Back) = IF y = x THEN 1 ELSE 0
             /\ Is(W(x, what), y, {"cancel"}) = 0
    BY <1>1 DEF Is, W
<1>4. \A y \in Coroutines : \A k \in SUBSET Whats : Queued(y, k) \in Nat
    BY QueuedFacts DEF TypeOK, Whats
<1>5. \A c \in Children : Queued(c, {"cancel"})' = Queued(c, {"cancel"})
    <2>1. \A c \in Children : c \in Coroutines
        BY DEF Coroutines
    <2>. QED BY <2>1, <1>1, <1>2, <1>3, <1>4
<1>6. \A y \in Coroutines : Queued(y, Back)' = Queued(y, Back) + (IF y = x THEN 1 ELSE 0)
    BY <1>1, <1>2, <1>3
<1>. QED BY <1>1, <1>5, <1>6, PushWork

\* A Work is taken from the batch.
LEMMA PopWork ==
    ASSUME TypeOK, batch # <<>>, batch' = Tail(batch), tasks' = tasks
    PROVE  /\ Head(batch) \in Work /\ batch' \in Seq(Work)
           /\ ToSet(batch) = ToSet(batch') \cup {Head(batch)}
           /\ Works = Works' \cup {Head(batch)}
           /\ \A x \in Coroutines : \A k \in SUBSET Whats :
                  Queued(x, k)' = Queued(x, k) - Is(Head(batch), x, k)
<1>1. /\ Head(batch) \in Work /\ batch' \in Seq(Work)
      /\ ToSet(batch) = ToSet(batch') \cup {Head(batch)}
      /\ \A V : Number(batch, V) = Number(batch', V) + (IF Head(batch) \in V THEN 1 ELSE 0)
    BY TailOne DEF TypeOK
<1>2. \A V : Number(tasks, V) \in Nat /\ Number(batch', V) \in Nat
    BY <1>1, AtFinite DEF TypeOK
<1>3. ASSUME NEW x \in Coroutines, NEW k \in SUBSET Whats
      PROVE  Queued(x, k)' = Queued(x, k) - Is(Head(batch), x, k)
    <2>. DEFINE V == [who : {x}, what : k]
    <2>1. /\ Queued(x, k) = Number(tasks, V) + Number(batch, V)
          /\ Queued(x, k)' = Number(tasks, V) + Number(batch', V)
        BY DEF Queued
    <2>2. Head(batch) \in V <=> Head(batch).who = x /\ Head(batch).what \in k
        BY <1>1, Counted
    <2>. HIDE DEF V
    <2>. QED BY <1>1, <1>2, <2>1, <2>2 DEF Is
<1>4. Works = Works' \cup {Head(batch)}
    BY <1>1 DEF Works
<1>. QED BY <1>1, <1>3, <1>4

\* A Work is taken from the batch and another is pushed.
LEMMA MoveWork ==
    ASSUME TypeOK, batch # <<>>, batch' = Tail(batch),
           NEW w \in Work, tasks' = Append(tasks, w)
    PROVE  /\ Head(batch) \in Work /\ batch' \in Seq(Work) /\ tasks' \in Seq(Work)
           /\ tasks' # <<>>
           /\ ToSet(batch) = ToSet(batch') \cup {Head(batch)}
           /\ Works \cup {w} = Works' \cup {Head(batch)} /\ w \in Works'
           /\ \A x \in Coroutines : \A k \in SUBSET Whats :
                  Queued(x, k)' = Queued(x, k) - Is(Head(batch), x, k) + Is(w, x, k)
<1>1. /\ Head(batch) \in Work /\ batch' \in Seq(Work)
      /\ ToSet(batch) = ToSet(batch') \cup {Head(batch)}
      /\ \A V : Number(batch, V) = Number(batch', V) + (IF Head(batch) \in V THEN 1 ELSE 0)
    BY TailOne DEF TypeOK
<1>2. /\ tasks' \in Seq(Work) /\ tasks' # <<>> /\ ToSet(tasks') = ToSet(tasks) \cup {w}
      /\ \A V : Number(tasks', V) = Number(tasks, V) + (IF w \in V THEN 1 ELSE 0)
    BY AppendOne DEF TypeOK
<1>3. \A V : Number(tasks, V) \in Nat /\ Number(batch', V) \in Nat
    BY <1>1, AtFinite DEF TypeOK
<1>4. ASSUME NEW x \in Coroutines, NEW k \in SUBSET Whats
      PROVE  Queued(x, k)' = Queued(x, k) - Is(Head(batch), x, k) + Is(w, x, k)
    <2>. DEFINE V == [who : {x}, what : k]
    <2>1. /\ Queued(x, k) = Number(tasks, V) + Number(batch, V)
          /\ Queued(x, k)' = Number(tasks', V) + Number(batch', V)
        BY DEF Queued
    <2>2. /\ Head(batch) \in V <=> Head(batch).who = x /\ Head(batch).what \in k
          /\ w \in V <=> w.who = x /\ w.what \in k
        BY <1>1, Counted
    <2>. HIDE DEF V
    <2>. QED BY <1>1, <1>2, <1>3, <2>1, <2>2 DEF Is
<1>5. Works \cup {w} = Works' \cup {Head(batch)} /\ w \in Works'
    BY <1>1, <1>2 DEF Works
<1>. QED BY <1>1, <1>2, <1>4, <1>5

\* The queues stay as they are.
LEMMA SameWork ==
    ASSUME tasks' = tasks, batch' = batch
    PROVE  /\ Works' = Works /\ ToSet(batch)' = ToSet(batch)
           /\ \A x, k : Queued(x, k)' = Queued(x, k)
BY DEF Works, Queued

\* So does what is delayed.
LEMMA SameSleeps ==
    ASSUME delayed' = delayed
    PROVE  \A x : Sleeps(x)' = Sleeps(x)
BY DEF Sleeps

\* So do the Timeouts, if no guard is removed, unless the timer does, and no stack is made.
LEMMA SameTimeouts ==
    ASSUME awaiter' = awaiter, guarded' = guarded,
           \A c \in Children : Queued(c, {"cancel"})' = Queued(c, {"cancel"})
    PROVE  \A x : Timeouts(x)' = Timeouts(x)
BY DEF Timeouts

\* Ways after a step, as the sum of its terms.
LEMMA WaysNext ==
    \A x : Ways(x)' = Number(run', {x}) + Queued(x, Back)' + Cardinality(Sleeps(x)')
                      + Cardinality(blocked' \cap {x}) + Cardinality(away' \cap {x})
                      + Cardinality(Timeouts(x)')
BY DEF Ways, Back

\* Nobody goes on in more or fewer ways, nor ends, and who is lost remains counted.
LEMMA OnceSame ==
    ASSUME Once, stage' = stage, \A y \in Coroutines : Ways(y)' = Ways(y),
           \A y \in Coroutines : y \in counted /\ Ways(y) = 0 => y \in counted'
    PROVE  Once'
BY DEF Once, Lost

-----------------------------------------------------------------------------
(***************************************************************************)
(* The steps of a coroutine keep IInv                                      *)
(***************************************************************************)

\* co_await Yield{} makes a Work that brings x back.
LEMMA YieldKeeps ==
    ASSUME IInv, NEW x \in Coroutines, Yield(x)
    PROVE  IInv'
<1>0. /\ TypeOK /\ IsFiniteSet(delayed)
      /\ Loop /\ Held /\ Once /\ Awaited /\ CancelsOnce /\ TimersSet
      /\ Counting /\ Ready /\ InTime /\ Quiet
    BY DEF IInv
<1>step.
      /\ Runs(x) /\ left > 0 /\ run' = Popped /\ tasks' = Append(tasks, W(x, "weak"))
      /\ left' = left - 1 /\ pc' = pc /\ batch' = batch /\ spent' = spent
      /\ delayed' = delayed /\ wake' = wake /\ stage' = stage /\ awaiter' = awaiter
      /\ guarded' = guarded /\ kept' = kept
      /\ handle' = handle /\ blocked' = blocked /\ away' = away
      /\ abroad' = abroad /\ counted' = counted /\ externalWork' = externalWork
      /\ idle' = idle
    BY DEF Yield, Suspends, stacks, outer
<1>x. /\ Dying = {} /\ x \in Owned /\ stage[x] = "live" /\ Ways(x) = 1
      /\ Queued(x, Back) = 0 /\ Sleeps(x) = {} /\ x \notin blocked /\ x \notin away
      /\ Timeouts(x) = {} /\ x \notin counted
      /\ pc \in {"start", "run"} /\ idle = 0
      /\ run \in Seq(Coroutines) /\ x \in ToSet(run) /\ Popped \in Seq(Coroutines)
      /\ ToSet(Popped) = ToSet(run) \ {x}
      /\ \A y \in Coroutines :
             Number(Popped, {y}) = Number(run, {y}) - (IF y = x THEN 1 ELSE 0)
    BY <1>step, Innermost
<1>work.
      /\ tasks' \in Seq(Work) /\ Works' = Works \cup {W(x, "weak")}
      /\ \A y \in Coroutines : Queued(y, Back)' = Queued(y, Back) + (IF y = x THEN 1 ELSE 0)
      /\ \A c \in Children : Queued(c, {"cancel"})' = Queued(c, {"cancel"})
    BY <1>0, <1>step, PushBack DEF Back
<1>same.
      /\ \A y : Sleeps(y)' = Sleeps(y)
      /\ \A y : Timeouts(y)' = Timeouts(y)
    BY <1>step, <1>work, SameSleeps, SameTimeouts
<1>ways. ASSUME NEW y \in Coroutines PROVE Ways(y)' = Ways(y)
    <2>1. Places(y)
        BY <1>0, PlacesHold
    <2>2. Ways(y)' = Number(run', {y}) + Queued(y, Back)' + Cardinality(Sleeps(y)')
                      + Cardinality(blocked' \cap {y}) + Cardinality(away' \cap {y})
                      + Cardinality(Timeouts(y)')
        BY WaysNext
    <2>3. /\ Number(run', {y}) = Number(run, {y}) - (IF y = x THEN 1 ELSE 0)
          /\ Queued(y, Back)' = Queued(y, Back) + (IF y = x THEN 1 ELSE 0)
          /\ Sleeps(y)' = Sleeps(y) /\ Timeouts(y)' = Timeouts(y)
          /\ blocked' = blocked /\ away' = away
        BY <1>step, <1>x, <1>work, <1>same
    <2>. QED BY <2>1, <2>2, <2>3 DEF Places
<1>owned. Owned' \subseteq Owned
    BY <1>step, <1>x, <1>work, OwnedIs, OwnedNext DEF W
<1>1. TypeOK' /\ IsFiniteSet(delayed)'
    BY <1>0, <1>step, <1>x, <1>work DEF TypeOK
<1>2. Loop'
    BY <1>0, <1>x, <1>step DEF Loop
<1>3. Held'
    BY <1>0, <1>owned, <1>step DEF Held
<1>4. Once'
    BY <1>0, <1>ways, <1>step, OnceSame
<1>5. Awaited'
    BY <1>0, <1>work, <1>step DEF Awaited, W
<1>6. CancelsOnce' /\ TimersSet'
    BY <1>0, <1>work, <1>step DEF CancelsOnce, TimersSet
<1>7. Counting'
    BY <1>0, <1>x, <1>work, <1>same, <1>step DEF Counting, W
<1>8. Ready' /\ InTime' /\ Quiet'
    BY <1>0, <1>x, <1>step DEF Ready, InTime, Quiet
<1>. QED BY <1>1, <1>2, <1>3, <1>4, <1>5, <1>6, <1>7, <1>8 DEF IInv

\* co_await Sleep{d} makes a delayed Work.
LEMMA SleepKeeps ==
    ASSUME IInv, NEW x \in Coroutines, NEW d \in Durations, Sleep(x, d)
    PROVE  IInv'
<1>0. /\ TypeOK /\ IsFiniteSet(delayed)
      /\ Loop /\ Held /\ Once /\ Awaited /\ CancelsOnce /\ TimersSet
      /\ Counting /\ Ready /\ InTime /\ Quiet
    BY DEF IInv
<1>step.
      /\ Runs(x) /\ left > 0 /\ run' = Popped
      /\ delayed' = delayed \cup {[who |-> x, what |-> "weak", in |-> d]}
      /\ left' = left - 1 /\ pc' = pc /\ tasks' = tasks /\ batch' = batch
      /\ spent' = spent /\ wake' = wake /\ stage' = stage /\ awaiter' = awaiter
      /\ guarded' = guarded /\ kept' = kept
      /\ handle' = handle /\ blocked' = blocked /\ away' = away
      /\ abroad' = abroad /\ counted' = counted /\ externalWork' = externalWork
      /\ idle' = idle
    BY DEF Sleep, Suspends, stacks, outer
<1>x. /\ Dying = {} /\ x \in Owned /\ stage[x] = "live" /\ Ways(x) = 1
      /\ Queued(x, Back) = 0 /\ Sleeps(x) = {} /\ x \notin blocked /\ x \notin away
      /\ Timeouts(x) = {} /\ x \notin counted
      /\ pc \in {"start", "run"} /\ idle = 0
      /\ run \in Seq(Coroutines) /\ x \in ToSet(run) /\ Popped \in Seq(Coroutines)
      /\ ToSet(Popped) = ToSet(run) \ {x}
      /\ \A y \in Coroutines :
             Number(Popped, {y}) = Number(run, {y}) - (IF y = x THEN 1 ELSE 0)
    BY <1>step, Innermost
<1>work. Works' = Works /\ \A y, k : Queued(y, k)' = Queued(y, k)
    BY <1>step, SameWork
<1>timeouts. \A y : Timeouts(y)' = Timeouts(y)
    BY <1>step, <1>work, SameTimeouts
<1>d. d \in Nat /\ d > 0 /\ [who |-> x, what |-> "weak", in |-> d] \in Delayed
    BY ThisThreadAssumption DEF Delayed
<1>sleeps.
      /\ Cardinality(Sleeps(x)') = Cardinality(Sleeps(x)) + 1
      /\ \A y : y # x => Sleeps(y)' = Sleeps(y)
    <2>1. Sleeps(x)' = {[who |-> x, what |-> "weak", in |-> d]}
        BY <1>step, <1>x DEF Sleeps
    <2>2. \A y : y # x => Sleeps(y)' = Sleeps(y)
        BY <1>step DEF Sleeps
    <2>3. Cardinality(Sleeps(x)) = 0 /\ Cardinality(Sleeps(x)') = 1
        BY <1>x, <2>1, FS_EmptySet, FS_Singleton
    <2>. QED BY <2>2, <2>3
<1>ways. ASSUME NEW y \in Coroutines PROVE Ways(y)' = Ways(y)
    <2>1. Places(y)
        BY <1>0, PlacesHold
    <2>2. Ways(y)' = Number(run', {y}) + Queued(y, Back)' + Cardinality(Sleeps(y)')
                      + Cardinality(blocked' \cap {y}) + Cardinality(away' \cap {y})
                      + Cardinality(Timeouts(y)')
        BY WaysNext
    <2>3. /\ Number(run', {y}) = Number(run, {y}) - (IF y = x THEN 1 ELSE 0)
          /\ Queued(y, Back)' = Queued(y, Back) /\ Timeouts(y)' = Timeouts(y)
          /\ blocked' = blocked /\ away' = away
        BY <1>step, <1>x, <1>work, <1>timeouts
    <2>4. Cardinality(Sleeps(y)') = Cardinality(Sleeps(y)) + (IF y = x THEN 1 ELSE 0)
        BY <2>1, <1>sleeps DEF Places
    <2>. QED BY <2>1, <2>2, <2>3, <2>4 DEF Places
<1>owned. Owned' \subseteq Owned
    BY <1>step, <1>x, <1>work, OwnedIs, OwnedNext
<1>1. TypeOK' /\ IsFiniteSet(delayed)'
    <2>1. delayed' \subseteq Delayed /\ left' \in Nat
        BY <1>0, <1>step, <1>d DEF TypeOK
    <2>2. TypeOK'
        BY <2>1, <1>0, <1>step, <1>x DEF TypeOK
    <2>3. IsFiniteSet(delayed)'
        BY <1>0, <1>step, FS_AddElement
    <2>. QED BY <2>2, <2>3
<1>2. Loop'
    BY <1>0, <1>x, <1>step DEF Loop
<1>3. Held'
    BY <1>0, <1>owned, <1>step DEF Held
<1>4. Once'
    BY <1>0, <1>ways, <1>step, OnceSame
<1>5. Awaited'
    BY <1>0, <1>work, <1>step DEF Awaited
<1>6. CancelsOnce' /\ TimersSet'
    BY <1>0, <1>work, <1>step DEF CancelsOnce, TimersSet
<1>7. Counting'
    BY <1>0, <1>x, <1>work, <1>timeouts, <1>step DEF Counting
<1>8. Ready' /\ InTime' /\ Quiet'
    BY <1>0, <1>x, <1>d, <1>step DEF Ready, InTime, Quiet
<1>. QED BY <1>1, <1>2, <1>3, <1>4, <1>5, <1>6, <1>7, <1>8 DEF IInv

\* co_await cv.wait() counts a unit.
LEMMA BlockKeeps ==
    ASSUME IInv, NEW x \in Coroutines, Block(x)
    PROVE  IInv'
<1>0. /\ TypeOK /\ IsFiniteSet(delayed)
      /\ Loop /\ Held /\ Once /\ Awaited /\ CancelsOnce /\ TimersSet
      /\ Counting /\ Ready /\ InTime /\ Quiet
    BY DEF IInv
<1>step.
      /\ Runs(x) /\ left > 0 /\ run' = Popped /\ blocked' = blocked \cup {x}
      /\ counted' = counted \cup {x} /\ externalWork' = externalWork + 1
      /\ left' = left - 1 /\ pc' = pc /\ tasks' = tasks /\ batch' = batch
      /\ spent' = spent /\ delayed' = delayed /\ wake' = wake /\ stage' = stage
      /\ awaiter' = awaiter /\ guarded' = guarded /\ kept' = kept
      /\ handle' = handle /\ away' = away
      /\ abroad' = abroad /\ idle' = idle
    BY DEF Block, Suspends, Count, stacks, queues
<1>x. /\ Dying = {} /\ x \in Owned /\ stage[x] = "live" /\ Ways(x) = 1
      /\ Queued(x, Back) = 0 /\ Sleeps(x) = {} /\ x \notin blocked /\ x \notin away
      /\ Timeouts(x) = {} /\ x \notin counted
      /\ pc \in {"start", "run"} /\ idle = 0
      /\ run \in Seq(Coroutines) /\ x \in ToSet(run) /\ Popped \in Seq(Coroutines)
      /\ ToSet(Popped) = ToSet(run) \ {x}
      /\ \A y \in Coroutines :
             Number(Popped, {y}) = Number(run, {y}) - (IF y = x THEN 1 ELSE 0)
    BY <1>step, Innermost
<1>work. Works' = Works /\ \A y, k : Queued(y, k)' = Queued(y, k)
    BY <1>step, SameWork
<1>same.
      /\ \A y : Sleeps(y)' = Sleeps(y)
      /\ \A y : Timeouts(y)' = Timeouts(y)
    BY <1>step, <1>work, SameSleeps, SameTimeouts
<1>waits. \A y : Cardinality(blocked' \cap {y})
                   = Cardinality(blocked \cap {y}) + (IF y = x THEN 1 ELSE 0)
    BY <1>step, <1>x, OneOf
<1>ways. ASSUME NEW y \in Coroutines PROVE Ways(y)' = Ways(y)
    <2>1. Places(y)
        BY <1>0, PlacesHold
    <2>2. Ways(y)' = Number(run', {y}) + Queued(y, Back)' + Cardinality(Sleeps(y)')
                      + Cardinality(blocked' \cap {y}) + Cardinality(away' \cap {y})
                      + Cardinality(Timeouts(y)')
        BY WaysNext
    <2>3. /\ Number(run', {y}) = Number(run, {y}) - (IF y = x THEN 1 ELSE 0)
          /\ Cardinality(blocked' \cap {y})
               = Cardinality(blocked \cap {y}) + (IF y = x THEN 1 ELSE 0)
          /\ Queued(y, Back)' = Queued(y, Back)
          /\ Sleeps(y)' = Sleeps(y) /\ Timeouts(y)' = Timeouts(y) /\ away' = away
        BY <1>step, <1>x, <1>work, <1>same, <1>waits
    <2>. QED BY <2>1, <2>2, <2>3 DEF Places
<1>owned. Owned' \subseteq Owned
    BY <1>step, <1>x, <1>work, OwnedIs, OwnedNext
<1>counted. Cardinality(counted') = Cardinality(counted) + 1 /\ Cardinality(counted) \in Nat
    <2>1. IsFiniteSet(counted) /\ Cardinality(counted) \in Nat
        BY <1>0, CoroutinesFinite DEF TypeOK
    <2>. QED BY <2>1, <1>step, <1>x, FS_AddElement
<1>1. TypeOK' /\ IsFiniteSet(delayed)'
    BY <1>0, <1>step, <1>x DEF TypeOK
<1>2. Loop'
    BY <1>0, <1>x, <1>step DEF Loop
<1>3. Held'
    BY <1>0, <1>owned, <1>step DEF Held
<1>4. Once'
    BY <1>0, <1>ways, <1>step, OnceSame
<1>5. Awaited'
    BY <1>0, <1>work, <1>step DEF Awaited
<1>6. CancelsOnce' /\ TimersSet'
    BY <1>0, <1>work, <1>step DEF CancelsOnce, TimersSet
<1>7. Counting'
    BY <1>0, <1>x, <1>work, <1>same, <1>counted, <1>step DEF Counting
<1>8. Ready' /\ InTime' /\ Quiet'
    BY <1>0, <1>x, <1>step DEF Ready, InTime, Quiet
<1>. QED BY <1>1, <1>2, <1>3, <1>4, <1>5, <1>6, <1>7, <1>8 DEF IInv

\* So does co_await WithExecutor{...}.
LEMMA HopKeeps ==
    ASSUME IInv, NEW x \in Coroutines, Hop(x)
    PROVE  IInv'
<1>0. /\ TypeOK /\ IsFiniteSet(delayed)
      /\ Loop /\ Held /\ Once /\ Awaited /\ CancelsOnce /\ TimersSet
      /\ Counting /\ Ready /\ InTime /\ Quiet
    BY DEF IInv
<1>step.
      /\ Runs(x) /\ left > 0 /\ run' = Popped /\ away' = away \cup {x}
      /\ abroad' = abroad \cup {x} /\ counted' = counted \cup {x}
      /\ externalWork' = externalWork + 1 /\ left' = left - 1 /\ pc' = pc
      /\ tasks' = tasks /\ batch' = batch /\ spent' = spent /\ delayed' = delayed
      /\ wake' = wake /\ stage' = stage /\ awaiter' = awaiter /\ guarded' = guarded
      /\ kept' = kept /\ handle' = handle /\ blocked' = blocked /\ idle' = idle
    BY DEF Hop, Suspends, Count, stacks, queues
<1>x. /\ Dying = {} /\ x \in Owned /\ stage[x] = "live" /\ Ways(x) = 1
      /\ Queued(x, Back) = 0 /\ Sleeps(x) = {} /\ x \notin blocked /\ x \notin away
      /\ Timeouts(x) = {} /\ x \notin counted
      /\ pc \in {"start", "run"} /\ idle = 0
      /\ run \in Seq(Coroutines) /\ x \in ToSet(run) /\ Popped \in Seq(Coroutines)
      /\ ToSet(Popped) = ToSet(run) \ {x}
      /\ \A y \in Coroutines :
             Number(Popped, {y}) = Number(run, {y}) - (IF y = x THEN 1 ELSE 0)
    BY <1>step, Innermost
<1>work. Works' = Works /\ \A y, k : Queued(y, k)' = Queued(y, k)
    BY <1>step, SameWork
<1>same.
      /\ \A y : Sleeps(y)' = Sleeps(y)
      /\ \A y : Timeouts(y)' = Timeouts(y)
    BY <1>step, <1>work, SameSleeps, SameTimeouts
<1>waits. \A y : Cardinality(away' \cap {y})
                   = Cardinality(away \cap {y}) + (IF y = x THEN 1 ELSE 0)
    BY <1>step, <1>x, OneOf
<1>ways. ASSUME NEW y \in Coroutines PROVE Ways(y)' = Ways(y)
    <2>1. Places(y)
        BY <1>0, PlacesHold
    <2>2. Ways(y)' = Number(run', {y}) + Queued(y, Back)' + Cardinality(Sleeps(y)')
                      + Cardinality(blocked' \cap {y}) + Cardinality(away' \cap {y})
                      + Cardinality(Timeouts(y)')
        BY WaysNext
    <2>3. /\ Number(run', {y}) = Number(run, {y}) - (IF y = x THEN 1 ELSE 0)
          /\ Cardinality(away' \cap {y})
               = Cardinality(away \cap {y}) + (IF y = x THEN 1 ELSE 0)
          /\ Queued(y, Back)' = Queued(y, Back)
          /\ Sleeps(y)' = Sleeps(y) /\ Timeouts(y)' = Timeouts(y) /\ blocked' = blocked
        BY <1>step, <1>x, <1>work, <1>same, <1>waits
    <2>. QED BY <2>1, <2>2, <2>3 DEF Places
<1>owned. Owned' \subseteq Owned
    BY <1>step, <1>x, <1>work, OwnedIs, OwnedNext
<1>counted. Cardinality(counted') = Cardinality(counted) + 1 /\ Cardinality(counted) \in Nat
    <2>1. IsFiniteSet(counted) /\ Cardinality(counted) \in Nat
        BY <1>0, CoroutinesFinite DEF TypeOK
    <2>. QED BY <2>1, <1>step, <1>x, FS_AddElement
<1>1. TypeOK' /\ IsFiniteSet(delayed)'
    BY <1>0, <1>step, <1>x DEF TypeOK
<1>2. Loop'
    BY <1>0, <1>x, <1>step DEF Loop
<1>3. Held'
    BY <1>0, <1>owned, <1>step DEF Held
<1>4. Once'
    BY <1>0, <1>ways, <1>step, OnceSame
<1>5. Awaited'
    BY <1>0, <1>work, <1>step DEF Awaited
<1>6. CancelsOnce' /\ TimersSet'
    BY <1>0, <1>work, <1>step DEF CancelsOnce, TimersSet
<1>7. Counting'
    BY <1>0, <1>x, <1>work, <1>same, <1>counted, <1>step DEF Counting
<1>8. Ready' /\ InTime' /\ Quiet'
    BY <1>0, <1>x, <1>step DEF Ready, InTime, Quiet
<1>. QED BY <1>1, <1>2, <1>3, <1>4, <1>5, <1>6, <1>7, <1>8 DEF IInv

\* co_await of a JoinHandle does not.
LEMMA JoinKeeps ==
    ASSUME IInv, NEW x \in Coroutines, Join(x)
    PROVE  IInv'
<1>0. /\ TypeOK /\ IsFiniteSet(delayed)
      /\ Loop /\ Held /\ Once /\ Awaited /\ CancelsOnce /\ TimersSet
      /\ Counting /\ Ready /\ InTime /\ Quiet
    BY DEF IInv
<1>step.
      /\ Runs(x) /\ left > 0 /\ x \in Foreign /\ run' = Popped /\ away' = away \cup {x}
      /\ left' = left - 1 /\ pc' = pc /\ tasks' = tasks /\ batch' = batch
      /\ spent' = spent /\ delayed' = delayed /\ wake' = wake /\ stage' = stage
      /\ awaiter' = awaiter /\ guarded' = guarded /\ kept' = kept
      /\ handle' = handle /\ blocked' = blocked
      /\ abroad' = abroad /\ counted' = counted /\ externalWork' = externalWork
      /\ idle' = idle
    BY DEF Join, Suspends, stacks, queues
<1>x. /\ Dying = {} /\ x \in Owned /\ stage[x] = "live" /\ Ways(x) = 1
      /\ Queued(x, Back) = 0 /\ Sleeps(x) = {} /\ x \notin blocked /\ x \notin away
      /\ Timeouts(x) = {} /\ x \notin counted
      /\ pc \in {"start", "run"} /\ idle = 0
      /\ run \in Seq(Coroutines) /\ x \in ToSet(run) /\ Popped \in Seq(Coroutines)
      /\ ToSet(Popped) = ToSet(run) \ {x}
      /\ \A y \in Coroutines :
             Number(Popped, {y}) = Number(run, {y}) - (IF y = x THEN 1 ELSE 0)
    BY <1>step, Innermost
<1>work. Works' = Works /\ \A y, k : Queued(y, k)' = Queued(y, k)
    BY <1>step, SameWork
<1>same.
      /\ \A y : Sleeps(y)' = Sleeps(y)
      /\ \A y : Timeouts(y)' = Timeouts(y)
    BY <1>step, <1>work, SameSleeps, SameTimeouts
<1>waits. \A y : Cardinality(away' \cap {y})
                   = Cardinality(away \cap {y}) + (IF y = x THEN 1 ELSE 0)
    BY <1>step, <1>x, OneOf
<1>ways. ASSUME NEW y \in Coroutines PROVE Ways(y)' = Ways(y)
    <2>1. Places(y)
        BY <1>0, PlacesHold
    <2>2. Ways(y)' = Number(run', {y}) + Queued(y, Back)' + Cardinality(Sleeps(y)')
                      + Cardinality(blocked' \cap {y}) + Cardinality(away' \cap {y})
                      + Cardinality(Timeouts(y)')
        BY WaysNext
    <2>3. /\ Number(run', {y}) = Number(run, {y}) - (IF y = x THEN 1 ELSE 0)
          /\ Cardinality(away' \cap {y})
               = Cardinality(away \cap {y}) + (IF y = x THEN 1 ELSE 0)
          /\ Queued(y, Back)' = Queued(y, Back)
          /\ Sleeps(y)' = Sleeps(y) /\ Timeouts(y)' = Timeouts(y) /\ blocked' = blocked
        BY <1>step, <1>x, <1>work, <1>same, <1>waits
    <2>. QED BY <2>1, <2>2, <2>3 DEF Places
<1>owned. Owned' \subseteq Owned
    BY <1>step, <1>x, <1>work, OwnedIs, OwnedNext
<1>counted. counted' = counted /\ externalWork' = externalWork /\ x \in Foreign
    BY <1>step
<1>1. TypeOK' /\ IsFiniteSet(delayed)'
    BY <1>0, <1>step, <1>x DEF TypeOK
<1>2. Loop'
    BY <1>0, <1>x, <1>step DEF Loop
<1>3. Held'
    BY <1>0, <1>owned, <1>step DEF Held
<1>4. Once'
    BY <1>0, <1>ways, <1>step, OnceSame
<1>5. Awaited'
    BY <1>0, <1>work, <1>step DEF Awaited
<1>6. CancelsOnce' /\ TimersSet'
    BY <1>0, <1>work, <1>step DEF CancelsOnce, TimersSet
<1>7. Counting'
    BY <1>0, <1>x, <1>work, <1>same, <1>counted, <1>step DEF Counting
<1>8. Ready' /\ InTime' /\ Quiet'
    BY <1>0, <1>x, <1>step DEF Ready, InTime, Quiet
<1>. QED BY <1>1, <1>2, <1>3, <1>4, <1>5, <1>6, <1>7, <1>8 DEF IInv

\* cv.notify_one() resumes y inside x.
LEMMA NotifyKeeps ==
    ASSUME IInv, NEW x \in Coroutines, NEW y \in Coroutines, Notify(x, y)
    PROVE  IInv'
<1>0. /\ TypeOK /\ IsFiniteSet(delayed)
      /\ Loop /\ Held /\ Once /\ Awaited /\ CancelsOnce /\ TimersSet
      /\ Counting /\ Ready /\ InTime /\ Quiet
    BY DEF IInv
<1>step.
      /\ Runs(x) /\ y \in blocked /\ Alive(y) /\ run' = Append(run, y)
      /\ blocked' = blocked \ {y} /\ counted' = counted \ {y}
      /\ externalWork' = externalWork - Cardinality(counted \cap {y}) /\ pc' = pc
      /\ tasks' = tasks /\ batch' = batch /\ spent' = spent /\ delayed' = delayed
      /\ wake' = wake /\ stage' = stage /\ awaiter' = awaiter /\ guarded' = guarded
      /\ kept' = kept
      /\ handle' = handle /\ away' = away /\ abroad' = abroad /\ idle' = idle
      /\ left' = left
    BY DEF Notify, Resumed, stacks, queues
<1>x. /\ Dying = {} /\ x \in Owned /\ stage[x] = "live" /\ Ways(x) = 1
      /\ Queued(x, Back) = 0 /\ Sleeps(x) = {} /\ x \notin blocked /\ x \notin away
      /\ Timeouts(x) = {} /\ x \notin counted
      /\ pc \in {"start", "run"} /\ idle = 0
      /\ run \in Seq(Coroutines) /\ x \in ToSet(run) /\ Popped \in Seq(Coroutines)
      /\ ToSet(Popped) = ToSet(run) \ {x}
      /\ \A z \in Coroutines :
             Number(Popped, {z}) = Number(run, {z}) - (IF z = x THEN 1 ELSE 0)
    BY <1>step, Innermost
<1>work. Works' = Works /\ \A z, k : Queued(z, k)' = Queued(z, k)
    BY <1>step, SameWork
<1>same.
      /\ \A z : Sleeps(z)' = Sleeps(z)
      /\ \A z : Timeouts(z)' = Timeouts(z)
    BY <1>step, <1>work, SameSleeps, SameTimeouts
<1>y. /\ stage[y] = "live" /\ y \in Owned /\ Ways(y) = 1
      /\ y \notin ToSet(run) /\ y \notin away /\ Queued(y, Back) = 0 /\ Timeouts(y) = {}
    <2>1. Places(y)
        BY <1>0, PlacesHold
    <2>2. Ways(y) > 0
        BY <2>1, <1>step DEF Places
    <2>3. stage[y] = "live" /\ y \in Owned /\ Ways(y) = 1
        BY <2>2, <1>step, GoingOn
    <2>. QED BY <2>1, <2>3, <1>step DEF Places
<1>run.
      /\ run' \in Seq(Coroutines) /\ ToSet(run') = ToSet(run) \cup {y}
      /\ \A z \in Coroutines : Number(run', {z})
           = Number(run, {z}) + (IF z = y THEN 1 ELSE 0)
    <2>1. /\ run' \in Seq(Coroutines) /\ ToSet(run') = ToSet(run) \cup {y}
          /\ \A V : Number(run', V) = Number(run, V) + (IF y \in V THEN 1 ELSE 0)
        BY <1>step, <1>x, AppendOne
    <2>. QED BY <2>1
<1>blocked. \A z : Cardinality(blocked' \cap {z})
                     = Cardinality(blocked \cap {z}) - (IF z = y THEN 1 ELSE 0)
    BY <1>step, OneOf
<1>ways. ASSUME NEW z \in Coroutines PROVE Ways(z)' = Ways(z)
    <2>1. Places(z)
        BY <1>0, PlacesHold
    <2>2. Ways(z)' = Number(run', {z}) + Queued(z, Back)' + Cardinality(Sleeps(z)')
                      + Cardinality(blocked' \cap {z}) + Cardinality(away' \cap {z})
                      + Cardinality(Timeouts(z)')
        BY WaysNext
    <2>3. /\ Number(run', {z}) = Number(run, {z}) + (IF z = y THEN 1 ELSE 0)
          /\ Cardinality(blocked' \cap {z})
               = Cardinality(blocked \cap {z}) - (IF z = y THEN 1 ELSE 0)
          /\ Queued(z, Back)' = Queued(z, Back)
          /\ Sleeps(z)' = Sleeps(z) /\ Timeouts(z)' = Timeouts(z) /\ away' = away
        BY <1>step, <1>run, <1>work, <1>same, <1>blocked
    <2>. QED BY <2>1, <2>2, <2>3 DEF Places
<1>owned. Owned' \subseteq Owned
    BY <1>step, <1>y, <1>run, <1>work, OwnedIs, OwnedNext
<1>counted. externalWork' = Cardinality(counted')
    <2>1. IsFiniteSet(counted) /\ Cardinality(counted) \in Nat
        BY <1>0, CoroutinesFinite DEF TypeOK
    <2>2. Cardinality(counted \ {y}) = Cardinality(counted) - Cardinality(counted \cap {y})
        BY <2>1, FS_Difference
    <2>. QED BY <2>2, <1>0, <1>step DEF Counting
<1>1. TypeOK' /\ IsFiniteSet(delayed)'
    <2>1. externalWork' \in Nat
        BY <1>0, <1>counted, <1>step, CoroutinesFinite DEF TypeOK
    <2>. QED BY <2>1, <1>0, <1>step, <1>run DEF TypeOK
<1>2. Loop'
    BY <1>0, <1>x, <1>step DEF Loop
<1>3. Held'
    BY <1>0, <1>owned, <1>step DEF Held
<1>4. Once'
    <2>1. Ways(y) # 0
        BY <1>y
    <2>. QED BY <2>1, <1>0, <1>ways, <1>step, OnceSame
<1>5. Awaited'
    BY <1>0, <1>work, <1>step DEF Awaited
<1>6. CancelsOnce' /\ TimersSet'
    BY <1>0, <1>work, <1>step DEF CancelsOnce, TimersSet
<1>7. Counting'
    <2>1. \A w \in Works : w.who = y => w.what # "strong"
        <3>1. Places(y)
            BY <1>0, PlacesHold
        <3>2. ~ \E w \in Works : w.who = y /\ w.what \in Back
            BY <3>1, <1>y DEF Places
        <3>. QED BY <3>2 DEF Back
    <2>2. counted' = counted \ {y} /\ blocked' = blocked \ {y} /\ away' = away
            /\ y \notin away
        BY <1>step, <1>y
    <2>. QED BY <2>1, <2>2, <1>0, <1>work, <1>same, <1>run, <1>step, <1>counted DEF Counting
<1>8. Ready' /\ InTime' /\ Quiet'
    BY <1>0, <1>x, <1>step DEF Ready, InTime, Quiet
<1>. QED BY <1>1, <1>2, <1>3, <1>4, <1>5, <1>6, <1>7, <1>8 DEF IInv

\* spawn() runs c inside x.
LEMMA SpawnKeeps ==
    ASSUME IInv, NEW x \in Coroutines, NEW c \in Children, Spawn(x, c)
    PROVE  IInv'
<1>0. /\ TypeOK /\ IsFiniteSet(delayed)
      /\ Loop /\ Held /\ Once /\ Awaited /\ CancelsOnce /\ TimersSet
      /\ Counting /\ Ready /\ InTime /\ Quiet
    BY DEF IInv
<1>step.
      /\ Runs(x) /\ stage[c] = "absent" /\ run' = Append(run, c)
      /\ stage' = [stage EXCEPT ![c] = "live"] /\ guarded' = guarded
      /\ handle' = [handle EXCEPT ![c] = {x}]
      /\ pc' = pc /\ tasks' = tasks /\ batch' = batch /\ spent' = spent
      /\ delayed' = delayed /\ wake' = wake /\ awaiter' = awaiter /\ kept' = kept
      /\ blocked' = blocked /\ away' = away /\ abroad' = abroad /\ counted' = counted
      /\ externalWork' = externalWork /\ idle' = idle /\ left' = left
    BY DEF Spawn, outer, queues
<1>x. /\ Dying = {} /\ x \in Owned /\ stage[x] = "live" /\ Ways(x) = 1
      /\ Queued(x, Back) = 0 /\ Sleeps(x) = {} /\ x \notin blocked /\ x \notin away
      /\ Timeouts(x) = {} /\ x \notin counted
      /\ pc \in {"start", "run"} /\ idle = 0
      /\ run \in Seq(Coroutines) /\ x \in ToSet(run) /\ Popped \in Seq(Coroutines)
      /\ ToSet(Popped) = ToSet(run) \ {x}
      /\ \A y \in Coroutines :
             Number(Popped, {y}) = Number(run, {y}) - (IF y = x THEN 1 ELSE 0)
    BY <1>step, Innermost
<1>work. Works' = Works /\ \A y, k : Queued(y, k)' = Queued(y, k)
    BY <1>step, SameWork
<1>c. /\ c \in Coroutines /\ c # x /\ c \notin Owned /\ awaiter[c] = {}
           /\ Queued(c, {"cancel"}) = 0
      /\ c \notin counted /\ c \notin ToSet(run) /\ Ways(c) = 0
    <2>1. c \in Coroutines /\ c # x /\ awaiter[c] = {} /\ Ways(c) = 0
        BY <1>0, <1>step, <1>x DEF Coroutines, Awaited, Once
    <2>2. c \notin Owned /\ c \notin counted /\ c \notin ToSet(run)
        BY <1>0, <1>step, OwnedIs DEF Held, Counting
    <2>3. \A w \in Works : w.who = c => w.what # "cancel"
        BY <1>0, <2>1 DEF Awaited
    <2>4. Queued(c, {"cancel"}) = 0
        BY <1>0, <2>1, <2>3, QueuedFacts DEF TypeOK
    <2>. QED BY <2>1, <2>2, <2>4
<1>same.
      /\ \A y : Sleeps(y)' = Sleeps(y)
      /\ \A y : Timeouts(y)' = Timeouts(y)
    <2>1. \A y : Timeouts(y)' = Timeouts(y)
        BY <1>step, <1>work, <1>c DEF Timeouts
    <2>. QED BY <2>1, <1>step, SameSleeps
<1>stage.
      /\ stage'[c] = "live" /\ \A y \in Coroutines : y # c => stage'[y] = stage[y]
    BY <1>0, <1>c, <1>step DEF TypeOK
<1>run.
      /\ run' \in Seq(Coroutines) /\ ToSet(run') = ToSet(run) \cup {c}
      /\ \A y \in Coroutines : Number(run', {y})
           = Number(run, {y}) + (IF y = c THEN 1 ELSE 0)
    <2>1. /\ run' \in Seq(Coroutines) /\ ToSet(run') = ToSet(run) \cup {c}
          /\ \A V : Number(run', V) = Number(run, V) + (IF c \in V THEN 1 ELSE 0)
        BY <1>step, <1>c, <1>x, AppendOne
    <2>. QED BY <2>1
<1>ways. ASSUME NEW y \in Coroutines PROVE Ways(y)' = Ways(y) + (IF y = c THEN 1 ELSE 0)
    <2>1. Places(y)
        BY <1>0, PlacesHold
    <2>2. Ways(y)' = Number(run', {y}) + Queued(y, Back)' + Cardinality(Sleeps(y)')
                      + Cardinality(blocked' \cap {y}) + Cardinality(away' \cap {y})
                      + Cardinality(Timeouts(y)')
        BY WaysNext
    <2>3. /\ Number(run', {y}) = Number(run, {y}) + (IF y = c THEN 1 ELSE 0)
          /\ Queued(y, Back)' = Queued(y, Back)
          /\ Sleeps(y)' = Sleeps(y) /\ Timeouts(y)' = Timeouts(y)
          /\ blocked' = blocked /\ away' = away
        BY <1>step, <1>run, <1>work, <1>same
    <2>. QED BY <2>1, <2>2, <2>3 DEF Places
<1>owned. Owned' \subseteq Owned \cup {c}
    BY <1>step, <1>run, <1>work, OwnedIs, OwnedNext
<1>1. TypeOK' /\ IsFiniteSet(delayed)'
    BY <1>0, <1>step, <1>run, <1>c DEF TypeOK
<1>2. Loop'
    BY <1>0, <1>x, <1>step DEF Loop
<1>3. Held'
    <2>1. \A y \in Owned' : stage'[y] \in {"live", "finished"}
        <3>1. Owned \subseteq Coroutines
            BY <1>0, OwnedCoroutines
        <3>. QED BY <3>1, <1>0, <1>owned, <1>stage DEF Held
    <2>2. \A y \in Coroutines : \A e \in kept[y] : e \in Coroutines /\ e # c
        BY <1>0, <1>step DEF TypeOK, Held, Coroutines
    <2>. QED BY <2>1, <2>2, <1>0, <1>stage, <1>step DEF Held
<1>4. Once'
    <2>1. ASSUME NEW y \in Coroutines PROVE Ways(y) \in Nat
        <3>1. Places(y)
            BY <1>0, PlacesHold
        <3>. QED BY <3>1 DEF Places
    <2>. QED BY <2>1, <1>0, <1>ways, <1>stage, <1>c, <1>step DEF Once, Lost
<1>5. Awaited'
    <2>1. \A e \in Children : e \in Coroutines
        BY DEF Coroutines
    <2>. QED BY <2>1, <1>0, <1>work, <1>stage, <1>step DEF Awaited
<1>6. CancelsOnce' /\ TimersSet'
    BY <1>0, <1>work, <1>c, <1>step DEF CancelsOnce, TimersSet
<1>7. Counting'
    <2>1. \A y \in counted \cup blocked \cup away : y \in Coroutines
        BY <1>0 DEF TypeOK
    <2>. QED BY <2>1, <1>0, <1>work, <1>same, <1>run, <1>c, <1>stage, <1>step DEF Counting
<1>8. Ready' /\ InTime' /\ Quiet'
    BY <1>0, <1>x, <1>step DEF Ready, InTime, Quiet
<1>. QED BY <1>1, <1>2, <1>3, <1>4, <1>5, <1>6, <1>7, <1>8 DEF IInv

\* The executor holds the stack that the handle has held.
LEMMA DropHandleKeeps ==
    ASSUME IInv, NEW x \in Coroutines, NEW c \in Children, DropHandle(x, c)
    PROVE  IInv'
<1>0. /\ TypeOK /\ IsFiniteSet(delayed)
      /\ Loop /\ Held /\ Once /\ Awaited /\ CancelsOnce /\ TimersSet
      /\ Counting /\ Ready /\ InTime /\ Quiet
    BY DEF IInv
<1>step.
      /\ Current(x) /\ x \in handle[c]
      /\ handle' = [handle EXCEPT ![c] = {}] /\ guarded' = guarded \cup {c}
      /\ run' = run /\ stage' = stage
      /\ pc' = pc /\ tasks' = tasks /\ batch' = batch /\ spent' = spent
      /\ delayed' = delayed /\ wake' = wake /\ awaiter' = awaiter /\ kept' = kept
      /\ blocked' = blocked /\ away' = away /\ abroad' = abroad /\ counted' = counted
      /\ externalWork' = externalWork /\ idle' = idle /\ left' = left
    BY DEF DropHandle, outer, queues
<1>x. pc \in {"start", "run"} /\ idle = 0
    BY <1>step, Innermost
<1>work. Works' = Works /\ \A y, k : Queued(y, k)' = Queued(y, k)
    BY <1>step, SameWork
<1>c. awaiter[c] = {} /\ Queued(c, {"cancel"}) = 0
    <2>1. awaiter[c] = {}
        BY <1>0, <1>step DEF Awaited
    <2>2. \A w \in Works : w.who = c => w.what # "cancel"
        BY <1>0, <2>1 DEF Awaited
    <2>. QED BY <1>0, <2>1, <2>2, QueuedFacts DEF TypeOK
<1>same.
      /\ \A y : Sleeps(y)' = Sleeps(y)
      /\ \A y : Timeouts(y)' = Timeouts(y)
    <2>1. \A y : Timeouts(y)' = Timeouts(y)
        BY <1>step, <1>work, <1>c DEF Timeouts
    <2>. QED BY <2>1, <1>step, SameSleeps
<1>ways. ASSUME NEW y \in Coroutines PROVE Ways(y)' = Ways(y)
    <2>1. Ways(y)' = Number(run', {y}) + Queued(y, Back)' + Cardinality(Sleeps(y)')
                      + Cardinality(blocked' \cap {y}) + Cardinality(away' \cap {y})
                      + Cardinality(Timeouts(y)')
        BY WaysNext
    <2>. QED BY <2>1, <1>step, <1>work, <1>same DEF Ways, Back
<1>handle. \A e \in Children : handle'[e] = IF e = c THEN {} ELSE handle[e]
    BY <1>0, <1>step DEF TypeOK
<1>owned. Owned' \subseteq Owned
    BY <1>step, <1>handle, <1>work, OwnedIs, OwnedNext
<1>1. TypeOK' /\ IsFiniteSet(delayed)'
    BY <1>0, <1>step DEF TypeOK
<1>2. Loop'
    BY <1>0, <1>step DEF Loop
<1>3. Held'
    BY <1>0, <1>owned, <1>step DEF Held
<1>4. Once'
    BY <1>0, <1>ways, <1>step, OnceSame
<1>5. Awaited'
    BY <1>0, <1>work, <1>handle, <1>step DEF Awaited
<1>6. CancelsOnce' /\ TimersSet'
    BY <1>0, <1>work, <1>c, <1>step DEF CancelsOnce, TimersSet
<1>7. Counting'
    BY <1>0, <1>work, <1>same, <1>step DEF Counting
<1>8. Ready' /\ InTime' /\ Quiet'
    BY <1>0, <1>x, <1>step DEF Ready, InTime, Quiet
<1>. QED BY <1>1, <1>2, <1>3, <1>4, <1>5, <1>6, <1>7, <1>8 DEF IInv

\* co_await Timeout{d, c} runs c instead of x, which then awaits it.
LEMMA TimeoutKeeps ==
    ASSUME IInv, NEW x \in Coroutines, NEW c \in Children, NEW d \in Durations,
           Timeout(x, c, d)
    PROVE  IInv'
<1>0. /\ TypeOK /\ IsFiniteSet(delayed)
      /\ Loop /\ Held /\ Once /\ Awaited /\ CancelsOnce /\ TimersSet
      /\ Counting /\ Ready /\ InTime /\ Quiet
    BY DEF IInv
<1>step.
      /\ Runs(x) /\ left > 0 /\ stage[c] = "absent" /\ run' = Append(Popped, c)
      /\ stage' = [stage EXCEPT ![c] = "live"] /\ awaiter' = [awaiter EXCEPT ![c] = {x}]
      /\ guarded' = guarded \cup {c}
      /\ delayed' = delayed \cup {[who |-> c, what |-> "timer", in |-> d]}
      /\ left' = left - 1 /\ pc' = pc /\ tasks' = tasks /\ batch' = batch
      /\ spent' = spent /\ wake' = wake /\ kept' = kept
      /\ handle' = handle /\ blocked' = blocked
      /\ away' = away /\ abroad' = abroad /\ counted' = counted
      /\ externalWork' = externalWork /\ idle' = idle
    BY DEF Timeout, Suspends, outer
<1>x. /\ Dying = {} /\ x \in Owned /\ stage[x] = "live" /\ Ways(x) = 1
      /\ Queued(x, Back) = 0 /\ Sleeps(x) = {} /\ x \notin blocked /\ x \notin away
      /\ Timeouts(x) = {} /\ x \notin counted
      /\ pc \in {"start", "run"} /\ idle = 0
      /\ run \in Seq(Coroutines) /\ x \in ToSet(run) /\ Popped \in Seq(Coroutines)
      /\ ToSet(Popped) = ToSet(run) \ {x}
      /\ \A y \in Coroutines :
             Number(Popped, {y}) = Number(run, {y}) - (IF y = x THEN 1 ELSE 0)
    BY <1>step, Innermost
<1>work. Works' = Works /\ \A y, k : Queued(y, k)' = Queued(y, k)
    BY <1>step, SameWork
<1>c. /\ c \in Coroutines /\ c # x /\ c \notin Owned /\ awaiter[c] = {}
           /\ Queued(c, {"cancel"}) = 0
      /\ c \notin counted /\ c \notin ToSet(run) /\ Ways(c) = 0
    <2>1. c \in Coroutines /\ c # x /\ awaiter[c] = {} /\ Ways(c) = 0
        BY <1>0, <1>step, <1>x DEF Coroutines, Awaited, Once
    <2>2. c \notin Owned /\ c \notin counted /\ c \notin ToSet(run)
        BY <1>0, <1>step, OwnedIs DEF Held, Counting
    <2>3. \A w \in Works : w.who = c => w.what # "cancel"
        BY <1>0, <2>1 DEF Awaited
    <2>4. Queued(c, {"cancel"}) = 0
        BY <1>0, <2>1, <2>3, QueuedFacts DEF TypeOK
    <2>. QED BY <2>1, <2>2, <2>4
<1>d. d \in Nat /\ d > 0 /\ [who |-> c, what |-> "timer", in |-> d] \in Delayed
    BY <1>c, ThisThreadAssumption DEF Delayed
<1>awaiter.
      /\ awaiter'[c] = {x} /\ \A e \in Children : e # c => awaiter'[e] = awaiter[e]
      /\ stage'[c] = "live" /\ \A y \in Coroutines : y # c => stage'[y] = stage[y]
    BY <1>0, <1>c, <1>step DEF TypeOK
<1>sleeps. \A y : Sleeps(y)' = Sleeps(y)
    BY <1>step DEF Sleeps
<1>timeouts. Timeouts(x)' = {c} /\ \A y : y # x => Timeouts(y)' = Timeouts(y)
    <2>1. \A y : Timeouts(y)' = IF y = x THEN Timeouts(y) \cup {c} ELSE Timeouts(y)
        BY <1>step, <1>work, <1>c, <1>awaiter DEF Timeouts
    <2>. QED BY <2>1, <1>x
<1>run.
      /\ run' \in Seq(Coroutines) /\ ToSet(run') = (ToSet(run) \ {x}) \cup {c}
      /\ \A y \in Coroutines :
             Number(run', {y})
               = Number(run, {y}) - (IF y = x THEN 1 ELSE 0) + (IF y = c THEN 1 ELSE 0)
    <2>1. /\ run' \in Seq(Coroutines) /\ ToSet(run') = ToSet(Popped) \cup {c}
          /\ \A V : Number(run', V) = Number(Popped, V) + (IF c \in V THEN 1 ELSE 0)
        BY <1>step, <1>c, <1>x, AppendOne
    <2>. QED BY <2>1, <1>x
<1>ways. ASSUME NEW y \in Coroutines PROVE Ways(y)' = Ways(y) + (IF y = c THEN 1 ELSE 0)
    <2>1. Places(y)
        BY <1>0, PlacesHold
    <2>2. Ways(y)' = Number(run', {y}) + Queued(y, Back)' + Cardinality(Sleeps(y)')
                      + Cardinality(blocked' \cap {y}) + Cardinality(away' \cap {y})
                      + Cardinality(Timeouts(y)')
        BY WaysNext
    <2>3. /\ Number(run', {y})
               = Number(run, {y}) - (IF y = x THEN 1 ELSE 0) + (IF y = c THEN 1 ELSE 0)
          /\ Queued(y, Back)' = Queued(y, Back) /\ Sleeps(y)' = Sleeps(y)
          /\ blocked' = blocked /\ away' = away
        BY <1>step, <1>run, <1>work, <1>sleeps
    <2>4. Cardinality(Timeouts(y)') = Cardinality(Timeouts(y)) + (IF y = x THEN 1 ELSE 0)
        <3>1. Cardinality({c}) = 1 /\ Cardinality({}) = 0
            BY FS_Singleton, FS_EmptySet
        <3>2. y = x => Cardinality(Timeouts(y)') = 1 /\ Cardinality(Timeouts(y)) = 0
            BY <3>1, <1>x, <1>timeouts
        <3>3. y # x => Timeouts(y)' = Timeouts(y)
            BY <1>timeouts
        <3>4. Cardinality(Timeouts(y)) \in Nat
            BY <2>1 DEF Places
        <3>. QED BY <3>2, <3>3, <3>4
    <2>. QED BY <2>1, <2>2, <2>3, <2>4 DEF Places
<1>owned. Owned' \subseteq Owned \cup {c}
    BY <1>step, <1>run, <1>work, OwnedIs, OwnedNext
<1>1. TypeOK' /\ IsFiniteSet(delayed)'
    <2>1. /\ delayed' \subseteq Delayed /\ left' \in Nat /\ guarded' \subseteq Children
          /\ stage' \in [Coroutines -> {"absent", "live", "finished", "destroyed"}]
          /\ awaiter' \in [Children -> SUBSET Coroutines]
        BY <1>0, <1>step, <1>d, <1>c DEF TypeOK
    <2>2. TypeOK'
        BY <2>1, <1>0, <1>step, <1>run DEF TypeOK
    <2>3. IsFiniteSet(delayed)'
        BY <1>0, <1>step, FS_AddElement
    <2>. QED BY <2>2, <2>3
<1>2. Loop'
    BY <1>0, <1>x, <1>step DEF Loop
<1>3. Held'
    <2>1. \A y \in Owned' : stage'[y] \in {"live", "finished"}
        <3>1. Owned \subseteq Coroutines
            BY <1>0, OwnedCoroutines
        <3>. QED BY <3>1, <1>0, <1>owned, <1>awaiter DEF Held
    <2>2. \A y \in Coroutines : \A e \in kept[y] : e \in Coroutines /\ e # c
        BY <1>0, <1>step DEF TypeOK, Held, Coroutines
    <2>. QED BY <2>1, <2>2, <1>0, <1>awaiter, <1>step DEF Held
<1>4. Once'
    <2>1. ASSUME NEW y \in Coroutines PROVE Ways(y) \in Nat
        <3>1. Places(y)
            BY <1>0, PlacesHold
        <3>. QED BY <3>1 DEF Places
    <2>. QED BY <2>1, <1>0, <1>ways, <1>awaiter, <1>c, <1>step DEF Once, Lost
<1>5. Awaited'
    <2>1. \A e \in Children : e \in Coroutines
        BY DEF Coroutines
    <2>2. \A e \in Children : awaiter[e] # {} => awaiter'[e] # {}
        BY <1>awaiter
    <2>3. \A e \in Children : \A p, q \in awaiter'[e] : p = q
        BY <1>0, <1>awaiter DEF Awaited
    <2>4. \A e \in Children : stage'[e] = "absent" \/ handle'[e] # {} => awaiter'[e] = {}
        <3>1. handle[c] = {} /\ handle' = handle
            BY <1>c, <1>step, OwnedIs
        <3>. QED BY <3>1, <1>0, <2>1, <1>awaiter DEF Awaited
    <2>5. \A w \in Works' : w.what \in {"timer", "cancel"} =>
              w.who \in Children /\ awaiter'[w.who] # {}
        BY <1>0, <2>2, <1>work DEF Awaited
    <2>6. ASSUME NEW b \in delayed', b.what = "timer"
          PROVE  b.who \in Children /\ awaiter'[b.who] # {}
        <3>1. CASE b \in delayed
            BY <3>1, <2>2, <2>6, <1>0 DEF Awaited
        <3>2. CASE b \notin delayed
            <4>1. b.who = c
                BY <3>2, <2>6, <1>step
            <4>. QED BY <4>1, <1>awaiter
        <3>. QED BY <3>1, <3>2
    <2>. QED BY <2>3, <2>4, <2>5, <2>6 DEF Awaited
<1>6. CancelsOnce' /\ TimersSet'
    <2>1. CancelsOnce'
        BY <1>0, <1>work, <1>c, <1>step DEF CancelsOnce
    <2>2. ASSUME NEW e \in guarded', awaiter'[e] # {}
          PROVE  \/ \E b \in delayed' : b.who = e /\ b.what = "timer"
                 \/ \E w \in ToSet(batch)' : w.who = e /\ w.what = "timer"
        <3>1. CASE e = c
            <4>1. [who |-> c, what |-> "timer", in |-> d] \in delayed'
                BY <1>step
            <4>. QED BY <3>1, <4>1
        <3>2. CASE e # c
            <4>1. e \in guarded /\ e \in Children /\ awaiter[e] # {}
                BY <3>2, <2>2, <1>0, <1>step, <1>awaiter DEF TypeOK
            <4>. QED BY <4>1, <1>0, <1>work, <1>step DEF TimersSet
        <3>. QED BY <3>1, <3>2
    <2>. QED BY <2>1, <2>2 DEF TimersSet
<1>7. Counting'
    <2>1. \A y \in counted \cup blocked \cup away : y \in Coroutines
        BY <1>0 DEF TypeOK
    <2>. QED BY <2>1, <1>0, <1>x, <1>work, <1>timeouts, <1>run, <1>c, <1>awaiter,
                <1>step DEF Counting
<1>8. Ready' /\ InTime' /\ Quiet'
    BY <1>0, <1>x, <1>d, <1>step DEF Ready, InTime, Quiet
<1>. QED BY <1>1, <1>2, <1>3, <1>4, <1>5, <1>6, <1>7, <1>8 DEF IInv

\* A coroutine that nobody awaits ends.
LEMMA FinishKeeps ==
    ASSUME IInv, NEW x \in Coroutines, Finish(x)
    PROVE  IInv'
<1>0. /\ TypeOK /\ IsFiniteSet(delayed)
      /\ Loop /\ Held /\ Once /\ Awaited /\ CancelsOnce /\ TimersSet
      /\ Counting /\ Ready /\ InTime /\ Quiet
    BY DEF IInv
<1>step.
      /\ Runs(x) /\ AwaiterOf(x) = {} /\ run' = Popped
      /\ stage' = [stage EXCEPT ![x] = "finished"] /\ guarded' = guarded \ {x}
      /\ pc' = pc /\ tasks' = tasks /\ batch' = batch /\ spent' = spent
      /\ delayed' = delayed /\ wake' = wake /\ awaiter' = awaiter /\ kept' = kept
      /\ handle' = handle
      /\ blocked' = blocked /\ away' = away /\ abroad' = abroad /\ counted' = counted
      /\ externalWork' = externalWork /\ idle' = idle /\ left' = left
    BY DEF Finish, outer, queues
<1>x. /\ Dying = {} /\ x \in Owned /\ stage[x] = "live" /\ Ways(x) = 1
      /\ Queued(x, Back) = 0 /\ Sleeps(x) = {} /\ x \notin blocked /\ x \notin away
      /\ Timeouts(x) = {} /\ x \notin counted
      /\ pc \in {"start", "run"} /\ idle = 0
      /\ run \in Seq(Coroutines) /\ x \in ToSet(run) /\ Popped \in Seq(Coroutines)
      /\ ToSet(Popped) = ToSet(run) \ {x}
      /\ \A y \in Coroutines :
             Number(Popped, {y}) = Number(run, {y}) - (IF y = x THEN 1 ELSE 0)
    BY <1>step, Innermost
<1>work. Works' = Works /\ \A y, k : Queued(y, k)' = Queued(y, k)
    BY <1>step, SameWork
<1>stage.
      /\ stage'[x] = "finished" /\ \A y \in Coroutines : y # x => stage'[y] = stage[y]
    BY <1>0, <1>step DEF TypeOK
<1>same.
      /\ \A y : Sleeps(y)' = Sleeps(y)
      /\ \A y : Timeouts(y)' = Timeouts(y)
    <2>1. \A e \in Children : e = x => awaiter[e] = {}
        BY <1>step, ThisThreadAssumption DEF AwaiterOf
    <2>2. \A y : Timeouts(y)' = Timeouts(y)
        BY <2>1, <1>step, <1>work DEF Timeouts
    <2>. QED BY <2>2, <1>step, SameSleeps
<1>ways. ASSUME NEW y \in Coroutines PROVE Ways(y)' = Ways(y) - (IF y = x THEN 1 ELSE 0)
    <2>1. Places(y)
        BY <1>0, PlacesHold
    <2>2. Ways(y)' = Number(run', {y}) + Queued(y, Back)' + Cardinality(Sleeps(y)')
                      + Cardinality(blocked' \cap {y}) + Cardinality(away' \cap {y})
                      + Cardinality(Timeouts(y)')
        BY WaysNext
    <2>3. /\ Number(run', {y}) = Number(run, {y}) - (IF y = x THEN 1 ELSE 0)
          /\ Queued(y, Back)' = Queued(y, Back)
          /\ Sleeps(y)' = Sleeps(y) /\ Timeouts(y)' = Timeouts(y)
          /\ blocked' = blocked /\ away' = away
        BY <1>step, <1>x, <1>work, <1>same
    <2>. QED BY <2>1, <2>2, <2>3 DEF Places
<1>owned. Owned' \subseteq Owned
    BY <1>step, <1>x, <1>work, OwnedIs, OwnedNext
<1>1. TypeOK' /\ IsFiniteSet(delayed)'
    BY <1>0, <1>step, <1>x DEF TypeOK
<1>2. Loop'
    BY <1>0, <1>x, <1>step DEF Loop
<1>3. Held'
    <2>1. \A y \in Owned' : stage'[y] \in {"live", "finished"}
        <3>1. Owned \subseteq Coroutines
            BY <1>0, OwnedCoroutines
        <3>. QED BY <3>1, <1>0, <1>owned, <1>stage DEF Held
    <2>2. \A y \in Coroutines : \A e \in kept[y] : e \in Coroutines
        BY <1>0 DEF TypeOK, Coroutines
    <2>. QED BY <2>1, <2>2, <1>0, <1>stage, <1>step DEF Held
<1>4. Once'
    <2>1. ASSUME NEW y \in Coroutines PROVE Ways(y) \in Nat
        <3>1. Places(y)
            BY <1>0, PlacesHold
        <3>. QED BY <3>1 DEF Places
    <2>. QED BY <2>1, <1>0, <1>ways, <1>stage, <1>x, <1>step DEF Once, Lost
<1>5. Awaited'
    <2>1. \A e \in Children : e \in Coroutines
        BY DEF Coroutines
    <2>. QED BY <2>1, <1>0, <1>work, <1>stage, <1>step DEF Awaited
<1>6. CancelsOnce' /\ TimersSet'
    BY <1>0, <1>work, <1>step DEF CancelsOnce, TimersSet
<1>7. Counting'
    <2>1. \A y \in counted \cup blocked \cup away : y \in Coroutines /\ y # x
        BY <1>0, <1>x DEF TypeOK, Counting
    <2>. QED BY <2>1, <1>0, <1>x, <1>work, <1>same, <1>stage, <1>step DEF Counting
<1>8. Ready' /\ InTime' /\ Quiet'
    BY <1>0, <1>x, <1>step DEF Ready, InTime, Quiet
<1>. QED BY <1>1, <1>2, <1>3, <1>4, <1>5, <1>6, <1>7, <1>8 DEF IInv

\* A coroutine under a Timeout ends too late, or without its awaiter.
LEMMA LateFinishKeeps ==
    ASSUME IInv, NEW x \in Coroutines, FinishInTime(x),
           ~(x \in guarded /\ \A p \in AwaiterOf(x) : Alive(p))
    PROVE  IInv'
<1>0. /\ TypeOK /\ IsFiniteSet(delayed)
      /\ Loop /\ Held /\ Once /\ Awaited /\ CancelsOnce /\ TimersSet
      /\ Counting /\ Ready /\ InTime /\ Quiet
    BY DEF IInv
<1>step.
      /\ Runs(x) /\ run' = Popped /\ stage' = [stage EXCEPT ![x] = "finished"]
      /\ pc' = pc /\ tasks' = tasks /\ batch' = batch /\ spent' = spent
      /\ delayed' = delayed /\ wake' = wake /\ awaiter' = awaiter /\ guarded' = guarded
      /\ kept' = kept
      /\ handle' = handle /\ blocked' = blocked /\ away' = away /\ abroad' = abroad
      /\ counted' = counted /\ externalWork' = externalWork /\ idle' = idle
      /\ left' = left
    BY DEF FinishInTime, outer, queues
<1>x. /\ Dying = {} /\ x \in Owned /\ stage[x] = "live" /\ Ways(x) = 1
      /\ Queued(x, Back) = 0 /\ Sleeps(x) = {} /\ x \notin blocked /\ x \notin away
      /\ Timeouts(x) = {} /\ x \notin counted
      /\ pc \in {"start", "run"} /\ idle = 0
      /\ run \in Seq(Coroutines) /\ x \in ToSet(run) /\ Popped \in Seq(Coroutines)
      /\ ToSet(Popped) = ToSet(run) \ {x}
      /\ \A y \in Coroutines :
             Number(Popped, {y}) = Number(run, {y}) - (IF y = x THEN 1 ELSE 0)
    BY <1>step, Innermost
<1>work. Works' = Works /\ \A y, k : Queued(y, k)' = Queued(y, k)
    BY <1>step, SameWork
<1>stage.
      /\ stage'[x] = "finished" /\ \A y \in Coroutines : y # x => stage'[y] = stage[y]
    BY <1>0, <1>step DEF TypeOK
<1>same.
      /\ \A y : Sleeps(y)' = Sleeps(y)
      /\ \A y : Timeouts(y)' = Timeouts(y)
    BY <1>step, <1>work, SameSleeps, SameTimeouts
<1>ways. ASSUME NEW y \in Coroutines PROVE Ways(y)' = Ways(y) - (IF y = x THEN 1 ELSE 0)
    <2>1. Places(y)
        BY <1>0, PlacesHold
    <2>2. Ways(y)' = Number(run', {y}) + Queued(y, Back)' + Cardinality(Sleeps(y)')
                      + Cardinality(blocked' \cap {y}) + Cardinality(away' \cap {y})
                      + Cardinality(Timeouts(y)')
        BY WaysNext
    <2>3. /\ Number(run', {y}) = Number(run, {y}) - (IF y = x THEN 1 ELSE 0)
          /\ Queued(y, Back)' = Queued(y, Back)
          /\ Sleeps(y)' = Sleeps(y) /\ Timeouts(y)' = Timeouts(y)
          /\ blocked' = blocked /\ away' = away
        BY <1>step, <1>x, <1>work, <1>same
    <2>. QED BY <2>1, <2>2, <2>3 DEF Places
<1>owned. Owned' \subseteq Owned
    BY <1>step, <1>x, <1>work, OwnedIs, OwnedNext
<1>1. TypeOK' /\ IsFiniteSet(delayed)'
    BY <1>0, <1>step, <1>x DEF TypeOK
<1>2. Loop'
    BY <1>0, <1>x, <1>step DEF Loop
<1>3. Held'
    <2>1. \A y \in Owned' : stage'[y] \in {"live", "finished"}
        <3>1. Owned \subseteq Coroutines
            BY <1>0, OwnedCoroutines
        <3>. QED BY <3>1, <1>0, <1>owned, <1>stage DEF Held
    <2>2. \A y \in Coroutines : \A e \in kept[y] : e \in Coroutines
        BY <1>0 DEF TypeOK, Coroutines
    <2>. QED BY <2>1, <2>2, <1>0, <1>stage, <1>step DEF Held
<1>4. Once'
    <2>1. ASSUME NEW y \in Coroutines PROVE Ways(y) \in Nat
        <3>1. Places(y)
            BY <1>0, PlacesHold
        <3>. QED BY <3>1 DEF Places
    <2>. QED BY <2>1, <1>0, <1>ways, <1>stage, <1>x, <1>step DEF Once, Lost
<1>5. Awaited'
    <2>1. \A e \in Children : e \in Coroutines
        BY DEF Coroutines
    <2>. QED BY <2>1, <1>0, <1>work, <1>stage, <1>step DEF Awaited
<1>6. CancelsOnce' /\ TimersSet'
    BY <1>0, <1>work, <1>step DEF CancelsOnce, TimersSet
<1>7. Counting'
    <2>1. \A y \in counted \cup blocked \cup away : y \in Coroutines /\ y # x
        BY <1>0, <1>x DEF TypeOK, Counting
    <2>. QED BY <2>1, <1>0, <1>x, <1>work, <1>same, <1>stage, <1>step DEF Counting
<1>8. Ready' /\ InTime' /\ Quiet'
    BY <1>0, <1>x, <1>step DEF Ready, InTime, Quiet
<1>. QED BY <1>1, <1>2, <1>3, <1>4, <1>5, <1>6, <1>7, <1>8 DEF IInv

\* A coroutine under a Timeout ends in time: its awaiter goes on and keeps its stack.
LEMMA FinishInTimeKeeps ==
    ASSUME IInv, NEW x \in Coroutines, FinishInTime(x),
           x \in guarded, \A p \in AwaiterOf(x) : Alive(p)
    PROVE  IInv'
<1>0. /\ TypeOK /\ IsFiniteSet(delayed)
      /\ Loop /\ Held /\ Once /\ Awaited /\ CancelsOnce /\ TimersSet
      /\ Counting /\ Ready /\ InTime /\ Quiet
    BY DEF IInv
<1>pick. PICK p \in AwaiterOf(x) :
             guarded' = guarded \ {x} /\ kept' = [kept EXCEPT ![p] = {x}]
               /\ run' = Append(Popped, p)
    BY DEF FinishInTime
<1>step.
      /\ Runs(x) /\ run' = Append(Popped, p)
      /\ stage' = [stage EXCEPT ![x] = "finished"] /\ guarded' = guarded \ {x}
      /\ handle' = handle /\ kept' = [kept EXCEPT ![p] = {x}] /\ pc' = pc /\ tasks' = tasks
      /\ batch' = batch /\ spent' = spent /\ delayed' = delayed /\ wake' = wake
      /\ awaiter' = awaiter /\ blocked' = blocked /\ away' = away /\ abroad' = abroad
      /\ counted' = counted /\ externalWork' = externalWork /\ idle' = idle
      /\ left' = left
    BY <1>pick DEF FinishInTime, outer, queues
<1>x. /\ Dying = {} /\ x \in Owned /\ stage[x] = "live" /\ Ways(x) = 1
      /\ Queued(x, Back) = 0 /\ Sleeps(x) = {} /\ x \notin blocked /\ x \notin away
      /\ Timeouts(x) = {} /\ x \notin counted
      /\ pc \in {"start", "run"} /\ idle = 0
      /\ run \in Seq(Coroutines) /\ x \in ToSet(run) /\ Popped \in Seq(Coroutines)
      /\ ToSet(Popped) = ToSet(run) \ {x}
      /\ \A y \in Coroutines :
             Number(Popped, {y}) = Number(run, {y}) - (IF y = x THEN 1 ELSE 0)
    BY <1>step, Innermost
<1>work. Works' = Works /\ \A y, k : Queued(y, k)' = Queued(y, k)
    BY <1>step, SameWork
<1>stage.
      /\ stage'[x] = "finished" /\ \A y \in Coroutines : y # x => stage'[y] = stage[y]
    BY <1>0, <1>step DEF TypeOK
<1>a. x \in Children /\ p \in awaiter[x] /\ p \in Coroutines /\ Alive(p)
        /\ x \in Timeouts(p)
    BY <1>0, ThisThreadAssumption DEF TypeOK, AwaiterOf, Timeouts
<1>p. /\ stage[p] = "live" /\ p \in Owned /\ p # x /\ p \notin counted
      /\ Cardinality(Timeouts(p)) = 1 /\ IsFiniteSet(Timeouts(p))
    <2>1. Places(p)
        BY <1>0, <1>a, PlacesHold
    <2>2. Ways(p) > 0
        BY <2>1, <1>a DEF Places
    <2>3. stage[p] = "live" /\ p \in Owned /\ Ways(p) = 1
        BY <2>2, <1>a, GoingOn
    <2>4. p # x /\ p \notin counted
        BY <1>0, <1>a, <1>x DEF Counting
    <2>. QED BY <2>1, <2>3, <2>4, <1>a DEF Places
<1>timeouts.
      /\ Cardinality(Timeouts(p)') = Cardinality(Timeouts(p)) - 1
      /\ \A y : Timeouts(y)' \subseteq Timeouts(y)
      /\ \A y : y # p => Timeouts(y)' = Timeouts(y)
    <2>1. Queued(x, {"cancel"}) = 0 /\ \A q \in awaiter[x] : q = p
        BY <1>0, <1>a DEF CancelsOnce, Awaited
    <2>2. \A y : Timeouts(y)' = Timeouts(y) \ {x}
        BY <2>1, <1>0, <1>step, <1>work DEF Timeouts, TypeOK
    <2>3. \A y : y # p => x \notin Timeouts(y)
        BY <2>1 DEF Timeouts
    <2>4. Cardinality(Timeouts(p) \ {x}) = Cardinality(Timeouts(p)) - 1
        BY <1>a, <1>p, FS_RemoveElement
    <2>. QED BY <2>2, <2>3, <2>4
<1>run.
      /\ run' \in Seq(Coroutines) /\ ToSet(run') = (ToSet(run) \ {x}) \cup {p}
      /\ \A y \in Coroutines :
             Number(run', {y})
               = Number(run, {y}) - (IF y = x THEN 1 ELSE 0) + (IF y = p THEN 1 ELSE 0)
    <2>1. /\ run' \in Seq(Coroutines) /\ ToSet(run') = ToSet(Popped) \cup {p}
          /\ \A V : Number(run', V) = Number(Popped, V) + (IF p \in V THEN 1 ELSE 0)
        BY <1>step, <1>a, <1>x, AppendOne
    <2>. QED BY <2>1, <1>x
<1>ways. ASSUME NEW y \in Coroutines PROVE Ways(y)' = Ways(y) - (IF y = x THEN 1 ELSE 0)
    <2>1. Places(y)
        BY <1>0, PlacesHold
    <2>2. Ways(y)' = Number(run', {y}) + Queued(y, Back)' + Cardinality(Sleeps(y)')
                      + Cardinality(blocked' \cap {y}) + Cardinality(away' \cap {y})
                      + Cardinality(Timeouts(y)')
        BY WaysNext
    <2>3. /\ Number(run', {y})
               = Number(run, {y}) - (IF y = x THEN 1 ELSE 0) + (IF y = p THEN 1 ELSE 0)
          /\ Queued(y, Back)' = Queued(y, Back) /\ Sleeps(y)' = Sleeps(y)
          /\ blocked' = blocked /\ away' = away
        BY <1>step, <1>run, <1>work, SameSleeps
    <2>4. Cardinality(Timeouts(y)') = Cardinality(Timeouts(y)) - (IF y = p THEN 1 ELSE 0)
        BY <2>1, <1>timeouts DEF Places
    <2>. QED BY <2>1, <2>2, <2>3, <2>4 DEF Places
<1>owned. Owned' \subseteq Owned
    BY <1>step, <1>run, <1>p, <1>work, OwnedIs, OwnedNext
<1>1. TypeOK' /\ IsFiniteSet(delayed)'
    <2>1. kept' \in [Coroutines -> SUBSET Children]
        BY <1>0, <1>a, <1>step DEF TypeOK
    <2>. QED BY <2>1, <1>0, <1>step, <1>run DEF TypeOK
<1>2. Loop'
    BY <1>0, <1>x, <1>step DEF Loop
<1>3. Held'
    <2>1. \A y \in Owned' : stage'[y] \in {"live", "finished"}
        <3>1. Owned \subseteq Coroutines
            BY <1>0, OwnedCoroutines
        <3>. QED BY <3>1, <1>0, <1>owned, <1>stage DEF Held
    <2>2. \A y \in Coroutines : \A e \in kept[y] : e \in Coroutines
        BY <1>0 DEF TypeOK, Coroutines
    <2>3. kept'[p] = {x} /\ \A y \in Coroutines : y # p => kept'[y] = kept[y]
        BY <1>0, <1>a, <1>step DEF TypeOK
    <2>. QED BY <2>1, <2>2, <2>3, <1>0, <1>stage, <1>step DEF Held
<1>4. Once'
    <2>1. ASSUME NEW y \in Coroutines PROVE Ways(y) \in Nat
        <3>1. Places(y)
            BY <1>0, PlacesHold
        <3>. QED BY <3>1 DEF Places
    <2>. QED BY <2>1, <1>0, <1>ways, <1>stage, <1>x, <1>step DEF Once, Lost
<1>5. Awaited'
    <2>1. \A e \in Children : e \in Coroutines
        BY DEF Coroutines
    <2>. QED BY <2>1, <1>0, <1>work, <1>stage, <1>step DEF Awaited
<1>6. CancelsOnce' /\ TimersSet'
    BY <1>0, <1>work, <1>step DEF CancelsOnce, TimersSet
<1>7. Counting'
    <2>1. \A y \in counted \cup blocked \cup away : y \in Coroutines /\ y # x
        BY <1>0, <1>x DEF TypeOK, Counting
    <2>2. \A y \in counted : y \notin ToSet(run') /\ Timeouts(y)' = {}
        BY <1>0, <1>p, <1>run, <1>timeouts DEF Counting
    <2>. QED BY <2>1, <2>2, <1>0, <1>work, <1>stage, <1>step DEF Counting
<1>8. Ready' /\ InTime' /\ Quiet'
    BY <1>0, <1>x, <1>step DEF Ready, InTime, Quiet
<1>. QED BY <1>1, <1>2, <1>3, <1>4, <1>5, <1>6, <1>7, <1>8 DEF IInv

-----------------------------------------------------------------------------
(***************************************************************************)
(* The steps of block_on keep IInv                                         *)
(***************************************************************************)

\* What does not depend on where the thread is in block_on.
LEMMA OnlyLoop ==
    ASSUME IInv,
           UNCHANGED <<run, tasks, batch, spent, delayed, stage, awaiter, handle, guarded,
                       kept, blocked, away, abroad, counted, externalWork>>
    PROVE  /\ IsFiniteSet(delayed)' /\ Held' /\ Once' /\ Awaited' /\ CancelsOnce'
                /\ TimersSet'
           /\ Counting' /\ (Awaits' <=> Awaits) /\ (Over' <=> Over)
<1>0. IsFiniteSet(delayed) /\ Held /\ Once /\ Awaited /\ CancelsOnce /\ TimersSet
        /\ Counting
    BY DEF IInv
<1>1. /\ Owned' = Owned /\ Works' = Works
      /\ \A x, k : Queued(x, k)' = Queued(x, k)
      /\ \A x : Sleeps(x)' = Sleeps(x)
    BY DEF Owned, Works, Queued, Sleeps
<1>2. \A x : Timeouts(x)' = Timeouts(x)
    BY <1>1 DEF Timeouts
<1>3. \A x : Ways(x)' = Ways(x)
    BY <1>1, <1>2 DEF Ways
<1>4. Once'
    BY <1>0, <1>3, OnceSame
<1>5. Held' /\ Awaited' /\ CancelsOnce' /\ TimersSet' /\ IsFiniteSet(delayed)'
    BY <1>0, <1>1 DEF Held, Awaited, CancelsOnce, TimersSet
<1>6. Counting'
    BY <1>0, <1>1, <1>2 DEF Counting
<1>7. Awaits' <=> Awaits
    BY <1>1, AliveSame DEF Awaits
<1>8. Over' <=> Over
    BY DEF Over
<1>. QED BY <1>4, <1>5, <1>6, <1>7, <1>8

\* The first stretch of the root is over.
LEMMA EnterKeeps ==
    ASSUME IInv, Enter
    PROVE  IInv'
<1>0. /\ TypeOK /\ IsFiniteSet(delayed)
      /\ Loop /\ Held /\ Once /\ Awaited /\ CancelsOnce /\ TimersSet
      /\ Counting /\ Ready /\ InTime /\ Quiet
    BY DEF IInv
<1>step.
      /\ pc = "start" /\ run = <<>> /\ pc' = "swap" /\ run' = run /\ tasks' = tasks
      /\ batch' = batch /\ spent' = spent /\ delayed' = delayed /\ wake' = wake
      /\ stage' = stage /\ awaiter' = awaiter /\ guarded' = guarded /\ kept' = kept
      /\ handle' = handle
      /\ blocked' = blocked /\ away' = away /\ abroad' = abroad /\ counted' = counted
      /\ externalWork' = externalWork /\ idle' = idle /\ left' = left
    BY DEF Enter, queues, stacks, outer
<1>1. /\ IsFiniteSet(delayed)' /\ Held' /\ Once' /\ Awaited' /\ CancelsOnce' /\ TimersSet'
      /\ Counting' /\ (Awaits' <=> Awaits) /\ (Over' <=> Over)
    BY <1>step, OnlyLoop
<1>2. TypeOK'
    BY <1>0, <1>step DEF TypeOK
<1>3. Loop'
    BY <1>0, <1>step DEF Loop
<1>4. Ready' /\ InTime'
    BY <1>0, <1>step DEF Ready, InTime
<1>5. Quiet'
    BY <1>0, <1>1, <1>step DEF Quiet
<1>. QED BY <1>1, <1>2, <1>3, <1>4, <1>5 DEF IInv

\* The slumber is over.
LEMMA WakeKeeps ==
    ASSUME IInv, Wake
    PROVE  IInv'
<1>0. /\ TypeOK /\ IsFiniteSet(delayed)
      /\ Loop /\ Held /\ Once /\ Awaited /\ CancelsOnce /\ TimersSet
      /\ Counting /\ Ready /\ InTime /\ Quiet
    BY DEF IInv
<1>step.
      /\ pc = "asleep" /\ wake <= 0 /\ pc' = "swap" /\ run' = run /\ tasks' = tasks
      /\ batch' = batch /\ spent' = spent /\ delayed' = delayed /\ wake' = wake
      /\ stage' = stage /\ awaiter' = awaiter /\ guarded' = guarded /\ kept' = kept
      /\ handle' = handle
      /\ blocked' = blocked /\ away' = away /\ abroad' = abroad /\ counted' = counted
      /\ externalWork' = externalWork /\ idle' = idle /\ left' = left
    BY DEF Wake, queues, stacks, outer
<1>1. /\ IsFiniteSet(delayed)' /\ Held' /\ Once' /\ Awaited' /\ CancelsOnce' /\ TimersSet'
      /\ Counting' /\ (Awaits' <=> Awaits) /\ (Over' <=> Over)
    BY <1>step, OnlyLoop
<1>2. TypeOK'
    BY <1>0, <1>step DEF TypeOK
<1>3. Loop'
    BY <1>0, <1>step DEF Loop
<1>4. Ready' /\ InTime'
    BY <1>0, <1>step DEF Ready, InTime
<1>5. Quiet'
    BY <1>0, <1>1, <1>step DEF Quiet
<1>. QED BY <1>1, <1>2, <1>3, <1>4, <1>5 DEF IInv

\* take_result() finds what the root has left.
LEMMA TakeResultKeeps ==
    ASSUME IInv, TakeResult
    PROVE  IInv'
<1>0. /\ TypeOK /\ IsFiniteSet(delayed)
      /\ Loop /\ Held /\ Once /\ Awaited /\ CancelsOnce /\ TimersSet
      /\ Counting /\ Ready /\ InTime /\ Quiet
    BY DEF IInv
<1>step.
      /\ pc = "result"
      /\ pc' = (IF stage[Root] = "finished" THEN "returned" ELSE "failed") /\ run' = run
      /\ tasks' = tasks /\ batch' = batch /\ spent' = spent /\ delayed' = delayed
      /\ wake' = wake /\ stage' = stage /\ awaiter' = awaiter /\ guarded' = guarded
      /\ kept' = kept
      /\ handle' = handle /\ blocked' = blocked /\ away' = away /\ abroad' = abroad
      /\ counted' = counted /\ externalWork' = externalWork /\ idle' = idle
      /\ left' = left
    BY DEF TakeResult, queues, stacks, outer
<1>1. /\ IsFiniteSet(delayed)' /\ Held' /\ Once' /\ Awaited' /\ CancelsOnce' /\ TimersSet'
      /\ Counting' /\ (Awaits' <=> Awaits) /\ (Over' <=> Over)
    BY <1>step, OnlyLoop
<1>2. TypeOK'
    BY <1>0, <1>step DEF TypeOK
<1>3. Loop'
    BY <1>0, <1>step DEF Loop
<1>4. Ready' /\ InTime'
    BY <1>0, <1>step DEF Ready, InTime
<1>5. Quiet'
    BY <1>0, <1>1, <1>step DEF Quiet
<1>. QED BY <1>1, <1>2, <1>3, <1>4, <1>5 DEF IInv

\* When nothing is left, the root has ended.
LEMMA RootEnds ==
    ASSUME IInv, pc = "decide", delayed = {}, externalWork = 0, Root \notin Foreign
    PROVE  stage[Root] = "finished"
<1>0. /\ TypeOK /\ IsFiniteSet(delayed) /\ Loop /\ Held /\ Once /\ TimersSet /\ Counting
    BY DEF IInv
<1>1. counted = {}
    <2>1. IsFiniteSet(counted) /\ Cardinality(counted) = 0
        BY <1>0, CoroutinesFinite DEF TypeOK, Counting
    <2>. QED BY <2>1, FS_EmptySet
<1>2. Root \in Coroutines /\ Root \in Owned /\ Places(Root)
    BY <1>0, OwnedIs, PlacesHold DEF Coroutines
<1>3. run = <<>> /\ batch = <<>> /\ \A w \in Works : w.what = "strong"
    BY <1>0, EmptyHasNone DEF Loop, Works
<1>4. Root \notin ToSet(run) /\ Sleeps(Root) = {}
    BY <1>3, EmptyHasNone DEF Sleeps
<1>5. Root \notin blocked /\ Root \notin away
        /\ ~ \E w \in Works : w.who = Root /\ w.what \in Back
    BY <1>0, <1>1, <1>2, <1>3 DEF Counting
<1>6. Timeouts(Root) = {}
    <2>. SUFFICES ASSUME NEW c \in Children, Root \in awaiter[c],
                         c \in guarded \/ Queued(c, {"cancel"}) > 0
                  PROVE  FALSE
        BY DEF Timeouts
    <2>1. CASE c \in guarded
        <3>1. \E w \in ToSet(batch) : w.who = c /\ w.what = "timer"
            BY <2>1, <1>0 DEF TimersSet
        <3>. QED BY <3>1, <1>3, EmptyHasNone
    <2>2. CASE Queued(c, {"cancel"}) > 0
        <3>1. c \in Coroutines
            BY DEF Coroutines
        <3>2. \E w \in Works : w.who = c /\ w.what \in {"cancel"}
            BY <2>2, <3>1, <1>0, QueuedFacts DEF TypeOK
        <3>. QED BY <3>2, <1>3
    <2>. QED BY <2>1, <2>2
<1>7. Ways(Root) = 0
    BY <1>2, <1>4, <1>5, <1>6 DEF Places
<1>. QED BY <1>0, <1>1, <1>2, <1>7 DEF Once, Lost, Held

\* The slumber is not longer than 10 ms, nor than any deadline.
LEMMA Slumbering ==
    ASSUME IInv, pc = "decide"
    PROVE  Slumbers \in 1..Slumber /\ \A d \in delayed : Slumbers <= d.in
<1>. DEFINE D == {Slumber} \cup {d.in : d \in delayed}
<1>1. \A t \in D : t \in Nat /\ t > 0
    BY ThisThreadAssumption DEF IInv, InTime, TypeOK, Delayed
<1>2. \E t \in D : \A u \in D : t <= u
    BY <1>1, LeastNatural
<1>3. Slumbers \in D /\ \A u \in D : Slumbers <= u
    BY <1>2 DEF Slumbers
<1>4. Slumbers <= Slumber /\ \A d \in delayed : Slumbers <= d.in
    BY <1>3
<1>5. Slumbers \in Nat /\ Slumbers > 0
    BY <1>1, <1>3
<1>. QED BY <1>4, <1>5, ThisThreadAssumption

\* Leave, or sleep until the earliest deadline.
LEMMA DecideKeeps ==
    ASSUME IInv, Decide
    PROVE  IInv'
<1>0. /\ TypeOK /\ IsFiniteSet(delayed)
      /\ Loop /\ Held /\ Once /\ Awaited /\ CancelsOnce /\ TimersSet
      /\ Counting /\ Ready /\ InTime /\ Quiet
    BY DEF IInv
<1>step.
      /\ pc = "decide"
      /\ IF delayed = {} /\ externalWork = 0
         THEN pc' = "result" /\ wake' = wake ELSE pc' = "asleep" /\ wake' = Slumbers
      /\ run' = run /\ tasks' = tasks /\ batch' = batch /\ spent' = spent
      /\ delayed' = delayed /\ stage' = stage /\ awaiter' = awaiter
      /\ guarded' = guarded /\ kept' = kept
      /\ handle' = handle /\ blocked' = blocked /\ away' = away
      /\ abroad' = abroad /\ counted' = counted /\ externalWork' = externalWork
      /\ idle' = idle /\ left' = left
    BY DEF Decide, NothingLeft, stacks, outer
<1>1. /\ IsFiniteSet(delayed)' /\ Held' /\ Once' /\ Awaited' /\ CancelsOnce' /\ TimersSet'
      /\ Counting' /\ (Awaits' <=> Awaits) /\ (Over' <=> Over)
    BY <1>step, OnlyLoop
<1>wake. wake' \in 0..Slumber /\ \A d \in delayed : pc' = "asleep" => d.in >= wake'
    BY <1>0, <1>step, Slumbering, ThisThreadAssumption DEF TypeOK, Delayed
<1>2. TypeOK'
    BY <1>0, <1>step, <1>wake DEF TypeOK
<1>3. Loop'
    BY <1>0, <1>step DEF Loop
<1>4. Ready' /\ InTime'
    BY <1>0, <1>step, <1>wake, RootEnds DEF Ready, InTime
<1>5. Quiet'
    <2>1. idle > 0 => Over /\ spent = {}
        BY <1>0 DEF Quiet
    <2>2. ASSUME idle > 0, pc' = "asleep" PROVE Awaits
        <3>1. counted = {}
            BY <2>1, <2>2, <1>0 DEF Counting, Over, TypeOK
        <3>2. delayed # {}
            BY <3>1, <2>2, <1>0, <1>step, FS_EmptySet DEF Counting
        <3>3. tasks = <<>>
            <4>. SUFFICES ASSUME tasks # <<>> PROVE FALSE
                OBVIOUS
            <4>1. PICK w \in ToSet(tasks) : TRUE
                BY <1>0, TailOne DEF TypeOK
            <4>2. w \in Works /\ w.what = "strong" /\ w.who \in Coroutines
                    /\ w.who \in Owned
                BY <4>1, <1>0, <1>step, OwnedIs, OwnedCoroutines DEF Loop, Works
            <4>3. Ways(w.who) > 0
                <5>1. Places(w.who)
                    BY <4>2, <1>0, PlacesHold
                <5>. QED BY <4>2, <5>1 DEF Places, Back
            <4>4. stage[w.who] = "live"
                BY <4>2, <4>3, GoingOn
            <4>. QED BY <4>2, <4>4, <2>1, <2>2 DEF Over
        <3>. QED BY <3>2, <3>3, <2>2, <1>0, <1>step DEF Quiet
    <2>3. idle \in Nat
        BY <1>0 DEF TypeOK
    <2>4. idle' = idle /\ spent' = spent /\ pc' \in {"result", "asleep"} /\ Slumber \in Nat
        BY <1>step, ThisThreadAssumption
    <2>5. pc' = "asleep" => idle' + wake' <= Slumber \/ Awaits'
        <3>1. idle > 0 /\ pc' = "asleep" => Awaits'
            BY <2>2, <1>1
        <3>2. idle = 0 /\ pc' = "asleep" => idle' + wake' <= Slumber
            <4>1. Slumbers \in Nat /\ Slumbers <= Slumber
                    /\ (pc' = "asleep" => wake' = Slumbers)
                BY <1>step, Slumbering, ThisThreadAssumption
            <4>2. idle = 0 => idle + Slumbers <= Slumber
                BY <4>1, <2>4
            <4>. QED BY <4>1, <4>2, <2>4
        <3>3. idle = 0 \/ idle > 0
            BY <2>3
        <3>. QED BY <3>1, <3>2, <3>3
    <2>6. idle' > 0 => Over' /\ spent' = {}
        BY <2>1, <2>4, <1>1
    <2>. QED BY <2>4, <2>5, <2>6 DEF Quiet
<1>. QED BY <1>1, <1>2, <1>3, <1>4, <1>5 DEF IInv

\* tasks2 goes, with what it has kept alive.
LEMMA EndBatchKeeps ==
    ASSUME IInv, EndBatch
    PROVE  IInv'
<1>0. /\ TypeOK /\ IsFiniteSet(delayed)
      /\ Loop /\ Held /\ Once /\ Awaited /\ CancelsOnce /\ TimersSet
      /\ Counting /\ Ready /\ InTime /\ Quiet
    BY DEF IInv
<1>step.
      /\ pc = "run" /\ run = <<>> /\ batch = <<>>
      /\ pc' = (IF tasks # <<>> THEN "swap" ELSE "decide") /\ spent' = {} /\ run' = run
      /\ tasks' = tasks /\ batch' = batch /\ delayed' = delayed /\ wake' = wake
      /\ stage' = stage /\ awaiter' = awaiter /\ guarded' = guarded /\ kept' = kept
      /\ handle' = handle
      /\ blocked' = blocked /\ away' = away /\ abroad' = abroad /\ counted' = counted
      /\ externalWork' = externalWork /\ idle' = idle /\ left' = left
    BY DEF EndBatch, Again, stacks, outer
<1>work. Works' = Works /\ \A y, k : Queued(y, k)' = Queued(y, k)
    BY <1>step, SameWork
<1>same.
      /\ \A y : Sleeps(y)' = Sleeps(y)
      /\ \A y : Timeouts(y)' = Timeouts(y)
    BY <1>step, <1>work, SameSleeps, SameTimeouts
<1>ways. \A y : Ways(y)' = Ways(y)
    BY <1>step, <1>work, <1>same DEF Ways
<1>owned. Owned' \subseteq Owned /\ (spent = {} => Owned' = Owned)
    BY <1>step, <1>work, OwnedIs, OwnedNext
<1>1. TypeOK' /\ IsFiniteSet(delayed)'
    BY <1>0, <1>step DEF TypeOK
<1>2. Loop'
    BY <1>0, <1>step, EmptyHasNone DEF Loop
<1>3. Held'
    BY <1>0, <1>owned, <1>step DEF Held
<1>4. Once'
    BY <1>0, <1>ways, <1>step, OnceSame
<1>5. Awaited'
    BY <1>0, <1>work, <1>step DEF Awaited
<1>6. CancelsOnce' /\ TimersSet'
    BY <1>0, <1>work, <1>step DEF CancelsOnce, TimersSet
<1>7. Counting'
    BY <1>0, <1>work, <1>same, <1>step DEF Counting
<1>8. Ready' /\ InTime' /\ Quiet'
    <2>1. Ready' /\ InTime'
        BY <1>0, <1>step DEF Ready, InTime
    <2>2. Over' <=> Over
        BY <1>step DEF Over
    <2>3. idle > 0 => (Awaits' <=> Awaits)
        BY <1>0, <1>step, <1>owned, AliveSame DEF Quiet, Awaits
    <2>4. idle > 0 /\ tasks = <<>> => delayed = {} \/ Awaits'
        BY <2>3, <1>0, <1>step DEF Quiet
    <2>. QED BY <2>1, <2>2, <2>4, <1>0, <1>step DEF Quiet
<1>. QED BY <1>1, <1>2, <1>3, <1>4, <1>5, <1>6, <1>7, <1>8 DEF IInv

\* What is destroyed gives its units back.
LEMMA DestroyKeeps ==
    ASSUME IInv, Destroy
    PROVE  IInv'
<1>0. /\ TypeOK /\ IsFiniteSet(delayed)
      /\ Loop /\ Held /\ Once /\ Awaited /\ CancelsOnce /\ TimersSet
      /\ Counting /\ Ready /\ InTime /\ Quiet
    BY DEF IInv
<1>step.
      /\ Dying # {}
      /\ stage' = [y \in Coroutines |-> IF y \in Dying THEN "destroyed" ELSE stage[y]]
      /\ blocked' = blocked \ Dying /\ away' = away \ Dying
      /\ counted' = counted \ Dying
      /\ externalWork' = externalWork - Cardinality(counted \cap Dying) /\ pc' = pc
      /\ run' = run /\ tasks' = tasks /\ batch' = batch /\ spent' = spent
      /\ delayed' = delayed /\ wake' = wake /\ awaiter' = awaiter /\ guarded' = guarded
      /\ kept' = kept
      /\ handle' = handle /\ abroad' = abroad /\ idle' = idle /\ left' = left
    BY DEF Destroy, Unwound, queues
<1>work. Works' = Works /\ \A y, k : Queued(y, k)' = Queued(y, k)
    BY <1>step, SameWork
<1>same.
      /\ \A y : Sleeps(y)' = Sleeps(y)
      /\ \A y : Timeouts(y)' = Timeouts(y)
    BY <1>step, <1>work, SameSleeps, SameTimeouts
<1>dying. \A y : y \in Dying <=> y \in Coroutines /\ stage[y] = "live" /\ y \notin Owned
    BY DEF Dying
<1>stage. \A y \in Coroutines : stage'[y] = IF y \in Dying THEN "destroyed" ELSE stage[y]
    BY <1>step
<1>ways. ASSUME NEW y \in Coroutines, y \notin Dying PROVE Ways(y)' = Ways(y)
    <2>1. blocked' \cap {y} = blocked \cap {y} /\ away' \cap {y} = away \cap {y}
        BY <1>step, <1>ways
    <2>. QED BY <2>1, <1>step, <1>work, <1>same DEF Ways
<1>owned. Owned' = Owned /\ Owned \subseteq Coroutines
    <2>1. Owned' = Owned
        BY <1>step, <1>work, OwnedIs, OwnedNext
    <2>. QED BY <2>1, <1>0, OwnedCoroutines
<1>idle. idle = 0
    <2>1. ~Over
        BY <1>step, <1>dying DEF Over
    <2>. QED BY <2>1, <1>0 DEF Quiet, TypeOK
<1>counted. externalWork' = Cardinality(counted') /\ externalWork' \in Nat
    <2>1. IsFiniteSet(counted)
        BY <1>0, CoroutinesFinite DEF TypeOK
    <2>2. Cardinality(counted \ Dying)
            = Cardinality(counted) - Cardinality(counted \cap Dying)
        BY <2>1, FS_Difference
    <2>3. Cardinality(counted \ Dying) \in Nat
        BY <1>0, CoroutinesFinite DEF TypeOK
    <2>. QED BY <2>2, <2>3, <1>0, <1>step DEF Counting
<1>1. TypeOK' /\ IsFiniteSet(delayed)'
    <2>1. stage' \in [Coroutines -> {"absent", "live", "finished", "destroyed"}]
        BY <1>0, <1>step DEF TypeOK
    <2>. QED BY <2>1, <1>0, <1>step, <1>counted DEF TypeOK
<1>2. Loop'
    BY <1>0, <1>step DEF Loop
<1>3. Held'
    <2>1. \A y \in Owned' : stage'[y] \in {"live", "finished"}
        BY <1>0, <1>owned, <1>stage, <1>dying DEF Held
    <2>2. \A y \in Coroutines : \A e \in kept[y] : e \in Coroutines
        BY <1>0 DEF TypeOK, Coroutines
    <2>. QED BY <2>1, <2>2, <1>0, <1>stage, <1>dying, <1>step DEF Held
<1>4. Once'
    <2>1. ASSUME NEW y \in Coroutines, y \notin Dying
          PROVE  Ways(y)' = Ways(y) /\ stage'[y] = stage[y]
                   /\ (y \in counted' <=> y \in counted)
        BY <2>1, <1>ways, <1>stage, <1>step
    <2>2. \A y \in Dying : stage'[y] = "destroyed"
        BY <1>stage, <1>dying
    <2>. QED BY <2>1, <2>2, <1>0 DEF Once, Lost
<1>5. Awaited'
    <2>1. \A e \in Children : e \in Coroutines
        BY DEF Coroutines
    <2>. QED BY <2>1, <1>0, <1>work, <1>stage, <1>dying, <1>step DEF Awaited
<1>6. CancelsOnce' /\ TimersSet'
    BY <1>0, <1>work, <1>step DEF CancelsOnce, TimersSet
<1>7. Counting'
    <2>1. \A y \in counted' \cup blocked' \cup away' : stage'[y] = "live"
        BY <1>0, <1>stage, <1>step DEF Counting, TypeOK
    <2>2. \A y \in Coroutines \ Foreign :
              y \in away' \/ (\E w \in Works' : w.who = y /\ w.what = "strong")
                => y \in counted'
        <3>1. \A y : (\E w \in Works : w.who = y /\ w.what = "strong") => y \notin Dying
            BY <1>dying, OwnedIs
        <3>. QED BY <3>1, <1>0, <1>work, <1>step DEF Counting
    <2>3. \A y \in counted' : y \notin ToSet(run') /\ Timeouts(y)' = {}
        BY <1>0, <1>same, <1>step DEF Counting
    <2>4. blocked' \subseteq counted'
        BY <1>0, <1>step DEF Counting
    <2>. QED BY <2>1, <2>2, <2>3, <2>4, <1>counted DEF Counting
<1>8. Ready' /\ InTime' /\ Quiet'
    <2>1. Ready'
        BY <1>0, <1>stage, <1>dying, <1>step DEF Ready, Coroutines
    <2>2. InTime'
        BY <1>0, <1>step DEF InTime
    <2>3. Quiet'
        BY <1>0, <1>idle, <1>step, ThisThreadAssumption DEF Quiet, TypeOK
    <2>. QED BY <2>1, <2>2, <2>3
<1>. QED BY <1>1, <1>2, <1>3, <1>4, <1>5, <1>6, <1>7, <1>8 DEF IInv

\* A Work that brings x back is taken from the batch.
LEMMA TakeBack ==
    ASSUME TypeOK, NEW h \in Work, h = Head(batch), NEW x \in Coroutines, x = h.who,
           h.what \in Back, batch # <<>>, batch' = Tail(batch), tasks' = tasks
    PROVE  /\ h \in Works /\ batch' \in Seq(Work) /\ ToSet(batch) = ToSet(batch)' \cup {h}
           /\ Works = Works' \cup {h}
           /\ \A y \in Coroutines : Queued(y, Back)'
                = Queued(y, Back) - (IF y = x THEN 1 ELSE 0)
           /\ \A c \in Children : Queued(c, {"cancel"})' = Queued(c, {"cancel"})
<1>1. /\ h \in Work /\ batch' \in Seq(Work) /\ ToSet(batch) = ToSet(batch') \cup {h}
      /\ Works = Works' \cup {h}
      /\ \A y \in Coroutines : \A k \in SUBSET Whats : Queued(y, k)'
           = Queued(y, k) - Is(h, y, k)
    BY PopWork
<1>2. x \in Coroutines /\ h.what \in Back
    OBVIOUS
<1>3. Back \in SUBSET Whats /\ {"cancel"} \in SUBSET Whats /\ h.what \notin {"cancel"}
    BY <1>2 DEF Back, Whats
<1>4. \A y : Is(h, y, Back) = (IF y = x THEN 1 ELSE 0) /\ Is(h, y, {"cancel"}) = 0
    BY <1>2, <1>3 DEF Is
<1>5. \A c \in Children : c \in Coroutines /\ Queued(c, {"cancel"}) \in Nat
    BY <1>3, QueuedFacts DEF TypeOK, Whats, Coroutines
<1>6. ASSUME NEW c \in Children PROVE Queued(c, {"cancel"})' = Queued(c, {"cancel"})
    <2>1. Queued(c, {"cancel"})' = Queued(c, {"cancel"}) - 0
        BY <1>1, <1>3, <1>4, <1>5
    <2>. QED BY <2>1, <1>5
<1>7. ASSUME NEW y \in Coroutines
      PROVE  Queued(y, Back)' = Queued(y, Back) - (IF y = x THEN 1 ELSE 0)
    BY <1>1, <1>3, <1>4
<1>8. h \in Works
    BY <1>1
<1>. QED BY <1>1, <1>2, <1>6, <1>7, <1>8

\* The thread resumes one coroutine.
LEMMA OneRuns ==
    ASSUME NEW x \in Coroutines
    PROVE  /\ <<x>> \in Seq(Coroutines) /\ ToSet(<<x>>) = {x}
           /\ \A y : Number(<<x>>, {y}) = IF y = x THEN 1 ELSE 0
<1>1. <<x>> \in Seq(Coroutines) /\ ToSet(<<x>>) = {x}
    BY DEF ToSet
<1>2. ASSUME NEW y PROVE Number(<<x>>, {y}) = IF y = x THEN 1 ELSE 0
    <2>1. {i \in DOMAIN <<x>> : <<x>>[i] \in {y}} = IF y = x THEN {1} ELSE {}
        OBVIOUS
    <2>. QED BY <2>1, FS_Singleton, FS_EmptySet DEF Number
<1>. QED BY <1>1, <1>2

\* A Work resumes its stack.
LEMMA ResumeKeeps ==
    ASSUME IInv, NEW h \in Work, h = Head(batch), RunTask, Alive(h.who)
    PROVE  IInv'
<1>0. /\ TypeOK /\ IsFiniteSet(delayed)
      /\ Loop /\ Held /\ Once /\ Awaited /\ CancelsOnce /\ TimersSet
      /\ Counting /\ Ready /\ InTime /\ Quiet
    BY DEF IInv
<1>step.
      /\ pc = "run" /\ run = <<>> /\ Dying = {} /\ batch # <<>> /\ h.what \in Back
      /\ run' = <<h.who>> /\ batch' = Tail(batch)
      /\ spent' = (IF h.what = "strong" THEN spent \cup {h.who} ELSE spent)
      /\ counted' = counted \ {h.who}
      /\ externalWork' = externalWork - Cardinality(counted \cap {h.who}) /\ pc' = pc
      /\ tasks' = tasks /\ delayed' = delayed /\ wake' = wake /\ stage' = stage
      /\ awaiter' = awaiter /\ guarded' = guarded /\ kept' = kept
      /\ handle' = handle /\ blocked' = blocked
      /\ away' = away /\ abroad' = abroad /\ idle' = idle /\ left' = left
    BY DEF RunTask, Execute, Resumed, stacks, Back
<1>pick. PICK x \in Coroutines : x = h.who
    BY DEF Work
<1>work.
      /\ x = h.who /\ h \in Works /\ h.what \in Back
      /\ batch' \in Seq(Work) /\ ToSet(batch) = ToSet(batch)' \cup {h}
      /\ Works = Works' \cup {h}
      /\ \A y \in Coroutines : Queued(y, Back)' = Queued(y, Back) - (IF y = x THEN 1 ELSE 0)
      /\ \A c \in Children : Queued(c, {"cancel"})' = Queued(c, {"cancel"})
    BY <1>0, <1>step, <1>pick, TakeBack
<1>same.
      /\ \A y : Sleeps(y)' = Sleeps(y)
      /\ \A y : Timeouts(y)' = Timeouts(y)
    BY <1>step, <1>work, SameSleeps, SameTimeouts
<1>x. Alive(x)
    BY <1>pick
<1>ch. /\ run' = <<x>> /\ counted' = counted \ {x}
       /\ externalWork' = externalWork - Cardinality(counted \cap {x})
       /\ spent' \subseteq spent \cup {x} /\ spent \subseteq spent'
    BY <1>step, <1>pick
<1>live. /\ stage[x] = "live" /\ x \in Owned /\ Ways(x) = 1 /\ idle = 0
         /\ Queued(x, Back) = 1 /\ x \notin blocked /\ x \notin away /\ Timeouts(x) = {}
    <2>1. Places(x)
        BY <1>0, <1>work, PlacesHold
    <2>2. Queued(x, Back) > 0
        BY <2>1, <1>work DEF Places
    <2>3. Ways(x) > 0
        BY <2>1, <2>2 DEF Places
    <2>4. stage[x] = "live" /\ x \in Owned /\ Ways(x) = 1
        BY <2>3, <1>work, <1>x, GoingOn
    <2>5. idle = 0
        BY <2>4, <1>0, <1>work DEF Quiet, Over, TypeOK
    <2>. QED BY <2>1, <2>2, <2>4, <2>5 DEF Places
<1>ways. ASSUME NEW y \in Coroutines PROVE Ways(y)' = Ways(y)
    <2>1. Places(y)
        BY <1>0, PlacesHold
    <2>2. Ways(y)' = Number(run', {y}) + Queued(y, Back)' + Cardinality(Sleeps(y)')
                      + Cardinality(blocked' \cap {y}) + Cardinality(away' \cap {y})
                      + Cardinality(Timeouts(y)')
        BY WaysNext
    <2>3. /\ Number(run', {y}) = IF y = x THEN 1 ELSE 0
          /\ Number(run, {y}) = 0
          /\ Queued(y, Back)' = Queued(y, Back) - (IF y = x THEN 1 ELSE 0)
          /\ Sleeps(y)' = Sleeps(y) /\ Timeouts(y)' = Timeouts(y)
          /\ blocked' = blocked /\ away' = away
        <3>1. Number(run', {y}) = IF y = x THEN 1 ELSE 0
            BY <1>ch, <1>work, OneRuns
        <3>2. Number(run, {y}) = 0
            BY <1>step, EmptyHasNone
        <3>. QED BY <3>1, <3>2, <1>step, <1>ch, <1>work, <1>same
    <2>. QED BY <2>1, <2>2, <2>3 DEF Places
<1>owned. Owned' \subseteq Owned
    <2>1. ToSet(run') = {x}
        BY <1>ch, <1>work, OneRuns
    <2>. QED BY <2>1, <1>step, <1>ch, <1>work, <1>live, OwnedIs, OwnedNext
<1>counted. externalWork' = Cardinality(counted') /\ externalWork' \in Nat
    <2>1. IsFiniteSet(counted)
        BY <1>0, CoroutinesFinite DEF TypeOK
    <2>2. Cardinality(counted \ {x}) = Cardinality(counted) - Cardinality(counted \cap {x})
        BY <2>1, FS_Difference
    <2>3. Cardinality(counted \ {x}) \in Nat
        BY <1>0, CoroutinesFinite DEF TypeOK
    <2>. QED BY <2>2, <2>3, <1>0, <1>ch DEF Counting
<1>1. TypeOK' /\ IsFiniteSet(delayed)'
    BY <1>0, <1>step, <1>ch, <1>work, <1>counted, OneRuns DEF TypeOK
<1>2. Loop'
    BY <1>0, <1>step DEF Loop
<1>3. Held'
    BY <1>0, <1>owned, <1>step DEF Held
<1>4. Once'
    <2>1. Ways(x) # 0
        BY <1>live
    <2>. QED BY <2>1, <1>0, <1>ways, <1>ch, <1>step, OnceSame
<1>5. Awaited'
    BY <1>0, <1>work, <1>step DEF Awaited
<1>6. CancelsOnce' /\ TimersSet'
    <2>1. h.what # "timer"
        BY <1>work DEF Back
    <2>2. TimersSet'
        BY <2>1, <1>0, <1>work, <1>step DEF TimersSet
    <2>. QED BY <2>2, <1>0, <1>work, <1>step DEF CancelsOnce
<1>7. Counting'
    <2>1. \A w \in Works' : w.who = x => w.what # "strong"
        <3>1. Queued(x, Back)' = 0
            BY <1>work, <1>live
        <3>2. tasks' \in Seq(Work) /\ batch' \in Seq(Work)
            BY <1>0, <1>step, <1>work DEF TypeOK
        <3>3. Queued(x, Back)' > 0 <=> \E w \in Works' : w.who = x /\ w.what \in Back
            BY <3>2, QueuedNext
        <3>. QED BY <3>1, <3>3 DEF Back
    <2>2. \A y \in Coroutines \ Foreign :
              y \in away' \/ (\E w \in Works' : w.who = y /\ w.what = "strong")
                => y \in counted'
        BY <2>1, <1>0, <1>ch, <1>live, <1>work, <1>step DEF Counting
    <2>3. ToSet(run') = {x}
        BY <1>ch, <1>work, OneRuns
    <2>. QED BY <2>2, <2>3, <1>0, <1>ch, <1>live, <1>same, <1>counted, <1>step DEF Counting
<1>8. Ready' /\ InTime' /\ Quiet'
    BY <1>0, <1>live, <1>step DEF Ready, InTime, Quiet
<1>. QED BY <1>1, <1>2, <1>3, <1>4, <1>5, <1>6, <1>7, <1>8 DEF IInv

\* A Work finds that its stack is gone.
LEMMA SkipKeeps ==
    ASSUME IInv, NEW h \in Work, h = Head(batch), RunTask, ~Alive(h.who)
    PROVE  IInv'
<1>0. /\ TypeOK /\ IsFiniteSet(delayed)
      /\ Loop /\ Held /\ Once /\ Awaited /\ CancelsOnce /\ TimersSet
      /\ Counting /\ Ready /\ InTime /\ Quiet
    BY DEF IInv
<1>step.
      /\ pc = "run" /\ run = <<>> /\ Dying = {} /\ batch # <<>> /\ h.what \in Back
      /\ batch' = Tail(batch)
      /\ spent' = (IF h.what = "strong" THEN spent \cup {h.who} ELSE spent) /\ pc' = pc
      /\ run' = run /\ tasks' = tasks /\ delayed' = delayed /\ wake' = wake
      /\ stage' = stage /\ awaiter' = awaiter /\ guarded' = guarded /\ kept' = kept
      /\ handle' = handle
      /\ blocked' = blocked /\ away' = away /\ abroad' = abroad /\ counted' = counted
      /\ externalWork' = externalWork /\ idle' = idle /\ left' = left
    BY DEF RunTask, Execute, stacks, Back
<1>pick. PICK x \in Coroutines : x = h.who
    BY DEF Work
<1>work.
      /\ x = h.who /\ h \in Works /\ h.what \in Back
      /\ batch' \in Seq(Work) /\ ToSet(batch) = ToSet(batch)' \cup {h}
      /\ Works = Works' \cup {h}
      /\ \A y \in Coroutines : Queued(y, Back)' = Queued(y, Back) - (IF y = x THEN 1 ELSE 0)
      /\ \A c \in Children : Queued(c, {"cancel"})' = Queued(c, {"cancel"})
    BY <1>0, <1>step, <1>pick, TakeBack
<1>gone. stage[x] = "destroyed" /\ h.what = "weak"
    <2>1. x \notin Owned
        BY <1>0, <1>pick, AliveIs
    <2>2. h.what = "weak"
        BY <2>1, <1>work, OwnedIs DEF Back
    <2>3. stage[x] # "live"
        BY <2>1, <1>step DEF Dying
    <2>4. Places(x)
        BY <1>0, PlacesHold
    <2>5. Queued(x, Back) > 0
        BY <2>4, <1>work DEF Places
    <2>6. Ways(x) # 0
        BY <2>4, <2>5 DEF Places
    <2>. QED BY <2>2, <2>3, <2>6, <1>0 DEF Once, TypeOK
<1>same.
      /\ \A y : Sleeps(y)' = Sleeps(y)
      /\ \A y : Timeouts(y)' = Timeouts(y)
    BY <1>step, <1>work, SameSleeps, SameTimeouts
<1>ways. ASSUME NEW y \in Coroutines, y # x PROVE Ways(y)' = Ways(y)
    <2>1. Places(y)
        BY <1>0, PlacesHold
    <2>2. Ways(y)' = Number(run', {y}) + Queued(y, Back)' + Cardinality(Sleeps(y)')
                      + Cardinality(blocked' \cap {y}) + Cardinality(away' \cap {y})
                      + Cardinality(Timeouts(y)')
        BY WaysNext
    <2>3. /\ Queued(y, Back)' = Queued(y, Back)
          /\ Sleeps(y)' = Sleeps(y) /\ Timeouts(y)' = Timeouts(y)
          /\ run' = run /\ blocked' = blocked /\ away' = away
        <3>1. Queued(y, Back)' = Queued(y, Back) - 0
            BY <1>ways, <1>work
        <3>. QED BY <3>1, <2>1, <1>step, <1>same DEF Places
    <2>. QED BY <2>2, <2>3 DEF Ways, Back
<1>owned. Owned' = Owned
    <2>1. spent' = spent
        BY <1>step, <1>gone
    <2>2. \A w : w \in Works /\ w.what = "strong" <=> w \in Works' /\ w.what = "strong"
        BY <1>work, <1>gone
    <2>3. \A y : y \in Owned' <=> y \in Owned
        BY <2>1, <2>2, <1>step, OwnedIs, OwnedNext
    <2>. QED BY <2>3
<1>1. TypeOK' /\ IsFiniteSet(delayed)'
    BY <1>0, <1>step, <1>work, <1>gone DEF TypeOK
<1>2. Loop'
    BY <1>0, <1>step DEF Loop
<1>3. Held'
    BY <1>0, <1>owned, <1>step DEF Held
<1>4. Once'
    BY <1>0, <1>ways, <1>gone, <1>step DEF Once, Lost
<1>5. Awaited'
    BY <1>0, <1>work, <1>step DEF Awaited
<1>6. CancelsOnce' /\ TimersSet'
    <2>2. TimersSet'
        BY <1>gone, <1>0, <1>work, <1>step DEF TimersSet
    <2>. QED BY <2>2, <1>0, <1>work, <1>step DEF CancelsOnce
<1>7. Counting'
    BY <1>0, <1>work, <1>same, <1>step DEF Counting
<1>8. Ready' /\ InTime' /\ Quiet'
    <2>1. Ready' /\ InTime'
        BY <1>0, <1>step DEF Ready, InTime
    <2>2. (Over' <=> Over) /\ (Awaits' <=> Awaits)
        BY <1>step, <1>owned, AliveSame DEF Over, Awaits
    <2>. QED BY <2>1, <2>2, <1>0, <1>step, <1>gone DEF Quiet
<1>. QED BY <1>1, <1>2, <1>3, <1>4, <1>5, <1>6, <1>7, <1>8 DEF IInv

\* A Work that brings nobody back by itself is taken from the batch.
LEMMA TakeTimer ==
    ASSUME TypeOK, NEW h \in Work, h = Head(batch), NEW k \in {"timer", "cancel"},
           h.what = k, batch # <<>>, batch' = Tail(batch), tasks' = tasks
    PROVE  /\ h \in Works /\ batch' \in Seq(Work) /\ ToSet(batch) = ToSet(batch)' \cup {h}
           /\ Works = Works' \cup {h}
           /\ \A y \in Coroutines : Queued(y, Back)' = Queued(y, Back)
           /\ \A c \in Children : Queued(c, {"cancel"})' =
                  Queued(c, {"cancel"}) - (IF c = h.who /\ k = "cancel" THEN 1 ELSE 0)
<1>1. /\ batch' \in Seq(Work) /\ ToSet(batch) = ToSet(batch') \cup {h}
      /\ Works = Works' \cup {h}
      /\ \A y \in Coroutines : \A j \in SUBSET Whats : Queued(y, j)'
           = Queued(y, j) - Is(h, y, j)
    BY PopWork
<1>2. Back \in SUBSET Whats /\ {"cancel"} \in SUBSET Whats /\ k \notin Back
    BY DEF Back, Whats
<1>3. \A y : /\ Is(h, y, Back) = 0
             /\ Is(h, y, {"cancel"}) = IF y = h.who /\ k = "cancel" THEN 1 ELSE 0
    BY <1>2 DEF Is
<1>4. \A y \in Coroutines : Queued(y, Back) \in Nat
    BY <1>2, QueuedFacts DEF TypeOK
<1>5. ASSUME NEW y \in Coroutines PROVE Queued(y, Back)' = Queued(y, Back)
    <2>1. Queued(y, Back)' = Queued(y, Back) - 0
        BY <1>1, <1>2, <1>3
    <2>. QED BY <2>1, <1>4
<1>6. \A c \in Children : c \in Coroutines
    BY DEF Coroutines
<1>7. \A c \in Children : Queued(c, {"cancel"})' =
          Queued(c, {"cancel"}) - (IF c = h.who /\ k = "cancel" THEN 1 ELSE 0)
    BY <1>1, <1>2, <1>3, <1>6
<1>8. h \in Works
    BY <1>1
<1>. QED BY <1>1, <1>5, <1>7, <1>8

\* It is taken, and a cancellation is pushed.
LEMMA TurnTimer ==
    ASSUME TypeOK, NEW h \in Work, h = Head(batch), NEW k \in {"timer", "cancel"},
           h.what = k, h.who \in Children, batch # <<>>, batch' = Tail(batch),
           tasks' = Append(tasks, W(h.who, "cancel"))
    PROVE  /\ h \in Works /\ batch' \in Seq(Work) /\ ToSet(batch) = ToSet(batch)' \cup {h}
           /\ tasks' \in Seq(Work) /\ tasks' # <<>>
           /\ Works \cup {W(h.who, "cancel")} = Works' \cup {h}
           /\ \A y \in Coroutines : Queued(y, Back)' = Queued(y, Back)
           /\ \A c \in Children : Queued(c, {"cancel"})' =
                  Queued(c, {"cancel"}) + (IF c = h.who /\ k = "timer" THEN 1 ELSE 0)
<1>. DEFINE w == W(h.who, "cancel")
<1>1. w \in Work /\ w.who = h.who /\ w.what = "cancel" /\ tasks' = Append(tasks, w)
    BY DEF W, Work, Coroutines
<1>. HIDE DEF w
<1>2. /\ batch' \in Seq(Work) /\ ToSet(batch) = ToSet(batch') \cup {h}
      /\ tasks' \in Seq(Work) /\ tasks' # <<>> /\ Works \cup {w} = Works' \cup {h}
      /\ \A y \in Coroutines : \A j \in SUBSET Whats :
             Queued(y, j)' = Queued(y, j) - Is(h, y, j) + Is(w, y, j)
    BY <1>1, MoveWork
<1>3. Back \in SUBSET Whats /\ {"cancel"} \in SUBSET Whats /\ k \notin Back
        /\ "cancel" \notin Back
    BY DEF Back, Whats
<1>4. \A y : /\ Is(h, y, Back) = 0 /\ Is(w, y, Back) = 0
             /\ Is(h, y, {"cancel"}) = IF y = h.who /\ k = "cancel" THEN 1 ELSE 0
             /\ Is(w, y, {"cancel"}) = IF y = h.who THEN 1 ELSE 0
    BY <1>1, <1>3 DEF Is
<1>5. \A y \in Coroutines : Queued(y, Back) \in Nat /\ Queued(y, {"cancel"}) \in Nat
    BY <1>3, QueuedFacts DEF TypeOK
<1>6. ASSUME NEW y \in Coroutines PROVE Queued(y, Back)' = Queued(y, Back)
    <2>1. Queued(y, Back)' = Queued(y, Back) - 0 + 0
        BY <1>2, <1>3, <1>4
    <2>. QED BY <2>1, <1>5
<1>7. ASSUME NEW c \in Children
      PROVE  Queued(c, {"cancel"})'
               = Queued(c, {"cancel"}) + (IF c = h.who /\ k = "timer" THEN 1 ELSE 0)
    <2>1. c \in Coroutines
        BY DEF Coroutines
    <2>2. Queued(c, {"cancel"})' = Queued(c, {"cancel"})
              - (IF c = h.who /\ k = "cancel" THEN 1 ELSE 0) + (IF c = h.who THEN 1 ELSE 0)
        BY <2>1, <1>2, <1>3, <1>4
    <2>. QED BY <2>1, <2>2, <1>5
<1>8. h \in Works
    BY <1>2 DEF Works
<1>. QED BY <1>2, <1>6, <1>7, <1>8 DEF w

\* The timer is faster than the task: it removes the guard, and cancels.
LEMMA ClaimKeeps ==
    ASSUME IInv, NEW h \in Work, h = Head(batch), RunTimer, h.who \in guarded
    PROVE  IInv'
<1>0. /\ TypeOK /\ IsFiniteSet(delayed)
      /\ Loop /\ Held /\ Once /\ Awaited /\ CancelsOnce /\ TimersSet
      /\ Counting /\ Ready /\ InTime /\ Quiet
    BY DEF IInv
<1>step.
      /\ pc = "run" /\ run = <<>> /\ Dying = {} /\ batch # <<>> /\ h.what = "timer"
      /\ tasks' = Append(tasks, W(h.who, "cancel")) /\ batch' = Tail(batch)
      /\ guarded' = guarded \ {h.who} /\ pc' = pc /\ run' = run /\ spent' = spent
      /\ delayed' = delayed /\ wake' = wake /\ stage' = stage /\ awaiter' = awaiter
      /\ kept' = kept
      /\ handle' = handle /\ blocked' = blocked /\ away' = away /\ abroad' = abroad
      /\ counted' = counted /\ externalWork' = externalWork /\ idle' = idle
      /\ left' = left
    BY DEF RunTimer, Execute, Claims, outer
<1>c. h.who \in Children
    BY <1>0 DEF TypeOK
<1>work.
      /\ h \in Works /\ batch' \in Seq(Work) /\ ToSet(batch) = ToSet(batch)' \cup {h}
      /\ tasks' \in Seq(Work) /\ tasks' # <<>>
      /\ Works \cup {W(h.who, "cancel")} = Works' \cup {h}
      /\ \A y \in Coroutines : Queued(y, Back)' = Queued(y, Back)
      /\ \A c \in Children : Queued(c, {"cancel"})' =
             Queued(c, {"cancel"}) + (IF c = h.who THEN 1 ELSE 0)
    BY <1>0, <1>step, <1>c, TurnTimer
<1>cancels. \A c \in Children : Queued(c, {"cancel"}) \in Nat
    BY <1>0, QueuedFacts DEF TypeOK
<1>same.
      /\ \A y : Sleeps(y)' = Sleeps(y)
      /\ \A y : Timeouts(y)' = Timeouts(y)
    <2>1. \A c \in Children : c \in guarded' \/ Queued(c, {"cancel"})' > 0
                              <=> c \in guarded \/ Queued(c, {"cancel"}) > 0
        <3>. TAKE c \in Children
        <3>1. CASE c = h.who
            <4>1. Queued(c, {"cancel"})' = Queued(c, {"cancel"}) + 1
                BY <3>1, <1>work
            <4>2. Queued(c, {"cancel"})' > 0
                BY <4>1, <1>cancels
            <4>. QED BY <3>1, <4>2
        <3>2. CASE c # h.who
            <4>1. Queued(c, {"cancel"})' = Queued(c, {"cancel"}) + 0
                BY <3>2, <1>work
            <4>2. Queued(c, {"cancel"})' = Queued(c, {"cancel"})
                BY <4>1, <1>cancels
            <4>. QED BY <3>2, <4>2, <1>step
        <3>. QED BY <3>1, <3>2
    <2>2. \A y : Timeouts(y)' = Timeouts(y)
        BY <2>1, <1>step DEF Timeouts
    <2>. QED BY <2>2, <1>step, SameSleeps
<1>ways. \A y \in Coroutines : Ways(y)' = Ways(y)
    BY <1>step, <1>work, <1>same DEF Ways, Back
<1>owned. Owned' \subseteq Owned
    <2>1. \A w \in Works' : w.what = "strong" => w \in Works
        BY <1>work DEF W
    <2>. QED BY <2>1, <1>step, OwnedIs, OwnedNext
<1>1. TypeOK' /\ IsFiniteSet(delayed)'
    BY <1>0, <1>step, <1>work DEF TypeOK
<1>2. Loop'
    BY <1>0, <1>step DEF Loop
<1>3. Held'
    BY <1>0, <1>owned, <1>step DEF Held
<1>4. Once'
    BY <1>0, <1>ways, <1>step, OnceSame
<1>5. Awaited'
    <2>1. \A w \in Works' : w \in Works \/ w = W(h.who, "cancel")
        BY <1>work
    <2>2. awaiter[h.who] # {}
        BY <1>0, <1>work, <1>step DEF Awaited
    <2>. QED BY <2>1, <2>2, <1>0, <1>c, <1>step DEF Awaited, W
<1>6. CancelsOnce' /\ TimersSet'
    <2>1. ASSUME NEW c \in Children
          PROVE  /\ Queued(c, {"cancel"})' <= 1
                 /\ c \in guarded' => Queued(c, {"cancel"})' = 0
        <3>1. CASE c = h.who
            <4>1. Queued(c, {"cancel"})' = 0 + 1
                BY <3>1, <1>work, <1>0, <1>step DEF CancelsOnce
            <4>. QED BY <4>1, <3>1, <1>step
        <3>2. CASE c # h.who
            <4>1. Queued(c, {"cancel"})' = Queued(c, {"cancel"}) + 0
                BY <3>2, <1>work
            <4>2. Queued(c, {"cancel"})' = Queued(c, {"cancel"})
                BY <4>1, <1>cancels
            <4>. QED BY <4>2, <1>0, <1>step DEF CancelsOnce
        <3>. QED BY <3>1, <3>2
    <2>2. TimersSet'
        BY <1>0, <1>work, <1>step DEF TimersSet
    <2>. QED BY <2>1, <2>2 DEF CancelsOnce
<1>7. Counting'
    <2>1. \A w \in Works' : w.what = "strong" => w \in Works
        BY <1>work DEF W
    <2>. QED BY <2>1, <1>0, <1>same, <1>step DEF Counting
<1>8. Ready' /\ InTime' /\ Quiet'
    <2>1. Ready' /\ InTime'
        BY <1>0, <1>step DEF Ready, InTime
    <2>2. Over' <=> Over
        BY <1>step DEF Over
    <2>. QED BY <2>1, <2>2, <1>0, <1>step, <1>work DEF Quiet
<1>. QED BY <1>1, <1>2, <1>3, <1>4, <1>5, <1>6, <1>7, <1>8 DEF IInv

\* The task has been faster than its timer.
LEMMA LateTimerKeeps ==
    ASSUME IInv, NEW h \in Work, h = Head(batch), RunTimer, h.who \notin guarded
    PROVE  IInv'
<1>0. /\ TypeOK /\ IsFiniteSet(delayed)
      /\ Loop /\ Held /\ Once /\ Awaited /\ CancelsOnce /\ TimersSet
      /\ Counting /\ Ready /\ InTime /\ Quiet
    BY DEF IInv
<1>step.
      /\ pc = "run" /\ run = <<>> /\ Dying = {} /\ batch # <<>> /\ h.what = "timer"
      /\ batch' = Tail(batch) /\ pc' = pc /\ run' = run /\ tasks' = tasks
      /\ spent' = spent /\ delayed' = delayed /\ wake' = wake /\ stage' = stage
      /\ awaiter' = awaiter /\ guarded' = guarded /\ kept' = kept
      /\ handle' = handle /\ blocked' = blocked
      /\ away' = away /\ abroad' = abroad /\ counted' = counted
      /\ externalWork' = externalWork /\ idle' = idle /\ left' = left
    BY DEF RunTimer, Execute, Claims, outer
<1>work.
      /\ h \in Works /\ batch' \in Seq(Work) /\ ToSet(batch) = ToSet(batch)' \cup {h}
      /\ Works = Works' \cup {h}
      /\ \A y \in Coroutines : Queued(y, Back)' = Queued(y, Back)
      /\ \A c \in Children : Queued(c, {"cancel"})' = Queued(c, {"cancel"})
    <2>1. \A c \in Children : Queued(c, {"cancel"})' = Queued(c, {"cancel"}) - 0
        BY <1>0, <1>step, TakeTimer
    <2>2. \A c \in Children : Queued(c, {"cancel"}) \in Nat
        BY <1>0, QueuedFacts DEF TypeOK
    <2>3. \A c \in Children : Queued(c, {"cancel"})' = Queued(c, {"cancel"})
        BY <2>1, <2>2
    <2>. QED BY <2>3, <1>0, <1>step, TakeTimer
<1>same.
      /\ \A y : Sleeps(y)' = Sleeps(y)
      /\ \A y : Timeouts(y)' = Timeouts(y)
    BY <1>step, <1>work, SameSleeps, SameTimeouts
<1>ways. \A y \in Coroutines : Ways(y)' = Ways(y)
    BY <1>step, <1>work, <1>same DEF Ways, Back
<1>owned. Owned' = Owned
    <2>1. \A w : w \in Works /\ w.what = "strong" <=> w \in Works' /\ w.what = "strong"
        BY <1>work, <1>step
    <2>2. \A x : x \in Owned' <=> x \in Owned
        BY <2>1, <1>step, OwnedIs, OwnedNext
    <2>. QED BY <2>2
<1>1. TypeOK' /\ IsFiniteSet(delayed)'
    BY <1>0, <1>step, <1>work DEF TypeOK
<1>2. Loop'
    BY <1>0, <1>step DEF Loop
<1>3. Held'
    BY <1>0, <1>owned, <1>step DEF Held
<1>4. Once'
    BY <1>0, <1>ways, <1>step, OnceSame
<1>5. Awaited'
    BY <1>0, <1>work, <1>step DEF Awaited
<1>6. CancelsOnce' /\ TimersSet'
    <2>1. TimersSet'
        BY <1>0, <1>work, <1>step DEF TimersSet
    <2>. QED BY <2>1, <1>0, <1>work, <1>step DEF CancelsOnce
<1>7. Counting'
    BY <1>0, <1>work, <1>same, <1>step DEF Counting
<1>8. Ready' /\ InTime' /\ Quiet'
    <2>1. Ready' /\ InTime'
        BY <1>0, <1>step DEF Ready, InTime
    <2>2. (Over' <=> Over) /\ (Awaits' <=> Awaits)
        BY <1>step, <1>owned, AliveSame DEF Over, Awaits
    <2>. QED BY <2>1, <2>2, <1>0, <1>step DEF Quiet
<1>. QED BY <1>1, <1>2, <1>3, <1>4, <1>5, <1>6, <1>7, <1>8 DEF IInv

\* A cancellation waits for the stack to be gone.
LEMMA CancelAgainKeeps ==
    ASSUME IInv, NEW h \in Work, h = Head(batch), RunCancel, Alive(h.who)
    PROVE  IInv'
<1>0. /\ TypeOK /\ IsFiniteSet(delayed)
      /\ Loop /\ Held /\ Once /\ Awaited /\ CancelsOnce /\ TimersSet
      /\ Counting /\ Ready /\ InTime /\ Quiet
    BY DEF IInv
<1>step.
      /\ pc = "run" /\ run = <<>> /\ Dying = {} /\ batch # <<>> /\ h.what = "cancel"
      /\ tasks' = Append(tasks, W(h.who, "cancel")) /\ batch' = Tail(batch) /\ pc' = pc
      /\ run' = run /\ spent' = spent /\ delayed' = delayed /\ wake' = wake
      /\ stage' = stage /\ awaiter' = awaiter /\ guarded' = guarded /\ kept' = kept
      /\ handle' = handle
      /\ blocked' = blocked /\ away' = away /\ abroad' = abroad /\ counted' = counted
      /\ externalWork' = externalWork /\ idle' = idle /\ left' = left
    BY DEF RunCancel, Execute, outer, stacks
<1>c. h.who \in Children
    <2>1. h \in Works
        BY <1>0, <1>step, TailOne DEF TypeOK, Works
    <2>. QED BY <2>1, <1>0, <1>step DEF Awaited
<1>h. h = W(h.who, "cancel")
    BY <1>step DEF Work, W
<1>work.
      /\ h \in Works /\ batch' \in Seq(Work) /\ ToSet(batch) = ToSet(batch)' \cup {h}
      /\ tasks' \in Seq(Work) /\ tasks' # <<>> /\ Works = Works' \cup {h}
      /\ \A y \in Coroutines : Queued(y, Back)' = Queued(y, Back)
      /\ \A c \in Children : Queued(c, {"cancel"})' = Queued(c, {"cancel"})
    <2>1. /\ h \in Works /\ batch' \in Seq(Work) /\ ToSet(batch) = ToSet(batch)' \cup {h}
          /\ tasks' \in Seq(Work) /\ tasks' # <<>>
          /\ Works \cup {W(h.who, "cancel")} = Works' \cup {h}
          /\ \A y \in Coroutines : Queued(y, Back)' = Queued(y, Back)
          /\ \A c \in Children : Queued(c, {"cancel"})' = Queued(c, {"cancel"}) + 0
        BY <1>0, <1>step, <1>c, TurnTimer
    <2>2. \A c \in Children : Queued(c, {"cancel"}) \in Nat
        BY <1>0, QueuedFacts DEF TypeOK
    <2>3. \A c \in Children : Queued(c, {"cancel"})' = Queued(c, {"cancel"})
        BY <2>1, <2>2
    <2>. QED BY <2>1, <2>3, <1>h
<1>same.
      /\ \A y : Sleeps(y)' = Sleeps(y)
      /\ \A y : Timeouts(y)' = Timeouts(y)
    BY <1>step, <1>work, SameSleeps, SameTimeouts
<1>ways. \A y \in Coroutines : Ways(y)' = Ways(y)
    BY <1>step, <1>work, <1>same DEF Ways, Back
<1>owned. Owned' = Owned
    <2>1. \A w : w \in Works /\ w.what = "strong" <=> w \in Works' /\ w.what = "strong"
        BY <1>work, <1>step
    <2>2. \A x : x \in Owned' <=> x \in Owned
        BY <2>1, <1>step, OwnedIs, OwnedNext
    <2>. QED BY <2>2
<1>1. TypeOK' /\ IsFiniteSet(delayed)'
    BY <1>0, <1>step, <1>work DEF TypeOK
<1>2. Loop'
    BY <1>0, <1>step DEF Loop
<1>3. Held'
    BY <1>0, <1>owned, <1>step DEF Held
<1>4. Once'
    BY <1>0, <1>ways, <1>step, OnceSame
<1>5. Awaited'
    BY <1>0, <1>work, <1>step DEF Awaited
<1>6. CancelsOnce' /\ TimersSet'
    <2>1. TimersSet'
        BY <1>0, <1>work, <1>step DEF TimersSet
    <2>. QED BY <2>1, <1>0, <1>work, <1>step DEF CancelsOnce
<1>7. Counting'
    BY <1>0, <1>work, <1>same, <1>step DEF Counting
<1>8. Ready' /\ InTime' /\ Quiet'
    <2>1. Ready' /\ InTime'
        BY <1>0, <1>step DEF Ready, InTime
    <2>2. (Over' <=> Over) /\ (Awaits' <=> Awaits)
        BY <1>step, <1>owned, AliveSame DEF Over, Awaits
    <2>. QED BY <2>1, <2>2, <1>0, <1>step DEF Quiet
<1>. QED BY <1>1, <1>2, <1>3, <1>4, <1>5, <1>6, <1>7, <1>8 DEF IInv

\* A cancellation continues who has awaited.
LEMMA CancelKeeps ==
    ASSUME IInv, NEW h \in Work, h = Head(batch), RunCancel, ~Alive(h.who)
    PROVE  IInv'
<1>0. /\ TypeOK /\ IsFiniteSet(delayed)
      /\ Loop /\ Held /\ Once /\ Awaited /\ CancelsOnce /\ TimersSet
      /\ Counting /\ Ready /\ InTime /\ Quiet
    BY DEF IInv
<1>pick. PICK p \in awaiter[h.who] : run' = IF Alive(p) THEN <<p>> ELSE run
    BY DEF RunCancel
<1>c. PICK c \in Children : c = h.who
    <2>1. h \in Works
        BY <1>0, TailOne DEF RunCancel, Execute, TypeOK, Works
    <2>2. h.what = "cancel"
        BY DEF RunCancel, Execute
    <2>. QED BY <2>1, <2>2, <1>0 DEF Awaited
<1>step.
      /\ pc = "run" /\ run = <<>> /\ Dying = {} /\ batch # <<>> /\ h.what = "cancel"
      /\ p \in awaiter[c] /\ run' = (IF Alive(p) THEN <<p>> ELSE run)
      /\ batch' = Tail(batch) /\ pc' = pc /\ tasks' = tasks /\ spent' = spent
      /\ delayed' = delayed /\ wake' = wake /\ stage' = stage /\ awaiter' = awaiter
      /\ guarded' = guarded /\ kept' = kept
      /\ handle' = handle /\ blocked' = blocked /\ away' = away
      /\ abroad' = abroad /\ counted' = counted /\ externalWork' = externalWork
      /\ idle' = idle /\ left' = left
    BY <1>pick, <1>c DEF RunCancel, Execute, outer, stacks
<1>work.
      /\ h \in Works /\ batch' \in Seq(Work) /\ ToSet(batch) = ToSet(batch)' \cup {h}
      /\ Works = Works' \cup {h}
      /\ \A y \in Coroutines : Queued(y, Back)' = Queued(y, Back)
      /\ Queued(c, {"cancel"}) = 1 /\ Queued(c, {"cancel"})' = 0
      /\ \A e \in Children : e # c => Queued(e, {"cancel"})' = Queued(e, {"cancel"})
    <2>1. \A e \in Children : Queued(e, {"cancel"})'
                                = Queued(e, {"cancel"}) - (IF e = c THEN 1 ELSE 0)
        BY <1>0, <1>step, <1>c, TakeTimer
    <2>2. \A e \in Children : Queued(e, {"cancel"}) \in Nat
        BY <1>0, QueuedFacts DEF TypeOK
    <2>3. h \in Works
        BY <1>0, <1>step, TakeTimer
    <2>4. Queued(c, {"cancel"}) > 0
        BY <2>3, <1>0, <1>c, <1>step, QueuedFacts DEF TypeOK
    <2>5. Queued(c, {"cancel"}) = 1
        BY <2>2, <2>4, <1>0 DEF CancelsOnce
    <2>6. Queued(c, {"cancel"})' = 1 - 1
        BY <2>1, <2>5
    <2>7. ASSUME NEW e \in Children, e # c
          PROVE  Queued(e, {"cancel"})' = Queued(e, {"cancel"})
        <3>1. Queued(e, {"cancel"})' = Queued(e, {"cancel"}) - 0
            BY <2>7, <2>1
        <3>. QED BY <3>1, <2>2
    <2>. QED BY <2>5, <2>6, <2>7, <1>0, <1>step, TakeTimer
<1>p. p \in Coroutines /\ c \in Timeouts(p) /\ c \notin guarded
        /\ \A q \in awaiter[c] : q = p
    BY <1>0, <1>step, <1>work DEF Timeouts, CancelsOnce, Awaited, TypeOK
<1>sleeps. \A y : Sleeps(y)' = Sleeps(y)
    BY <1>step, SameSleeps
<1>timeouts.
      /\ Timeouts(p)' = Timeouts(p) \ {c}
      /\ \A y : Timeouts(y)' \subseteq Timeouts(y)
      /\ \A y : y # p => Timeouts(y)' = Timeouts(y)
    <2>1. \A y : Timeouts(y)' = Timeouts(y) \ {c}
        BY <1>step, <1>work, <1>p DEF Timeouts
    <2>2. \A y : y # p => c \notin Timeouts(y)
        BY <1>p DEF Timeouts
    <2>. QED BY <2>1, <2>2
<1>others. ASSUME NEW y \in Coroutines, y # p PROVE Ways(y)' = Ways(y)
    <2>1. Places(y)
        BY <1>0, PlacesHold
    <2>2. Ways(y)' = Number(run', {y}) + Queued(y, Back)' + Cardinality(Sleeps(y)')
                      + Cardinality(blocked' \cap {y}) + Cardinality(away' \cap {y})
                      + Cardinality(Timeouts(y)')
        BY WaysNext
    <2>3. Number(run', {y}) = 0 /\ Number(run, {y}) = 0
        BY <1>others, <1>step, <1>p, OneRuns, EmptyHasNone
    <2>4. /\ Queued(y, Back)' = Queued(y, Back) /\ Sleeps(y)' = Sleeps(y)
          /\ Timeouts(y)' = Timeouts(y) /\ blocked' = blocked /\ away' = away
        BY <1>others, <1>step, <1>work, <1>sleeps, <1>timeouts
    <2>. QED BY <2>1, <2>2, <2>3, <2>4 DEF Places
<1>going. Ways(p) > 0
    <2>1. Places(p)
        BY <1>0, <1>p, PlacesHold
    <2>. QED BY <2>1, <1>p DEF Places
<1>alive. ASSUME Alive(p)
          PROVE  /\ stage[p] = "live" /\ p \in Owned /\ Ways(p)' = Ways(p) /\ Ways(p) = 1
                      /\ idle = 0
                 /\ p \notin counted
    <2>1. stage[p] = "live" /\ p \in Owned /\ Ways(p) = 1
        BY <1>alive, <1>going, <1>p, GoingOn
    <2>2. idle = 0
        BY <2>1, <1>0, <1>p DEF Quiet, Over, TypeOK
    <2>3. p \notin counted
        BY <1>0, <1>p DEF Counting
    <2>4. Places(p)
        BY <1>0, <1>p, PlacesHold
    <2>5. Ways(p)'
            = 1 + Queued(p, Back) + Cardinality(Sleeps(p)) + Cardinality(blocked \cap {p})
                     + Cardinality(away \cap {p}) + Cardinality(Timeouts(p) \ {c})
        <3>1. Number(run', {p}) = 1
            BY <1>alive, <1>step, <1>p, OneRuns
        <3>. QED BY <3>1, <1>step, <1>work, <1>sleeps, <1>timeouts, <1>p, WaysNext
    <2>6. Cardinality(Timeouts(p) \ {c}) = Cardinality(Timeouts(p)) - 1
        BY <2>4, <1>p, FS_RemoveElement DEF Places
    <2>7. Number(run, {p}) = 0
        BY <1>step, EmptyHasNone
    <2>8. Ways(p)' = Ways(p)
        BY <2>4, <2>5, <2>6, <2>7 DEF Places
    <2>. QED BY <2>1, <2>2, <2>3, <2>8
<1>dead. ASSUME ~Alive(p) PROVE stage[p] = "destroyed" /\ run' = run
    <2>1. p \notin Owned
        BY <1>dead, <1>0, <1>p, AliveIs
    <2>2. stage[p] # "live"
        BY <2>1, <1>p, <1>step DEF Dying
    <2>3. stage[p] \in {"absent", "live", "finished", "destroyed"}
        BY <1>0, <1>p DEF TypeOK
    <2>4. stage[p] \notin {"absent", "finished"}
        BY <1>going, <1>0, <1>p DEF Once
    <2>. QED BY <2>2, <2>3, <2>4, <1>dead, <1>step
<1>owned. Owned' \subseteq Owned /\ (~Alive(p) => Owned' = Owned)
    <2>1. \A w : w \in Works /\ w.what = "strong" <=> w \in Works' /\ w.what = "strong"
        BY <1>work, <1>step
    <2>2. Alive(p) => ToSet(run') = {p} /\ p \in Owned
        BY <1>alive, <1>step, <1>p, OneRuns
    <2>3. ~Alive(p) => run' = run
        BY <1>dead
    <2>4. ASSUME NEW x, x \in Owned' PROVE x \in Owned
        <3>1. CASE x \in ToSet(run')
            BY <3>1, <2>2, <2>3, OwnedIs
        <3>2. CASE x \notin ToSet(run')
            BY <3>2, <2>4, <2>1, <1>step, OwnedIs, OwnedNext
        <3>. QED BY <3>1, <3>2
    <2>5. ~Alive(p) => \A x : x \in Owned => x \in Owned'
        BY <2>1, <2>3, <1>step, OwnedIs, OwnedNext
    <2>. QED BY <2>4, <2>5
<1>1. TypeOK' /\ IsFiniteSet(delayed)'
    <2>1. run' \in Seq(Coroutines)
        BY <1>0, <1>step, <1>p, OneRuns DEF TypeOK
    <2>. QED BY <2>1, <1>0, <1>step, <1>work DEF TypeOK
<1>2. Loop'
    BY <1>0, <1>step DEF Loop
<1>3. Held'
    BY <1>0, <1>owned, <1>step DEF Held
<1>4. Once'
    <2>1. ASSUME NEW y \in Coroutines, stage[y] # "destroyed" PROVE Ways(y)' = Ways(y)
        BY <2>1, <1>others, <1>alive, <1>dead
    <2>. QED BY <2>1, <1>0, <1>step DEF Once, Lost
<1>5. Awaited'
    BY <1>0, <1>work, <1>step DEF Awaited
<1>6. CancelsOnce' /\ TimersSet'
    <2>1. TimersSet'
        BY <1>0, <1>work, <1>step DEF TimersSet
    <2>2. ASSUME NEW e \in Children
          PROVE  Queued(e, {"cancel"})' <= 1
                   /\ (e \in guarded' => Queued(e, {"cancel"})' = 0)
        <3>1. e = c => Queued(e, {"cancel"})' = 0
            BY <1>work
        <3>2. e # c => Queued(e, {"cancel"})' = Queued(e, {"cancel"})
            BY <1>work
        <3>. QED BY <3>1, <3>2, <1>0, <1>step DEF CancelsOnce
    <2>. QED BY <2>1, <2>2 DEF CancelsOnce
<1>7. Counting'
    <2>1. \A y \in counted : y \notin ToSet(run') /\ Timeouts(y)' = {}
        <3>1. Alive(p) => ToSet(run') = {p} /\ p \notin counted
            BY <1>alive, <1>step, <1>p, OneRuns
        <3>2. ~Alive(p) => run' = run
            BY <1>dead
        <3>. QED BY <3>1, <3>2, <1>timeouts, <1>0 DEF Counting
    <2>. QED BY <2>1, <1>0, <1>work, <1>step DEF Counting
<1>8. Ready' /\ InTime' /\ Quiet'
    <2>1. Ready' /\ InTime'
        BY <1>0, <1>step DEF Ready, InTime
    <2>2. Over' <=> Over
        BY <1>step DEF Over
    <2>3. ~Alive(p) => (Awaits' <=> Awaits)
        BY <1>step, <1>owned, AliveSame DEF Awaits
    <2>4. ASSUME Alive(p) PROVE Quiet'
        BY <2>4, <1>alive, <1>step DEF Quiet
    <2>5. ASSUME ~Alive(p) PROVE Quiet'
        BY <2>2, <2>3, <2>5, <1>0, <1>step DEF Quiet
    <2>. QED BY <2>1, <2>4, <2>5
<1>. QED BY <1>1, <1>2, <1>3, <1>4, <1>5, <1>6, <1>7, <1>8 DEF IInv

-----------------------------------------------------------------------------
(***************************************************************************)
(* The priority queue                                                      *)
(***************************************************************************)

\* The priority queue gives every element once, the earliest first.
LEMMA InOrder ==
    ASSUME IsFiniteSet(delayed), NEW s \in Orders
    PROVE  /\ Len(s) \in Nat /\ DOMAIN s = 1..Len(s)
           /\ \A i \in 1..Len(s) : s[i] \in delayed
           /\ \A i, j \in 1..Len(s) : i # j => s[i] # s[j]
           /\ \A i, j \in 1..Len(s) : i < j => s[i].in <= s[j].in
           /\ \A d \in delayed : \E i \in 1..Len(s) : s[i] = d
<1>. DEFINE N == Cardinality(delayed)
<1>1. N \in Nat
    BY FS_CardinalityType
<1>2. /\ s \in [1..N -> delayed] /\ \A i, j \in 1..N : i # j => s[i] # s[j]
      /\ \A i, j \in DOMAIN s : i < j => s[i].in <= s[j].in
    BY DEF Orders, SetToSeqs
<1>3. s \in Injection(1..N, delayed)
    BY <1>2 DEF Injection, IsInjective
<1>4. Cardinality(1..N) = N
    BY <1>1, FS_Interval
<1>. HIDE DEF N
<1>5. s \in Surjection(1..N, delayed)
    <2>1. Cardinality(delayed) = N
        BY DEF N
    <2>. QED BY <2>1, <1>3, <1>4, FS_Injection
<1>6. \A d \in delayed : \E i \in 1..N : s[i] = d
    BY <1>5 DEF Surjection
<1>7. Len(s) = N /\ DOMAIN s = 1..N
    <2>1. s \in Seq(delayed)
        BY <1>1, <1>2, SeqDef
    <2>. QED BY <2>1, <1>1, <1>2, LenProperties
<1>. QED BY <1>1, <1>2, <1>6, <1>7

\* The first n of a sequence.
Taken(s, n) == {s[i] : i \in 1..n}
\* The Works that a sequence of delayed ones becomes.
AsWork(s, n) == [i \in 1..n |-> W(s[i].who, s[i].what)]

\* What is taken from it is queued, each element once.
LEMMA TakenOnce ==
    ASSUME TypeOK, IsFiniteSet(delayed), NEW s \in Orders, NEW n \in 0..Len(s)
    PROVE  /\ Taken(s, n) \subseteq delayed
           /\ AsWork(s, n) \in Seq(Work)
           /\ ToSet(AsWork(s, n)) = {W(d.who, d.what) : d \in Taken(s, n)}
           /\ \A x : Number(AsWork(s, n), Of(x, Back))
                = Cardinality(Sleeps(x) \cap Taken(s, n))
           /\ \A x : Number(AsWork(s, n), Of(x, {"cancel"})) = 0
<1>. DEFINE t == AsWork(s, n)
            T == Taken(s, n)
<1>1. /\ Len(s) \in Nat /\ n \in Nat /\ n <= Len(s)
      /\ \A i \in 1..n : i \in 1..Len(s) /\ s[i] \in delayed
      /\ \A i, j \in 1..n : i # j => s[i] # s[j]
    BY InOrder
<1>2. /\ \A i \in 1..n : s[i] \in Delayed /\ W(s[i].who, s[i].what) \in Work
    <2>1. \A d \in Delayed : W(d.who, d.what) \in Work
        BY DEF Delayed, Work, W
    <2>. QED BY <2>1, <1>1 DEF TypeOK
<1>3. T \subseteq delayed
    BY <1>1 DEF Taken
<1>4. t \in Seq(Work) /\ DOMAIN t = 1..n /\ \A i \in 1..n : t[i] = W(s[i].who, s[i].what)
    <2>1. t \in [1..n -> Work] /\ \A i \in 1..n : t[i] = W(s[i].who, s[i].what)
        BY <1>2 DEF AsWork
    <2>. QED BY <2>1, <1>1, SeqDef
<1>. HIDE DEF t
<1>5. ToSet(t) = {W(d.who, d.what) : d \in T}
    BY <1>4 DEF ToSet, Taken
<1>6. ASSUME NEW x PROVE Number(t, Of(x, Back)) = Cardinality(Sleeps(x) \cap T)
    <2>. DEFINE A == At(t, Of(x, Back))
                B == Sleeps(x) \cap T
                f == [i \in A |-> s[i]]
    <2>1. \A i \in 1..n : t[i] \in Of(x, Back) <=> s[i].who = x /\ s[i].what = "weak"
        <3>1. \A i \in 1..n : t[i] \in Work /\ t[i].who = s[i].who /\ t[i].what = s[i].what
            BY <1>2, <1>4 DEF W
        <3>2. \A w \in Work : w \in Of(x, Back) <=> w.who = x /\ w.what \in Back
            BY DEF Work, Of
        <3>3. \A i \in 1..n : s[i].what \in Back <=> s[i].what = "weak"
            BY <1>2 DEF Delayed, Back
        <3>. QED BY <3>1, <3>2, <3>3
    <2>2. A = {i \in 1..n : s[i].who = x /\ s[i].what = "weak"}
        BY <2>1, <1>4 DEF At
    <2>3. IsFiniteSet(A) /\ Number(t, Of(x, Back)) = Cardinality(A)
        BY <1>4, AtFinite
    <2>. HIDE DEF A
    <2>4. f \in [A -> B]
        BY <2>2, <1>1 DEF Sleeps, Taken
    <2>5. \A i, j \in A : f[i] = f[j] => i = j
        BY <2>2, <1>1
    <2>6. \A d \in B : \E i \in A : f[i] = d
        BY <2>2 DEF Sleeps, Taken
    <2>. HIDE DEF B
    <2>7. f \in Bijection(A, B)
        BY <2>4, <2>5, <2>6 DEF Bijection, Injection, Surjection, IsInjective
    <2>8. ExistsBijection(A, B)
        BY <2>7 DEF ExistsBijection
    <2>9. Cardinality(B) = Cardinality(A)
        BY <2>3, <2>8, FS_Bijection
    <2>. QED BY <2>3, <2>9 DEF B
<1>7. ASSUME NEW x PROVE Number(t, Of(x, {"cancel"})) = 0
    <2>1. \A e \in ToSet(t) : e \notin Of(x, {"cancel"})
        BY <1>2, <1>4 DEF ToSet, Of, W, Delayed
    <2>2. Number(t, Of(x, {"cancel"})) \in Nat /\ ~(Number(t, Of(x, {"cancel"})) > 0)
        BY <2>1, <1>4, NumberZero, AtFinite
    <2>. QED BY <2>2
<1>. QED BY <1>3, <1>4, <1>5, <1>6, <1>7 DEF t

\* The queue and what is due are taken.
LEMMA SwapKeeps ==
    ASSUME IInv, Swap
    PROVE  IInv'
<1>0. /\ TypeOK /\ IsFiniteSet(delayed)
      /\ Loop /\ Held /\ Once /\ Awaited /\ CancelsOnce /\ TimersSet
      /\ Counting /\ Ready /\ InTime /\ Quiet
    BY DEF IInv
<1>order. PICK s \in Orders :
              \E n \in 0..Len(s) :
                 /\ n < Len(s) => ~Prunable(s[n + 1])
                 /\ batch' = tasks \o AsWork(s, n)
                 /\ delayed' = delayed \ Taken(s, n)
    BY DEF Swap, AsWork, Taken
<1>pick. PICK n \in 0..Len(s) :
             /\ n < Len(s) => ~Prunable(s[n + 1])
             /\ batch' = tasks \o AsWork(s, n)
             /\ delayed' = delayed \ Taken(s, n)
    BY <1>order
<1>step.
      /\ pc = "swap" /\ Dying = {} /\ pc' = "run" /\ tasks' = <<>>
      /\ batch' = tasks \o AsWork(s, n) /\ delayed' = delayed \ Taken(s, n)
      /\ run' = run /\ spent' = spent /\ wake' = wake /\ stage' = stage
      /\ awaiter' = awaiter /\ guarded' = guarded /\ kept' = kept
      /\ handle' = handle /\ blocked' = blocked
      /\ away' = away /\ abroad' = abroad /\ counted' = counted
      /\ externalWork' = externalWork /\ idle' = idle /\ left' = left
    BY <1>pick DEF Swap, stacks, outer
<1>loop. batch = <<>> /\ spent = {} /\ run = <<>>
    BY <1>0, <1>step DEF Loop
<1>. DEFINE t == AsWork(s, n)
            T == Taken(s, n)
<1>taken. /\ T \subseteq delayed /\ t \in Seq(Work)
          /\ ToSet(t) = {W(d.who, d.what) : d \in T}
          /\ \A x : Number(t, Of(x, Back)) = Cardinality(Sleeps(x) \cap T)
          /\ \A x : Number(t, Of(x, {"cancel"})) = 0
    BY <1>0, TakenOnce
<1>t. batch' = tasks \o t /\ delayed' = delayed \ T
    BY <1>step
<1>d. \A d \in delayed : d \in Delayed /\ d.what \in {"weak", "timer"}
    BY <1>0 DEF TypeOK, Delayed
<1>rest. /\ \A d \in delayed' : d.in > 0
         /\ delayed' = {} \/ \E d \in delayed' : ~Canceled(d)
    <2>1. /\ Len(s) \in Nat /\ n \in Nat /\ n <= Len(s)
          /\ \A i \in 1..Len(s) : s[i] \in delayed
          /\ \A i, j \in 1..Len(s) : i # j => s[i] # s[j]
          /\ \A i, j \in 1..Len(s) : i < j => s[i].in <= s[j].in
          /\ \A d \in delayed : \E i \in 1..Len(s) : s[i] = d
        BY <1>0, InOrder
    <2>2. \A d \in delayed' : \E i \in 1..Len(s) : s[i] = d /\ n < i
        <3>. SUFFICES ASSUME NEW d \in delayed' PROVE \E i \in 1..Len(s) : s[i] = d /\ n < i
            OBVIOUS
        <3>1. PICK i \in 1..Len(s) : s[i] = d
            BY <2>1, <1>t
        <3>2. ~(i \in 1..n)
            BY <3>1, <1>t DEF Taken
        <3>. QED BY <3>1, <3>2, <2>1
    <2>3. CASE n < Len(s)
        <3>1. n + 1 \in 1..Len(s) /\ s[n + 1] \in delayed
            BY <2>1, <2>3
        <3>2. s[n + 1] \notin T
            BY <2>1, <3>1 DEF Taken
        <3>3. s[n + 1] \in delayed'
            BY <3>1, <3>2, <1>t
        <3>4. ~(s[n + 1].in <= 0) /\ ~Canceled(s[n + 1])
            BY <2>3, <1>pick DEF Prunable
        <3>5. ASSUME NEW d \in delayed' PROVE d.in > 0
            <4>1. PICK i \in 1..Len(s) : s[i] = d /\ n < i
                BY <2>2
            <4>2. s[n + 1].in \in Int /\ s[i].in \in Int
                BY <2>1, <3>1, <1>d DEF Delayed
            <4>3. s[n + 1].in <= s[i].in
                <5>1. CASE i = n + 1
                    BY <5>1, <4>2
                <5>2. CASE i # n + 1
                    <6>1. n + 1 < i
                        BY <4>1, <5>2, <2>1
                    <6>. QED BY <6>1, <2>1, <3>1
                <5>. QED BY <5>1, <5>2
            <4>4. s[i].in > 0
                BY <4>2, <4>3, <3>4
            <4>. QED BY <4>1, <4>4
        <3>. QED BY <3>3, <3>4, <3>5
    <2>4. CASE ~(n < Len(s))
        <3>1. delayed' = {}
            BY <2>1, <2>2, <2>4
        <3>. QED BY <3>1
    <2>. QED BY <2>3, <2>4
<1>. HIDE DEF t, T
<1>works.
      /\ batch' \in Seq(Work) /\ ToSet(batch)' = ToSet(tasks) \cup ToSet(t)
      /\ \A V : Number(batch', V) = Number(tasks, V) + Number(t, V)
    <2>1. tasks \in Seq(Work)
        BY <1>0 DEF TypeOK
    <2>. QED BY <2>1, <1>t, <1>taken, ConcatJoins
<1>work.
      /\ Works = ToSet(tasks) /\ Works' = Works \cup ToSet(t)
      /\ \A x : Queued(x, Back)' = Queued(x, Back) + Cardinality(Sleeps(x) \cap T)
      /\ \A x : Queued(x, {"cancel"})' = Queued(x, {"cancel"})
    <2>1. Works = ToSet(tasks) /\ Works' = Works \cup ToSet(t)
        BY <1>works, <1>loop, <1>step, EmptyHasNone DEF Works
    <2>2. \A V : Number(tasks, V) \in Nat /\ Number(t, V) \in Nat
        BY <1>0, <1>taken, AtFinite DEF TypeOK
    <2>3. \A x, k : /\ Queued(x, k) = Number(tasks, Of(x, k)) + Number(batch, Of(x, k))
                    /\ Queued(x, k)' = Number(tasks', Of(x, k)) + Number(batch', Of(x, k))
        BY DEF Queued, Of
    <2>4. \A x, k : /\ Queued(x, k) = Number(tasks, Of(x, k))
                    /\ Queued(x, k)' = Number(tasks, Of(x, k)) + Number(t, Of(x, k))
        <3>1. \A V : Number(batch, V) = 0 /\ Number(tasks', V) = 0
            BY <1>loop, <1>step, EmptyHasNone
        <3>2. ASSUME NEW x, NEW k
              PROVE  /\ Queued(x, k) = Number(tasks, Of(x, k)) + 0
                     /\ Queued(x, k)' = 0 + (Number(tasks, Of(x, k)) + Number(t, Of(x, k)))
            BY <2>3, <3>1, <1>works
        <3>3. ASSUME NEW x, NEW k
              PROVE  /\ Queued(x, k) = Number(tasks, Of(x, k))
                     /\ Queued(x, k)' = Number(tasks, Of(x, k)) + Number(t, Of(x, k))
            BY <3>2, <2>2
        <3>. QED BY <3>3
    <2>5. \A x : Queued(x, Back)' = Queued(x, Back) + Cardinality(Sleeps(x) \cap T)
        BY <2>4, <1>taken
    <2>6. ASSUME NEW x PROVE Queued(x, {"cancel"})' = Queued(x, {"cancel"})
        <3>1. Queued(x, {"cancel"})' = Number(tasks, Of(x, {"cancel"})) + 0
            BY <2>4, <1>taken
        <3>2. Queued(x, {"cancel"})' = Number(tasks, Of(x, {"cancel"}))
            BY <3>1, <2>2
        <3>. QED BY <3>2, <2>4
    <2>. QED BY <2>1, <2>5, <2>6
<1>weak. \A w \in ToSet(t) : w.what # "strong" /\ w.what # "cancel"
    BY <1>taken, <1>d DEF W
<1>timeouts. \A y : Timeouts(y)' = Timeouts(y)
    BY <1>step, <1>work, SameTimeouts
<1>ways. ASSUME NEW y \in Coroutines PROVE Ways(y)' = Ways(y)
    <2>1. Places(y)
        BY <1>0, PlacesHold
    <2>2. Ways(y)' = Number(run', {y}) + Queued(y, Back)' + Cardinality(Sleeps(y)')
                      + Cardinality(blocked' \cap {y}) + Cardinality(away' \cap {y})
                      + Cardinality(Timeouts(y)')
        BY WaysNext
    <2>3. Sleeps(y)' = Sleeps(y) \ T
        BY <1>t DEF Sleeps
    <2>4. /\ Cardinality(Sleeps(y) \ T)
               = Cardinality(Sleeps(y)) - Cardinality(Sleeps(y) \cap T)
          /\ Cardinality(Sleeps(y) \cap T) \in Nat
        <3>1. IsFiniteSet(Sleeps(y) \cap T)
            BY <2>1, FS_Intersection DEF Places
        <3>. QED BY <3>1, <2>1, FS_Difference, FS_CardinalityType DEF Places
    <2>5. Ways(y)' = Number(run, {y}) + (Queued(y, Back) + Cardinality(Sleeps(y) \cap T))
                      + Cardinality(Sleeps(y) \ T) + Cardinality(blocked \cap {y})
                      + Cardinality(away \cap {y}) + Cardinality(Timeouts(y))
        BY <2>2, <2>3, <1>step, <1>work, <1>timeouts
    <2>. QED BY <2>1, <2>4, <2>5 DEF Places
<1>owned. Owned' = Owned
    <2>1. \A w : w \in Works /\ w.what = "strong" <=> w \in Works' /\ w.what = "strong"
        BY <1>work, <1>weak
    <2>2. \A x : x \in Owned' <=> x \in Owned
        BY <2>1, <1>step, OwnedIs, OwnedNext
    <2>. QED BY <2>2
<1>1. TypeOK' /\ IsFiniteSet(delayed)'
    <2>1. tasks' \in Seq(Work) /\ delayed' \subseteq Delayed
        BY <1>0, <1>t, <1>step DEF TypeOK
    <2>2. IsFiniteSet(delayed)'
        BY <1>0, <1>t, FS_Difference
    <2>3. TypeOK'
        BY <2>1, <1>0, <1>step, <1>works DEF TypeOK
    <2>. QED BY <2>2, <2>3
<1>2. Loop'
    BY <1>0, <1>step DEF Loop
<1>3. Held'
    BY <1>0, <1>owned, <1>step DEF Held
<1>4. Once'
    BY <1>0, <1>ways, <1>step, OnceSame
<1>5. Awaited'
    <2>1. ASSUME NEW w \in Works', w.what \in {"timer", "cancel"}
          PROVE  w.who \in Children /\ awaiter[w.who] # {}
        <3>1. CASE w \in Works
            BY <3>1, <2>1, <1>0 DEF Awaited
        <3>2. CASE w \notin Works
            <4>1. PICK d \in T : w = W(d.who, d.what)
                BY <3>2, <1>work, <1>taken
            <4>2. d \in delayed /\ d.who = w.who /\ d.what = w.what
                BY <4>1, <1>taken DEF W
            <4>3. w.what = "timer"
                BY <2>1, <3>2, <1>work, <1>weak
            <4>. QED BY <4>2, <4>3, <1>0 DEF Awaited
        <3>. QED BY <3>1, <3>2
    <2>. QED BY <2>1, <1>0, <1>t, <1>step DEF Awaited
<1>6. CancelsOnce' /\ TimersSet'
    <2>1. CancelsOnce'
        BY <1>0, <1>work, <1>step DEF CancelsOnce
    <2>2. ASSUME NEW c \in guarded, awaiter[c] # {}
          PROVE  \/ \E d \in delayed' : d.who = c /\ d.what = "timer"
                 \/ \E w \in ToSet(batch)' : w.who = c /\ w.what = "timer"
        <3>1. PICK d \in delayed : d.who = c /\ d.what = "timer"
            BY <2>2, <1>0, <1>loop, EmptyHasNone DEF TimersSet
        <3>2. CASE d \in T
            <4>1. W(d.who, d.what) \in ToSet(batch)'
                BY <3>2, <1>taken, <1>works
            <4>. QED BY <3>1, <4>1 DEF W
        <3>3. CASE d \notin T
            BY <3>1, <3>3, <1>t
        <3>. QED BY <3>2, <3>3
    <2>. QED BY <2>1, <2>2, <1>step DEF TimersSet
<1>7. Counting'
    <2>1. \A w : w \in Works /\ w.what = "strong" <=> w \in Works' /\ w.what = "strong"
        BY <1>work, <1>weak
    <2>. QED BY <2>1, <1>0, <1>timeouts, <1>step DEF Counting
<1>8. Ready' /\ InTime' /\ Quiet'
    <2>1. Ready'
        BY <1>0, <1>step DEF Ready
    <2>2. InTime'
        <3>1. \A d \in delayed' : d \in Delayed
            BY <1>d, <1>t
        <3>2. \A d \in delayed' : d.in >= 0
            BY <3>1, <1>rest DEF Delayed
        <3>. QED BY <3>2, <1>rest, <1>step DEF InTime
    <2>3. Over' <=> Over
        BY <1>step DEF Over
    <2>4. delayed' = {} \/ Awaits'
        <3>1. \A d : Canceled(d)' <=> Canceled(d)
            BY <1>owned, <1>step, AliveSame
        <3>. QED BY <3>1, <1>rest DEF Awaits
    <2>. QED BY <2>1, <2>2, <2>3, <2>4, <1>0, <1>step DEF Quiet
<1>. QED BY <1>1, <1>2, <1>3, <1>4, <1>5, <1>6, <1>7, <1>8 DEF IInv

-----------------------------------------------------------------------------
(***************************************************************************)
(* The steps of other threads, and time, keep IInv                         *)
(***************************************************************************)

\* A Work of another thread reaches the queue.
LEMMA PushKeeps ==
    ASSUME IInv, NEW y \in Coroutines, RemotePush(y), tasks' = Append(tasks, W(y, "strong"))
    PROVE  IInv'
<1>0. /\ TypeOK /\ IsFiniteSet(delayed)
      /\ Loop /\ Held /\ Once /\ Awaited /\ CancelsOnce /\ TimersSet
      /\ Counting /\ Ready /\ InTime /\ Quiet
    BY DEF IInv
<1>step.
      /\ y \in blocked \cup away /\ Alive(y) /\ tasks' = Append(tasks, W(y, "strong"))
      /\ blocked' = blocked \ {y} /\ away' = away \ {y} /\ pc' = pc /\ run' = run
      /\ batch' = batch /\ spent' = spent /\ delayed' = delayed /\ wake' = wake
      /\ stage' = stage /\ awaiter' = awaiter /\ guarded' = guarded /\ kept' = kept
      /\ handle' = handle
      /\ abroad' = abroad /\ counted' = counted /\ externalWork' = externalWork
      /\ idle' = idle /\ left' = left
    BY DEF RemotePush, stacks
<1>y. /\ stage[y] = "live" /\ y \in Owned /\ Ways(y) = 1 /\ idle = 0
      /\ (y \in blocked <=> y \notin away)
      /\ Cardinality(blocked \cap {y}) + Cardinality(away \cap {y}) = 1
      /\ (y \notin Foreign => y \in counted)
    <2>1. Places(y)
        BY <1>0, PlacesHold
    <2>2. Ways(y) > 0
        BY <2>1, <1>step DEF Places
    <2>3. stage[y] = "live" /\ y \in Owned /\ Ways(y) = 1
        BY <2>2, <1>step, GoingOn
    <2>4. idle = 0
        BY <2>3, <1>0 DEF Quiet, Over, TypeOK
    <2>5. y \notin Foreign => y \in counted
        BY <1>0, <1>step DEF Counting
    <2>6. (y \in blocked <=> y \notin away)
            /\ Cardinality(blocked \cap {y}) + Cardinality(away \cap {y}) = 1
        BY <2>1, <2>3, <1>step DEF Places
    <2>. QED BY <2>3, <2>4, <2>5, <2>6
<1>gone. ASSUME NEW z \in Coroutines
         PROVE  Cardinality((blocked \ {y}) \cap {z}) + Cardinality((away \ {y}) \cap {z})
                = Cardinality(blocked \cap {z}) + Cardinality(away \cap {z})
                  - (IF z = y THEN 1 ELSE 0)
    <2>1. \A S : Cardinality(S \cap {z}) = IF z \in S THEN 1 ELSE 0
        BY OneOf
    <2>. QED BY <2>1, <1>y, <1>step
<1>work.
      /\ tasks' \in Seq(Work) /\ tasks' # <<>> /\ Works' = Works \cup {W(y, "strong")}
      /\ ToSet(tasks') = ToSet(tasks) \cup {W(y, "strong")}
      /\ \A z \in Coroutines : Queued(z, Back)' = Queued(z, Back) + (IF z = y THEN 1 ELSE 0)
      /\ \A c \in Children : Queued(c, {"cancel"})' = Queued(c, {"cancel"})
    BY <1>0, <1>step, PushBack DEF Back
<1>same.
      /\ \A z : Sleeps(z)' = Sleeps(z)
      /\ \A z : Timeouts(z)' = Timeouts(z)
    BY <1>step, <1>work, SameSleeps, SameTimeouts
<1>ways. ASSUME NEW z \in Coroutines PROVE Ways(z)' = Ways(z)
    <2>1. Places(z)
        BY <1>0, PlacesHold
    <2>2. Ways(z)' = Number(run', {z}) + Queued(z, Back)' + Cardinality(Sleeps(z)')
                      + Cardinality(blocked' \cap {z}) + Cardinality(away' \cap {z})
                      + Cardinality(Timeouts(z)')
        BY WaysNext
    <2>3. /\ Queued(z, Back)' = Queued(z, Back) + (IF z = y THEN 1 ELSE 0)
          /\ Sleeps(z)' = Sleeps(z) /\ Timeouts(z)' = Timeouts(z) /\ run' = run
        BY <1>step, <1>work, <1>same
    <2>4. /\ Cardinality((blocked \ {y}) \cap {z}) \in Nat
          /\ Cardinality((away \ {y}) \cap {z}) \in Nat
        BY OneOf
    <2>5. /\ Ways(z) \in Nat /\ Number(run, {z}) \in Nat /\ Queued(z, Back) \in Nat
          /\ Cardinality(Sleeps(z)) \in Nat /\ Cardinality(Timeouts(z)) \in Nat
          /\ Cardinality(blocked \cap {z}) \in Nat /\ Cardinality(away \cap {z}) \in Nat
        BY <2>1 DEF Places
    <2>6. Ways(z) = Number(run, {z}) + Queued(z, Back) + Cardinality(Sleeps(z))
                    + (Cardinality(blocked \cap {z}) + Cardinality(away \cap {z}))
                    + Cardinality(Timeouts(z))
        BY <2>1, <2>5 DEF Places
    <2>7. Ways(z)' = Number(run, {z}) + (Queued(z, Back) + (IF z = y THEN 1 ELSE 0))
                     + Cardinality(Sleeps(z))
                     + (Cardinality((blocked \ {y}) \cap {z})
                       + Cardinality((away \ {y}) \cap {z}))
                     + Cardinality(Timeouts(z))
        BY <2>2, <2>3, <2>4, <2>5, <1>step
    <2>8. Cardinality((blocked \ {y}) \cap {z}) + Cardinality((away \ {y}) \cap {z})
          = Cardinality(blocked \cap {z}) + Cardinality(away \cap {z})
            - (IF z = y THEN 1 ELSE 0)
        BY <1>gone
    <2>9. CASE z = y
        <3>1. Cardinality((blocked \ {y}) \cap {z}) + Cardinality((away \ {y}) \cap {z})
              = Cardinality(blocked \cap {z}) + Cardinality(away \cap {z}) - 1
            BY <2>8, <2>9
        <3>2. Ways(z)' = Number(run, {z}) + (Queued(z, Back) + 1) + Cardinality(Sleeps(z))
                         + (Cardinality(blocked \cap {z}) + Cardinality(away \cap {z}) - 1)
                         + Cardinality(Timeouts(z))
            BY <2>7, <2>9, <3>1
        <3>. QED BY <3>2, <2>5, <2>6, <2>9
    <2>10. CASE z # y
        BY <2>4, <2>5, <2>6, <2>7, <2>8, <2>10
    <2>. QED BY <2>9, <2>10
<1>owned. Owned' \subseteq Owned
    BY <1>step, <1>y, <1>work, OwnedIs, OwnedNext DEF W
<1>1. TypeOK' /\ IsFiniteSet(delayed)'
    BY <1>0, <1>step, <1>work DEF TypeOK
<1>2. Loop'
    BY <1>0, <1>work, <1>step DEF Loop, W
<1>3. Held'
    BY <1>0, <1>owned, <1>step DEF Held
<1>4. Once'
    BY <1>0, <1>ways, <1>step, OnceSame
<1>5. Awaited'
    BY <1>0, <1>work, <1>step DEF Awaited, W
<1>6. CancelsOnce' /\ TimersSet'
    BY <1>0, <1>work, <1>step DEF CancelsOnce, TimersSet
<1>7. Counting'
    BY <1>0, <1>y, <1>work, <1>same, <1>step DEF Counting, W
<1>8. Ready' /\ InTime' /\ Quiet'
    <2>1. Ready' /\ InTime'
        BY <1>0, <1>step DEF Ready, InTime
    <2>2. Quiet'
        BY <1>0, <1>y, <1>step, ThisThreadAssumption DEF Quiet, TypeOK
    <2>. QED BY <2>1, <2>2
<1>. QED BY <1>1, <1>2, <1>3, <1>4, <1>5, <1>6, <1>7, <1>8 DEF IInv

\* A Work of another thread gets lost.
LEMMA LossKeeps ==
    ASSUME IInv, NEW y \in Coroutines, RemotePush(y), tasks' # Append(tasks, W(y, "strong"))
    PROVE  IInv'
<1>0. /\ TypeOK /\ IsFiniteSet(delayed)
      /\ Loop /\ Held /\ Once /\ Awaited /\ CancelsOnce /\ TimersSet
      /\ Counting /\ Ready /\ InTime /\ Quiet
    BY DEF IInv
<1>step.
      /\ y \in blocked \cup away /\ Alive(y) /\ Racing /\ blocked' = blocked \ {y}
      /\ away' = away \ {y} /\ pc' = pc /\ run' = run /\ tasks' = tasks
      /\ batch' = batch /\ spent' = spent /\ delayed' = delayed /\ wake' = wake
      /\ stage' = stage /\ awaiter' = awaiter /\ guarded' = guarded /\ kept' = kept
      /\ handle' = handle
      /\ abroad' = abroad /\ counted' = counted /\ externalWork' = externalWork
      /\ idle' = idle /\ left' = left
    BY DEF RemotePush, stacks
<1>y. /\ stage[y] = "live" /\ y \in Owned /\ Ways(y) = 1 /\ idle = 0
      /\ (y \in blocked <=> y \notin away)
      /\ Cardinality(blocked \cap {y}) + Cardinality(away \cap {y}) = 1
      /\ (y \notin Foreign => y \in counted)
    <2>1. Places(y)
        BY <1>0, PlacesHold
    <2>2. Ways(y) > 0
        BY <2>1, <1>step DEF Places
    <2>3. stage[y] = "live" /\ y \in Owned /\ Ways(y) = 1
        BY <2>2, <1>step, GoingOn
    <2>4. idle = 0
        BY <2>3, <1>0 DEF Quiet, Over, TypeOK
    <2>5. y \notin Foreign => y \in counted
        BY <1>0, <1>step DEF Counting
    <2>6. (y \in blocked <=> y \notin away)
            /\ Cardinality(blocked \cap {y}) + Cardinality(away \cap {y}) = 1
        BY <2>1, <2>3, <1>step DEF Places
    <2>. QED BY <2>3, <2>4, <2>5, <2>6
<1>gone. ASSUME NEW z \in Coroutines
         PROVE  Cardinality((blocked \ {y}) \cap {z}) + Cardinality((away \ {y}) \cap {z})
                = Cardinality(blocked \cap {z}) + Cardinality(away \cap {z})
                  - (IF z = y THEN 1 ELSE 0)
    <2>1. \A S : Cardinality(S \cap {z}) = IF z \in S THEN 1 ELSE 0
        BY OneOf
    <2>. QED BY <2>1, <1>y, <1>step
<1>work. Works' = Works /\ \A z, k : Queued(z, k)' = Queued(z, k)
    BY <1>step, SameWork
<1>same.
      /\ \A z : Sleeps(z)' = Sleeps(z)
      /\ \A z : Timeouts(z)' = Timeouts(z)
    BY <1>step, <1>work, SameSleeps, SameTimeouts
<1>ways. ASSUME NEW z \in Coroutines PROVE Ways(z)' = Ways(z) - (IF z = y THEN 1 ELSE 0)
    <2>1. Places(z)
        BY <1>0, PlacesHold
    <2>2. Ways(z)' = Number(run', {z}) + Queued(z, Back)' + Cardinality(Sleeps(z)')
                      + Cardinality(blocked' \cap {z}) + Cardinality(away' \cap {z})
                      + Cardinality(Timeouts(z)')
        BY WaysNext
    <2>3. /\ Queued(z, Back)' = Queued(z, Back)
          /\ Sleeps(z)' = Sleeps(z) /\ Timeouts(z)' = Timeouts(z) /\ run' = run
        BY <1>step, <1>work, <1>same
    <2>4. /\ Cardinality((blocked \ {y}) \cap {z}) \in Nat
          /\ Cardinality((away \ {y}) \cap {z}) \in Nat
        BY OneOf
    <2>5. /\ Ways(z) \in Nat /\ Number(run, {z}) \in Nat /\ Queued(z, Back) \in Nat
          /\ Cardinality(Sleeps(z)) \in Nat /\ Cardinality(Timeouts(z)) \in Nat
          /\ Cardinality(blocked \cap {z}) \in Nat /\ Cardinality(away \cap {z}) \in Nat
        BY <2>1 DEF Places
    <2>6. Ways(z) = Number(run, {z}) + Queued(z, Back) + Cardinality(Sleeps(z))
                    + (Cardinality(blocked \cap {z}) + Cardinality(away \cap {z}))
                    + Cardinality(Timeouts(z))
        BY <2>1, <2>5 DEF Places
    <2>7. Ways(z)' = Number(run, {z}) + Queued(z, Back)
                     + Cardinality(Sleeps(z))
                     + (Cardinality((blocked \ {y}) \cap {z})
                       + Cardinality((away \ {y}) \cap {z}))
                     + Cardinality(Timeouts(z))
        BY <2>2, <2>3, <2>4, <2>5, <1>step
    <2>8. Cardinality((blocked \ {y}) \cap {z}) + Cardinality((away \ {y}) \cap {z})
          = Cardinality(blocked \cap {z}) + Cardinality(away \cap {z})
            - (IF z = y THEN 1 ELSE 0)
        BY <1>gone
    <2>9. CASE z = y
        <3>1. Cardinality((blocked \ {y}) \cap {z}) + Cardinality((away \ {y}) \cap {z})
              = Cardinality(blocked \cap {z}) + Cardinality(away \cap {z}) - 1
            BY <2>8, <2>9
        <3>2. Ways(z)' = Number(run, {z}) + Queued(z, Back) + Cardinality(Sleeps(z))
                         + (Cardinality(blocked \cap {z}) + Cardinality(away \cap {z}) - 1)
                         + Cardinality(Timeouts(z))
            BY <2>7, <2>9, <3>1
        <3>. QED BY <3>2, <2>5, <2>6, <2>9
    <2>10. CASE z # y
        BY <2>4, <2>5, <2>6, <2>7, <2>8, <2>10
    <2>. QED BY <2>9, <2>10
<1>owned. Owned' \subseteq Owned
    BY <1>step, <1>work, OwnedIs, OwnedNext
<1>1. TypeOK' /\ IsFiniteSet(delayed)'
    BY <1>0, <1>step, <1>work DEF TypeOK
<1>2. Loop'
    BY <1>0, <1>work, <1>step DEF Loop, W
<1>3. Held'
    BY <1>0, <1>owned, <1>step DEF Held
<1>4. Once'
    <2>1. ASSUME NEW z \in Coroutines PROVE Ways(z) \in Nat
        <3>1. Places(z)
            BY <1>0, PlacesHold
        <3>. QED BY <3>1 DEF Places
    <2>. QED BY <2>1, <1>0, <1>ways, <1>y, <1>step DEF Once, Lost
<1>5. Awaited'
    BY <1>0, <1>work, <1>step DEF Awaited, W
<1>6. CancelsOnce' /\ TimersSet'
    BY <1>0, <1>work, <1>step DEF CancelsOnce, TimersSet
<1>7. Counting'
    BY <1>0, <1>y, <1>work, <1>same, <1>step DEF Counting, W
<1>8. Ready' /\ InTime' /\ Quiet'
    <2>1. Ready' /\ InTime'
        BY <1>0, <1>step DEF Ready, InTime
    <2>2. Quiet'
        BY <1>0, <1>y, <1>step, ThisThreadAssumption DEF Quiet, TypeOK
    <2>. QED BY <2>1, <2>2
<1>. QED BY <1>1, <1>2, <1>3, <1>4, <1>5, <1>6, <1>7, <1>8 DEF IInv

\* Another thread lets go of a stack.
LEMMA LetGoKeeps ==
    ASSUME IInv, NEW y \in Coroutines, LetGo(y)
    PROVE  IInv'
<1>0. /\ TypeOK /\ IsFiniteSet(delayed)
      /\ Loop /\ Held /\ Once /\ Awaited /\ CancelsOnce /\ TimersSet
      /\ Counting /\ Ready /\ InTime /\ Quiet
    BY DEF IInv
<1>step.
      /\ y \in abroad /\ abroad' = abroad \ {y} /\ pc' = pc /\ run' = run
      /\ tasks' = tasks /\ batch' = batch /\ spent' = spent /\ delayed' = delayed
      /\ wake' = wake /\ stage' = stage /\ awaiter' = awaiter /\ guarded' = guarded
      /\ kept' = kept
      /\ handle' = handle /\ blocked' = blocked /\ away' = away /\ counted' = counted
      /\ externalWork' = externalWork /\ idle' = idle /\ left' = left
    BY DEF LetGo, queues, stacks
<1>work. Works' = Works /\ \A z, k : Queued(z, k)' = Queued(z, k)
    BY <1>step, SameWork
<1>same.
      /\ \A z : Sleeps(z)' = Sleeps(z)
      /\ \A z : Timeouts(z)' = Timeouts(z)
    BY <1>step, <1>work, SameSleeps, SameTimeouts
<1>ways. \A z : Ways(z)' = Ways(z)
    BY <1>step, <1>work, <1>same DEF Ways
<1>owned. Owned' \subseteq Owned
    BY <1>step, <1>work, OwnedIs, OwnedNext
<1>idle. idle = 0
    <2>1. ~Over
        BY <1>step DEF Over
    <2>. QED BY <2>1, <1>0 DEF Quiet, TypeOK
<1>1. TypeOK' /\ IsFiniteSet(delayed)'
    BY <1>0, <1>step DEF TypeOK
<1>2. Loop'
    BY <1>0, <1>step DEF Loop
<1>3. Held'
    BY <1>0, <1>owned, <1>step DEF Held
<1>4. Once'
    BY <1>0, <1>ways, <1>step, OnceSame
<1>5. Awaited'
    BY <1>0, <1>work, <1>step DEF Awaited
<1>6. CancelsOnce' /\ TimersSet'
    BY <1>0, <1>work, <1>step DEF CancelsOnce, TimersSet
<1>7. Counting'
    BY <1>0, <1>work, <1>same, <1>step DEF Counting
<1>8. Ready' /\ InTime' /\ Quiet'
    <2>1. Ready' /\ InTime'
        BY <1>0, <1>step DEF Ready, InTime
    <2>2. Quiet'
        BY <1>0, <1>idle, <1>step, ThisThreadAssumption DEF Quiet, TypeOK
    <2>. QED BY <2>1, <2>2
<1>. QED BY <1>1, <1>2, <1>3, <1>4, <1>5, <1>6, <1>7, <1>8 DEF IInv

\* A delayed Work after a tick.
Older(d) == [who |-> d.who, what |-> d.what, in |-> d.in - 1]

\* Time keeps apart what is delayed, as long as no deadline has passed.
LEMMA OlderSize ==
    ASSUME NEW D \in SUBSET Delayed, IsFiniteSet(D), \A d \in D : d.in \in Nat /\ d.in > 0
    PROVE  /\ IsFiniteSet({Older(d) : d \in D})
           /\ Cardinality({Older(d) : d \in D}) = Cardinality(D)
<1>. DEFINE T == {Older(d) : d \in D}
            f == [d \in D |-> Older(d)]
<1>1. f \in [D -> T]
    OBVIOUS
<1>2. ASSUME NEW d \in D, NEW e \in D, Older(d) = Older(e) PROVE d = e
    <2>1. d.who = e.who /\ d.what = e.what /\ d.in - 1 = e.in - 1
        BY <1>2 DEF Older
    <2>2. d.in = e.in
        BY <2>1
    <2>. QED BY <2>1, <2>2 DEF Delayed
<1>3. \A j \in T : \E d \in D : f[d] = j
    OBVIOUS
<1>4. f \in Bijection(D, T)
    BY <1>1, <1>2, <1>3 DEF Bijection, Injection, Surjection, IsInjective
<1>. QED BY <1>4, FS_Bijection DEF ExistsBijection

\* Time passes.
LEMMA TickKeeps ==
    ASSUME IInv, Tick
    PROVE  IInv'
<1>0. /\ TypeOK /\ IsFiniteSet(delayed)
      /\ Loop /\ Held /\ Once /\ Awaited /\ CancelsOnce /\ TimersSet
      /\ Counting /\ Ready /\ InTime /\ Quiet
    BY DEF IInv
<1>step.
      /\ pc = "asleep" /\ wake > 0 /\ wake' = wake - 1
      /\ idle' = (IF Over /\ idle <= Slumber THEN idle + 1 ELSE idle) /\ pc' = pc
      /\ run' = run /\ tasks' = tasks /\ batch' = batch /\ spent' = spent
      /\ stage' = stage /\ awaiter' = awaiter /\ guarded' = guarded /\ kept' = kept
      /\ handle' = handle
      /\ blocked' = blocked /\ away' = away /\ abroad' = abroad /\ counted' = counted
      /\ externalWork' = externalWork /\ left' = left
    BY DEF Tick, stacks, outer
<1>work. Works' = Works /\ \A y, k : Queued(y, k)' = Queued(y, k)
    BY <1>step, SameWork
<1>in. \A d \in delayed : d \in Delayed /\ d.in \in Nat /\ d.in > 0 /\ d.in - 1 >= wake - 1
    BY <1>0, <1>step DEF InTime, TypeOK, Delayed
<1>older. delayed' = {Older(d) : d \in delayed}
    <2>1. delayed' = {[d EXCEPT !.in = IF @ = -1 THEN -1 ELSE @ - 1] : d \in delayed}
        BY DEF Tick
    <2>2. ASSUME NEW d \in delayed
          PROVE  [d EXCEPT !.in = IF @ = -1 THEN -1 ELSE @ - 1] = Older(d)
        BY <1>in DEF Delayed, Older
    <2>. QED BY <2>1, <2>2
<1>d. \A d \in delayed : /\ Older(d) \in Delayed /\ Older(d).in = d.in - 1
                         /\ Older(d).who = d.who /\ Older(d).what = d.what
    BY <1>in DEF Older, Delayed
<1>sleeps. \A y : Cardinality(Sleeps(y)') = Cardinality(Sleeps(y))
    <2>. TAKE y
    <2>1. Sleeps(y)' = {Older(d) : d \in Sleeps(y)}
        BY <1>older, <1>d DEF Sleeps
    <2>2. Sleeps(y) \in SUBSET delayed /\ Sleeps(y) \in SUBSET Delayed
        BY <1>in DEF Sleeps
    <2>3. IsFiniteSet(Sleeps(y))
        BY <2>2, <1>0, FS_Subset
    <2>. QED BY <2>1, <2>2, <2>3, <1>in, OlderSize
<1>timeouts. \A y : Timeouts(y)' = Timeouts(y)
    BY <1>step, <1>work, SameTimeouts
<1>ways. \A y : Ways(y)' = Ways(y)
    BY <1>step, <1>work, <1>sleeps, <1>timeouts DEF Ways
<1>owned. Owned' = Owned
    BY <1>step, <1>work, OwnedIs, OwnedNext
<1>awaits. Awaits' <=> Awaits
    <2>1. \A d \in delayed : Canceled(Older(d))' <=> Canceled(d)
        BY <1>d, <1>owned, <1>step DEF Canceled, Alive
    <2>. QED BY <2>1, <1>older DEF Awaits
<1>1. TypeOK' /\ IsFiniteSet(delayed)'
    <2>1. delayed' \subseteq Delayed
        BY <1>older, <1>d
    <2>2. wake' \in 0..Slumber /\ idle' \in 0..(Slumber + 1)
        BY <1>0, <1>step, ThisThreadAssumption DEF TypeOK
    <2>3. IsFiniteSet(delayed)'
        <3>1. delayed \in SUBSET Delayed
            BY <1>in
        <3>. QED BY <3>1, <1>0, <1>in, <1>older, OlderSize
    <2>4. TypeOK'
        BY <2>1, <2>2, <1>0, <1>step DEF TypeOK
    <2>. QED BY <2>3, <2>4
<1>2. Loop'
    BY <1>0, <1>step DEF Loop
<1>3. Held'
    BY <1>0, <1>owned, <1>step DEF Held
<1>4. Once'
    BY <1>0, <1>ways, <1>step, OnceSame
<1>5. Awaited'
    <2>1. \A d \in delayed' : d.what = "timer" => d.who \in Children /\ awaiter[d.who] # {}
        BY <1>0, <1>older, <1>d DEF Awaited
    <2>. QED BY <2>1, <1>0, <1>work, <1>step DEF Awaited
<1>6. CancelsOnce' /\ TimersSet'
    <2>1. ASSUME NEW d \in delayed
          PROVE  \E b \in delayed' : b.who = d.who /\ b.what = d.what
        BY <1>older, <1>d
    <2>2. TimersSet'
        BY <2>1, <1>0, <1>step DEF TimersSet
    <2>. QED BY <2>2, <1>0, <1>work, <1>step DEF CancelsOnce
<1>7. Counting'
    BY <1>0, <1>work, <1>timeouts, <1>step DEF Counting
<1>8. Ready' /\ InTime' /\ Quiet'
    <2>1. Ready'
        BY <1>0, <1>step DEF Ready
    <2>2. InTime'
        <3>1. \A b \in delayed' : b.in >= 0 /\ b.in >= wake - 1
            BY <1>older, <1>d, <1>in
        <3>. QED BY <3>1, <1>step DEF InTime
    <2>3. Quiet'
        <3>1. Over' <=> Over
            BY <1>step DEF Over
        <3>2. idle \in Nat /\ wake \in Nat /\ Slumber \in Nat
            BY <1>0, ThisThreadAssumption DEF TypeOK
        <3>3. spent = {}
            BY <1>0, <1>step DEF Loop
        <3>4. idle' > 0 => Over' /\ spent' = {}
            BY <3>1, <3>3, <1>0, <1>step DEF Quiet
        <3>5. idle + wake <= Slumber => idle' + wake' <= Slumber
            BY <3>2, <1>step
        <3>6. idle' + wake' <= Slumber \/ Awaits'
            BY <3>5, <1>awaits, <1>0, <1>step DEF Quiet
        <3>. QED BY <3>4, <3>6, <1>step DEF Quiet
    <2>. QED BY <2>1, <2>2, <2>3
<1>. QED BY <1>1, <1>2, <1>3, <1>4, <1>5, <1>6, <1>7, <1>8 DEF IInv

-----------------------------------------------------------------------------
(***************************************************************************)
(* The theorems                                                            *)
(***************************************************************************)

\* IInv holds at the start.
LEMMA InitIInv == Init => IInv
<1>. SUFFICES ASSUME Init PROVE IInv
    OBVIOUS
<1>1. Root \in Coroutines /\ \A c \in Children : c \in Coroutines /\ c # Root
    BY ThisThreadAssumption DEF Coroutines
<1>2. /\ ToSet(run) = {Root} /\ run \in Seq(Coroutines)
      /\ \A x : Number(run, {x}) = IF x = Root THEN 1 ELSE 0
    BY <1>1, OneRuns DEF Init
<1>3. Works = {} /\ \A x, k : Queued(x, k) = 0
    BY EmptyHasNone DEF Init, Works, Queued
<1>4. \A x : Sleeps(x) = {} /\ Timeouts(x) = {}
    BY DEF Init, Sleeps, Timeouts
<1>5. ASSUME NEW x PROVE Ways(x) = IF x = Root THEN 1 ELSE 0
    <2>1. blocked \cap {x} = {} /\ away \cap {x} = {} /\ Cardinality({}) = 0
        BY FS_EmptySet DEF Init
    <2>2. Ways(x) = Number(run, {x}) + 0 + 0 + 0 + 0 + 0
        BY <2>1, <1>3, <1>4 DEF Ways
    <2>3. Number(run, {x}) = 0 \/ Number(run, {x}) = 1
        BY <1>2
    <2>4. Ways(x) = Number(run, {x})
        BY <2>2, <2>3
    <2>. QED BY <2>4, <1>2
<1>6. \A x : x \in Owned => x = Root
    BY <1>2, <1>3, OwnedIs DEF Init
<1>7. TypeOK
    BY <1>1, <1>2, ThisThreadAssumption DEF Init, TypeOK
<1>8. IsFiniteSet(delayed)
    BY FS_EmptySet DEF Init
<1>9. Loop /\ Held
    BY <1>1, <1>6 DEF Init, Loop, Held
<1>10. Once
    BY <1>5 DEF Init, Once
<1>11. Awaited /\ CancelsOnce /\ TimersSet
    BY <1>3 DEF Init, Awaited, CancelsOnce, TimersSet
<1>12. Counting
    BY <1>3, FS_EmptySet DEF Init, Counting
<1>13. Ready /\ InTime /\ Quiet
    BY DEF Init, Ready, InTime, Quiet
<1>. QED BY <1>7, <1>8, <1>9, <1>10, <1>11, <1>12, <1>13 DEF IInv

\* A Work that is run.
LEMMA RunsOne ==
    ASSUME IInv, NEW what, Execute(what)
    PROVE  Head(batch) \in Work /\ Head(batch).what \in what
BY TailOne DEF IInv, TypeOK, Execute

\* Every step keeps IInv.
LEMMA NextIInv == IInv /\ [Next]_vars => IInv'
<1>. SUFFICES ASSUME IInv, [Next]_vars PROVE IInv'
    OBVIOUS
<1>1. ASSUME NEW x \in Coroutines, FinishInTime(x) PROVE IInv'
    BY <1>1, FinishInTimeKeeps, LateFinishKeeps
<1>2. CASE CoroutineStep
    BY <1>1, <1>2, YieldKeeps, SleepKeeps, BlockKeeps, HopKeeps, JoinKeeps, NotifyKeeps,
       SpawnKeeps, DropHandleKeeps, TimeoutKeeps, FinishKeeps DEF CoroutineStep
<1>3. CASE RunTask
    <2>1. Head(batch) \in Work
        BY <1>3, RunsOne DEF RunTask
    <2>. QED BY <2>1, <1>3, ResumeKeeps, SkipKeeps
<1>4. CASE RunTimer
    <2>1. Head(batch) \in Work
        BY <1>4, RunsOne DEF RunTimer
    <2>. QED BY <2>1, <1>4, ClaimKeeps, LateTimerKeeps
<1>5. CASE RunCancel
    <2>1. Head(batch) \in Work
        BY <1>5, RunsOne DEF RunCancel
    <2>. QED BY <2>1, <1>5, CancelAgainKeeps, CancelKeeps
<1>6. CASE LoopStep
    BY <1>3, <1>4, <1>5, <1>6, EnterKeeps, SwapKeeps, EndBatchKeeps, DecideKeeps, WakeKeeps,
       TakeResultKeeps, DestroyKeeps DEF LoopStep
<1>7. CASE \E y \in Coroutines : RemotePush(y) \/ LetGo(y)
    BY <1>7, PushKeeps, LossKeeps, LetGoKeeps
<1>8. CASE UNCHANGED vars
    <2>1. /\ pc' = pc /\ wake' = wake /\ idle' = idle /\ left' = left
          /\ UNCHANGED <<run, tasks, batch, spent, delayed, stage, awaiter, handle, guarded,
                         kept, blocked, away, abroad, counted, externalWork>>
        BY <1>8 DEF vars, queues, stacks, outer
    <2>2. /\ IsFiniteSet(delayed)' /\ Held' /\ Once' /\ Awaited' /\ CancelsOnce'
               /\ TimersSet'
          /\ Counting' /\ (Awaits' <=> Awaits) /\ (Over' <=> Over)
        BY <2>1, OnlyLoop
    <2>3. TypeOK' /\ Loop' /\ Ready' /\ InTime'
        BY <2>1 DEF IInv, TypeOK, Loop, Ready, InTime
    <2>4. Quiet'
        BY <2>1, <2>2 DEF IInv, Quiet
    <2>. QED BY <2>2, <2>3, <2>4 DEF IInv
<1>. QED BY <1>2, <1>6, <1>7, <1>8, TickKeeps DEF Next

\* The invariant that the others follow from.
THEOREM ThisThreadInvariant == Spec => []IInv
<1>1. Init => IInv
    BY InitIInv
<1>2. IInv /\ [Next]_vars => IInv'
    BY NextIInv
<1>. QED BY <1>1, <1>2, PTL DEF Spec

\* The variables have their types, whatever is pushed, canceled or destroyed; in particular
\* external_work (runtime.h:867) counts what it counts and never goes below zero.
THEOREM ThisThreadTypeOK == Spec => []TypeOK
<1>1. IInv => TypeOK
    BY DEF IInv
<1>. QED BY <1>1, ThisThreadInvariant, PTL

\* take_result() finds the result of the root (runtime.h:147), although block_on leaves
\* without a look at the queue (867): even if pushes get lost, provided that the root awaits
\* no task of another executor.
THEOREM ThisThreadResultReady ==
    ASSUME Root \notin Foreign
    PROVE  Spec => []ResultReady
<1>1. IInv => ResultReady
    BY DEF IInv, Ready, ResultReady
<1>. QED BY <1>1, ThisThreadInvariant, PTL

\* A coroutine that has not ended goes on in exactly one way, if no two threads are in the
\* queue at once: what brings it back is neither lost nor doubled, and of a Timeout's
\* result and its cancellation one reaches who awaits.
THEOREM ThisThreadGoesOnOnce ==
    ASSUME Racing = FALSE
    PROVE  Spec => []GoesOnOnce
<1>1. IInv => GoesOnOnce
    BY DEF IInv, Once, Lost, GoesOnOnce
<1>. QED BY <1>1, ThisThreadInvariant, PTL

\* block_on sleeps past no deadline (runtime.h:872).
THEOREM ThisThreadOnTime == Spec => []OnTime
<1>1. IInv => OnTime
    BY DEF IInv, InTime, OnTime
<1>. QED BY <1>1, ThisThreadInvariant, PTL

\* Once the last coroutine has ended, block_on sleeps on for longer than one slumber only
\* for a timer whose stack is still alive: the others are pruned (runtime.h:837).
THEOREM ThisThreadPrunesCanceled == Spec => []PrunesCanceled
<1>1. IInv => PrunesCanceled
    <2>. SUFFICES ASSUME IInv, pc = "asleep", idle > Slumber PROVE Awaits
        BY DEF PrunesCanceled, Awaits
    <2>1. idle + wake <= Slumber \/ Awaits
        BY DEF IInv, Quiet
    <2>2. idle \in Nat /\ wake \in Nat /\ Slumber \in Nat
        BY ThisThreadAssumption DEF IInv, TypeOK
    <2>. QED BY <2>1, <2>2
<1>. QED BY <1>1, ThisThreadInvariant, PTL
=============================================================================
