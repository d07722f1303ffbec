---------------------------- MODULE Continuations ---------------------------
(***************************************************************************)
(* ConditionVariable of include/alonite/runtime.h: the deque of weak       *)
(* references to the task stacks that wait.  A task that is cancelled      *)
(* while it waits stays in the deque as a reference that has expired.      *)
(***************************************************************************)
EXTENDS Integers, SequencesExt

Expired == "expired"

\* cv.wait(lock): continuations.push_back(stack).
Enqueue(c, x) == Append(c, x)

\* The stack x is destroyed: its weak reference locks to nothing from now on.
Expire(c, x) == [i \in DOMAIN c |-> IF c[i] = x THEN Expired ELSE c[i]]

\* notify_one() drops the first reference, expired or not, ...
PopFront_Keeps(c) == c

PopFront(c) == IF c = <<>> THEN c ELSE Tail(c)

\* ... and resumes the task it refers to, if there is one.
NotifiedOne(c) == IF c = <<>> THEN {} ELSE {Head(c)} \ {Expired}

\* notify_all() resumes every task that still exists.
NotifiedAll(c) == ToSet(c) \ {Expired}

\* The tasks in the deque are those in W, each there once.
Lists(c, W) ==
    /\ ToSet(c) \ {Expired} = W
    /\ \A i, j \in DOMAIN c : c[i] = c[j] /\ i # j => c[i] = Expired
=============================================================================
