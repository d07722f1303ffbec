----------------------------- MODULE AsyncMutex -----------------------------
(***************************************************************************)
(* Mutex of include/alonite/mutex.h: a channel<void>(1) that holds one     *)
(* token while the mutex is free.  lock() is recv() on the receiver that   *)
(* all tasks share, unlock() is try_send() on the one sender.  The queue   *)
(* of State<void> is a counter, the token.  No task ever waits for         *)
(* producer_cv and the channel is never closed while the mutex is used, so *)
(* those parts of the channel do nothing here.  What becomes of a waiter   *)
(* that is cancelled is modelled in Channel, for Mutex as for recv().      *)
(***************************************************************************)
EXTENDS Continuations, FiniteSets

CONSTANT
    Tasks        \* the tasks that use the mutex

ASSUME MutexAssumption == IsFiniteSet(Tasks) /\ Expired \notin Tasks

VARIABLES
    pc,          \* [Tasks -> Location]
    token,       \* queue of State<void>, whose limit is 1
    consumers    \* continuations of consumer_cv

vars == <<pc, token, consumers>>

\* "notify": unlock() has put the token back and has yet to notify.
Location == {"idle", "running", "waiting", "woken", "holding", "notify"}

\* Mutex(): channel<void>(1), try_send().
Init ==
    /\ pc = [t \in Tasks |-> "idle"]
    /\ token = 1
    /\ consumers = <<>>

Goes(t, l) == pc' = [pc EXCEPT ![t] = l]

HasLock(t) == pc[t] \in {"running", "woken"}

Lock(t) ==
    /\ pc[t] = "idle"
    /\ Goes(t, "running")
    /\ UNCHANGED <<token, consumers>>

\* Mutant: recv() leaves the token where it is.
Take_Keeps(t) ==
    /\ HasLock(t) /\ token > 0
    /\ Goes(t, "holding")
    /\ UNCHANGED <<token, consumers>>

\* Mutant: the task that has been woken does not look at the queue again.
Take_Blind(t) ==
    /\ HasLock(t) /\ (token > 0 \/ pc[t] = "woken")
    /\ token' = token - 1
    /\ Goes(t, "holding")
    /\ UNCHANGED consumers

\* State<void>::pop().
Take(t) ==
    /\ HasLock(t) /\ token > 0
    /\ token' = token - 1
    /\ Goes(t, "holding")
    /\ UNCHANGED consumers

Wait(t) ==
    /\ HasLock(t) /\ token = 0
    /\ consumers' = Enqueue(consumers, t)
    /\ Goes(t, "waiting")
    /\ UNCHANGED token

\* State<void>::try_push(), by the task that holds the mutex: with the limit reached
\* it does nothing.
Unlock(t) ==
    /\ pc[t] = "holding"
    /\ token' = IF token < 1 THEN token + 1 ELSE token
    /\ Goes(t, IF token < 1 THEN "notify" ELSE "idle")
    /\ UNCHANGED consumers

\* Mutant: the token is put back without a notification.
Notify_Nobody(t) ==
    /\ pc[t] = "notify"
    /\ Goes(t, "idle")
    /\ UNCHANGED <<token, consumers>>

\* consumer_cv.notify_one(), by a task that may meanwhile have lost the mutex to one
\* that has not waited.
Notify(t) ==
    /\ pc[t] = "notify"
    /\ consumers' = PopFront(consumers)
    /\ pc' = [u \in Tasks |-> IF u \in NotifiedOne(consumers) THEN "woken"
                              ELSE IF u = t THEN "idle" ELSE pc[u]]
    /\ UNCHANGED token

Step(t) == Take(t) \/ Wait(t) \/ Unlock(t) \/ Notify(t)

Next == \E t \in Tasks : Lock(t) \/ Step(t)

Spec == Init /\ [][Next]_vars

\* A task that runs, that has been woken or that holds the mutex goes on.  No task has
\* to lock the mutex.
Fairness == \A t \in Tasks : WF_vars(Step(t))

FairSpec == Spec /\ Fairness

-----------------------------------------------------------------------------
At(L) == {t \in Tasks : pc[t] \in L}

\* The variables have their types: unlock() never puts a second token.
TypeOK ==
    /\ pc \in [Tasks -> Location]
    /\ token \in {0, 1}
    /\ consumers \in Seq(Tasks)

\* The token is either in the channel or with exactly one task, so two tasks never
\* hold the mutex and it is never lost.
OneToken == token + Cardinality(At({"holding"})) = 1

\* While a task waits for a free mutex, the task that freed it has yet to notify or a
\* task that has been woken is about to take it.
FreeIsAnnounced ==
    At({"waiting"}) # {} /\ token = 1 => At({"notify", "woken"}) # {}

Abs == INSTANCE LockSpec WITH
    owners <- At({"holding"}), requests <- At({"running", "waiting", "woken"})

\* The mutex is a lock.
IsLock == Abs!Spec

\* A free mutex that tasks want is acquired by one of them.
FreeIsAcquired == Abs!Progress
=============================================================================
