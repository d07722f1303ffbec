----------------------------- MODULE ThreadPool -----------------------------
(***************************************************************************)
(* ThreadPoolExecutor of include/alonite/runtime.h: several OS threads     *)
(* call block_on on one executor, share its queue of ready work, its       *)
(* delayed work, its counter of external work and its counter of active    *)
(* threads, and leave together once nothing is left to do.                 *)
(*                                                                         *)
(* Thread t calls block_on once; the coroutine it starts (its root task    *)
(* stack) is named t as well, so one set names both.  A coroutine is       *)
(* resumed by an ordinary call: run[t] is the chain of coroutines resumed  *)
(* on thread t, the innermost last, because ConditionVariable::notify_one  *)
(* resumes a waiter of the same executor inside the notifier.              *)
(*                                                                         *)
(* The pool's mutex is held across two steps only between the test of      *)
(* line 1000 and the cv.wait after it (pc "wait"); every other critical    *)
(* section is one step.  The atomics and the notifications that the code   *)
(* performs without the mutex are steps of their own.                      *)
(***************************************************************************)
EXTENDS Integers, SequencesExt

CONSTANTS
    Threads,     \* the threads that call block_on, and their root coroutines
    Holders,     \* outside owners of one unit of external work each
    Outside,     \* coroutines whose condition variable is notified by threads
                 \* that do not run the pool ("synchronous code")
    Peers,       \* coroutines that may notify the waiters of their own pool
    Batch,       \* work items one visit to the queue takes at most (32)
    Spurious,    \* whether cv.wait may return without a notification
    MaxSuspend   \* bound: how often one coroutine suspends

ASSUME PoolAssumption ==
    /\ IsFiniteSet(Threads) /\ IsFiniteSet(Holders)
    /\ Threads \cap Holders = {}
    /\ Outside \subseteq Threads /\ Peers \subseteq Threads
    /\ Batch \in Nat \ {0}
    /\ Spurious \in BOOLEAN
    /\ MaxSuspend \in Nat

VARIABLES
    pc,             \* [Threads -> Location]: where each thread is in block_on
    run,            \* [Threads -> Seq(Threads)]: coroutines resumed on the thread
    batch,          \* [Threads -> Seq(Threads)]: tasks2, the work taken but not run
    tasks,          \* Seq(Threads): the shared queue of ready work
    sleeping,       \* Seq(Threads): delayed work still to come, earliest first
    due,            \* Seq(Threads): delayed work past its deadline, earliest first
    until,          \* [Threads -> SUBSET Threads]: the sleeper whose deadline a
                    \* timed wait is for, {} once that deadline has come
    blocked,        \* coroutines in some ConditionVariable's continuations
    counted,        \* who holds a unit of external work (an Awaiter with ex set)
    owing,          \* who has done fetch_sub and not yet cv.notify_one
    externalWork,   \* external_work
    activeThreads,  \* active_threads
    seen,           \* [Threads -> Nat]: the x a thread passed to atomic_wait
    done,           \* root coroutines that have put their result
    left            \* [Threads -> Nat]: suspensions a coroutine has left

vars == <<pc, run, batch, tasks, sleeping, due, until, blocked, counted, owing,
          externalWork, activeThreads, seen, done, left>>

ready  == <<tasks, sleeping, due, until>>
work   == <<blocked, counted, owing, externalWork>>
leaving == <<activeThreads, seen>>

Agents   == Threads \cup Holders
Asleep   == {"waiting", "timed"}
InLoop   == {"take", "run", "check", "wait"} \cup Asleep
Location == InLoop \cup {"out", "start", "leave", "announce", "drain", "parking",
                         "parked", "result", "returned", "failed"}

Waiters(p) == {t \in Threads : p[t] \in Asleep}
MutexFree  == \A t \in Threads : pc[t] # "wait"

\* A waiter that cv.wait lets go re-locks and unlocks the mutex, then starts the
\* loop again.
NotifyOne(p) ==
    IF Waiters(p) = {} THEN {p}
                       ELSE {[p EXCEPT ![t] = "take"] : t \in Waiters(p)}

NotifyAll_None(p) == p

NotifyAll(p) == [t \in Threads |-> IF p[t] \in Asleep THEN "take" ELSE p[t]]

Init ==
    /\ pc = [t \in Threads |-> "out"]
    /\ run = [t \in Threads |-> <<>>]
    /\ batch = [t \in Threads |-> <<>>]
    /\ tasks = <<>> /\ sleeping = <<>> /\ due = <<>>
    /\ until = [t \in Threads |-> {}]
    /\ blocked = {} /\ counted = Holders /\ owing = {}
    /\ externalWork = Cardinality(Holders)
    /\ activeThreads = 0
    /\ seen = [t \in Threads |-> 0]
    /\ done = {}
    /\ left = [t \in Threads |-> MaxSuspend]

-----------------------------------------------------------------------------
(***************************************************************************)
(* What a coroutine does while it is the innermost one resumed on a thread *)
(***************************************************************************)

Innermost(t, x) == run[t] # <<>> /\ x = Last(run[t])

\* A coroutine resumed from a condition variable first destroys its Awaiter,
\* which gives its unit of external work back (DecrementExternalWork).
Runs(t, x) == Innermost(t, x) /\ x \notin counted \cup owing

Popped(t) == [run EXCEPT ![t] = Front(@)]

Suspends(t, x) ==
    /\ left[x] > 0
    /\ left' = [left EXCEPT ![x] = @ - 1]
    /\ run' = Popped(t)

\* co_await Yield{}: current_executor->spawn(Work).
Yield(t, x) ==
    /\ Runs(t, x) /\ MutexFree
    /\ Suspends(t, x)
    /\ tasks' = Append(tasks, x)
    /\ pc' \in NotifyOne(pc)
    /\ UNCHANGED <<batch, sleeping, due, until, work, leaving, done>>

\* co_await Sleep{...}: spawn(Work, until).
Sleep(t, x) ==
    /\ Runs(t, x) /\ MutexFree
    /\ Suspends(t, x)
    /\ \E i \in 1..(Len(sleeping) + 1) : sleeping' = InsertAt(sleeping, i, x)
    /\ pc' \in NotifyOne(pc)
    /\ UNCHANGED <<batch, tasks, due, until, work, leaving, done>>

Count_Forgotten(x) == counted' = counted \cup {x} /\ externalWork' = externalWork

\* increment_external_work()
Count(x) == counted' = counted \cup {x} /\ externalWork' = externalWork + 1

\* co_await cv.wait(lock): enqueue the continuation, count external work.
Block(t, x) ==
    /\ Runs(t, x)
    /\ Suspends(t, x)
    /\ blocked' = blocked \cup {x}
    /\ Count(x)
    /\ UNCHANGED <<pc, batch, ready, owing, leaving, done>>

\* notify_one() takes the waiter off the continuations before it resumes it.
Pop_Forgotten(y) == blocked' = blocked

Pop(y) == blocked' = blocked \ {y}

\* cv.notify_one() from a coroutine of the pool: the waiter's executor is the
\* current one, so it is resumed here and now, inside the notifier.
NotifyPeer(t, x, y) ==
    /\ Runs(t, x) /\ x \in Peers
    /\ y \in blocked
    /\ Pop(y)
    /\ run' = [run EXCEPT ![t] = Append(@, y)]
    /\ UNCHANGED <<pc, batch, ready, counted, owing, externalWork,
                   leaving, done, left>>

\* cv.notify_one() from any other thread: schedule(), hence spawn(Work).
NotifyFromOutside(y) ==
    /\ y \in Outside \cap blocked /\ MutexFree
    /\ Pop(y)
    /\ tasks' = Append(tasks, y)
    /\ pc' \in NotifyOne(pc)
    /\ UNCHANGED <<run, batch, sleeping, due, until, counted, owing, externalWork,
                   leaving, done, left>>

\* The root coroutine puts its result and falls off its final suspend point.
Finish(t, x) ==
    /\ Runs(t, x)
    /\ done' = done \cup {x}
    /\ run' = Popped(t)
    /\ UNCHANGED <<pc, batch, ready, work, leaving, left>>

\* decrement_external_work(), first half: the fetch_sub.  A coroutine does it
\* when it resumes, a holder whenever it likes.
DecrementExternalWork(a) ==
    /\ a \in counted
    /\ a \in Holders \/ \E t \in Threads : Innermost(t, a)
    /\ counted' = counted \ {a}
    /\ owing' = owing \cup {a}
    /\ externalWork' = externalWork - 1
    /\ UNCHANGED <<pc, run, batch, ready, blocked, leaving, done, left>>

\* decrement_external_work(), second half: cv.notify_one() without the mutex.
NotifyDecrement(a) ==
    /\ a \in owing
    /\ owing' = owing \ {a}
    /\ pc' \in NotifyOne(pc)
    /\ UNCHANGED <<run, batch, ready, blocked, counted, externalWork,
                   leaving, done, left>>

-----------------------------------------------------------------------------
(***************************************************************************)
(* block_on(task) on thread t                                              *)
(***************************************************************************)

\* The root coroutine starts at once (initial_suspend is suspend_never) on the
\* calling thread, before the thread counts as active.
Start(t) ==
    /\ pc[t] = "out"
    /\ pc' = [pc EXCEPT ![t] = "start"]
    /\ run' = [run EXCEPT ![t] = <<t>>]
    /\ UNCHANGED <<batch, ready, work, leaving, done, left>>

\* active_threads.fetch_add(1)
Register(t) ==
    /\ pc[t] = "start" /\ run[t] = <<>>
    /\ activeThreads' = activeThreads + 1
    /\ pc' = [pc EXCEPT ![t] = "take"]
    /\ UNCHANGED <<run, batch, ready, work, seen, done, left>>

\* The first critical section: a batch of ready work, all delayed work that is
\* due, and a call for help if ready work remains.
TakeCount == IF Len(tasks) < Batch THEN Len(tasks) ELSE Batch

Taken == SubSeq(tasks, 1, TakeCount) \o due

Take(t) ==
    /\ pc[t] = "take" /\ MutexFree
    /\ batch' = [batch EXCEPT ![t] = Taken]
    /\ tasks' = SubSeq(tasks, TakeCount + 1, Len(tasks))
    /\ due' = <<>>
    /\ \E p \in IF Len(tasks) > TakeCount THEN NotifyOne(pc) ELSE {pc} :
           pc' = [p EXCEPT ![t] = IF Taken = <<>> THEN "check" ELSE "run"]
    /\ UNCHANGED <<run, sleeping, until, work, leaving, done, left>>

\* for (auto& task : tasks2) std::move(task)(): each resumes its coroutine.
Resume(t) ==
    /\ pc[t] = "run" /\ run[t] = <<>> /\ batch[t] # <<>>
    /\ run' = [run EXCEPT ![t] = <<Head(batch[t])>>]
    /\ batch' = [batch EXCEPT ![t] = Tail(@)]
    /\ UNCHANGED <<pc, ready, work, leaving, done, left>>

EndBatch_WithoutRetake(t) ==
    /\ pc[t] = "run" /\ run[t] = <<>> /\ batch[t] = <<>>
    /\ pc' = [pc EXCEPT ![t] = "check"]
    /\ UNCHANGED <<run, batch, ready, work, leaving, done, left>>

\* while (!tasks2.empty()): some work was run, so look at the queue again.
EndBatch(t) ==
    /\ pc[t] = "run" /\ run[t] = <<>> /\ batch[t] = <<>>
    /\ pc' = [pc EXCEPT ![t] = "take"]
    /\ UNCHANGED <<run, batch, ready, work, leaving, done, left>>

\* The second critical section.  It re-reads the queue for the decision to leave
\* and for nothing else: a queue that has filled up since Take sends the thread
\* to cv.wait all the same.
NothingLeft_ExceptExternal == tasks = <<>> /\ sleeping = <<>> /\ due = <<>>

NothingLeft ==
    externalWork = 0 /\ tasks = <<>> /\ sleeping = <<>> /\ due = <<>>

Check(t) ==
    /\ pc[t] = "check" /\ MutexFree
    /\ pc' = [pc EXCEPT ![t] = IF NothingLeft THEN "leave" ELSE "wait"]
    /\ UNCHANGED <<run, batch, ready, work, leaving, done, left>>

\* cv.wait, or cv.wait_until the deadline of delayed_tasks.top().
NextDeadline_Latest ==
    IF due = <<>> /\ sleeping # <<>> THEN {Last(sleeping)} ELSE {}

NextDeadline == IF due = <<>> /\ sleeping # <<>> THEN {Head(sleeping)} ELSE {}

Wait(t) ==
    /\ pc[t] = "wait"
    /\ pc' = [pc EXCEPT ![t] = IF sleeping = <<>> /\ due = <<>> THEN "waiting"
                                                                ELSE "timed"]
    /\ until' = [until EXCEPT ![t] = NextDeadline]
    /\ UNCHANGED <<run, batch, tasks, sleeping, due, work, leaving, done, left>>

TimedWake(t) ==
    /\ pc[t] = "timed" /\ until[t] = {}
    /\ pc' = [pc EXCEPT ![t] = "take"]
    /\ UNCHANGED <<run, batch, ready, work, leaving, done, left>>

SpuriousWake(t) ==
    /\ Spurious /\ pc[t] \in Asleep
    /\ pc' = [pc EXCEPT ![t] = "take"]
    /\ UNCHANGED <<run, batch, ready, work, leaving, done, left>>

\* Time passes the deadline of delayed_tasks.top().
Tick ==
    /\ sleeping # <<>>
    /\ sleeping' = Tail(sleeping)
    /\ due' = Append(due, Head(sleeping))
    /\ until' = [t \in Threads |-> until[t] \ {Head(sleeping)}]
    /\ UNCHANGED <<pc, run, batch, tasks, work, leaving, done, left>>

\* The scope exit of the loop: fetch_sub(1), then atomic_notify_all.
Leave(t) ==
    /\ pc[t] = "leave"
    /\ activeThreads' = activeThreads - 1
    /\ pc' = [pc EXCEPT ![t] = "announce"]
    /\ UNCHANGED <<run, batch, ready, work, seen, done, left>>

\* A thread in atomic_wait goes on if the value it passed is not the current one.
Unpark(p) ==
    [t \in Threads |-> IF p[t] = "parked" /\ seen[t] # activeThreads
                       THEN "drain" ELSE p[t]]

Announce(t) ==
    /\ pc[t] = "announce"
    /\ pc' = [Unpark(pc) EXCEPT ![t] = "drain"]
    /\ UNCHANGED <<run, batch, ready, work, leaving, done, left>>

AllLeft_ButOne == activeThreads <= 1

AllLeft == activeThreads = 0

\* while (x = active_threads.load()) { cv.notify_all(); atomic_wait(..., x); }
Drain(t) ==
    /\ pc[t] = "drain"
    /\ pc' = IF AllLeft THEN [pc EXCEPT ![t] = "result"]
                       ELSE [NotifyAll(pc) EXCEPT ![t] = "parking"]
    /\ seen' = [seen EXCEPT ![t] = activeThreads]
    /\ UNCHANGED <<run, batch, ready, work, activeThreads, done, left>>

Park(t) ==
    /\ pc[t] = "parking"
    /\ pc' = [pc EXCEPT ![t] = IF seen[t] = activeThreads THEN "parked" ELSE "drain"]
    /\ UNCHANGED <<run, batch, ready, work, leaving, done, left>>

\* take_result() asserts that the root has put its result.
TakeResult(t) ==
    /\ pc[t] = "result"
    /\ pc' = [pc EXCEPT ![t] = IF t \in done THEN "returned" ELSE "failed"]
    /\ UNCHANGED <<run, batch, ready, work, leaving, done, left>>

-----------------------------------------------------------------------------
CoroutineStep(t) ==
    \E x \in Threads :
        \/ Yield(t, x) \/ Sleep(t, x) \/ Block(t, x) \/ Finish(t, x)
        \/ \E y \in Threads : NotifyPeer(t, x, y)

LoopStep(t) ==
    \/ Register(t) \/ Take(t) \/ Resume(t) \/ EndBatch(t) \/ Check(t) \/ Wait(t)
    \/ TimedWake(t) \/ Leave(t) \/ Announce(t) \/ Drain(t) \/ Park(t) \/ TakeResult(t)

Next ==
    \/ \E t \in Threads : Start(t) \/ CoroutineStep(t) \/ LoopStep(t) \/ SpuriousWake(t)
    \/ \E a \in Agents : DecrementExternalWork(a) \/ NotifyDecrement(a)
    \/ \E y \in Outside : NotifyFromOutside(y)
    \/ Tick

Spec == Init /\ [][Next]_vars

\* The operating system runs every thread that can run, time passes, and the code
\* outside the pool that owes a notification or a decrement gets to it.
Fairness ==
    /\ \A t \in Threads : WF_vars(CoroutineStep(t)) /\ WF_vars(LoopStep(t))
    /\ \A a \in Agents : WF_vars(DecrementExternalWork(a)) /\ WF_vars(NotifyDecrement(a))
    /\ \A y \in Outside : WF_vars(NotifyFromOutside(y))
    /\ WF_vars(Tick)

FairSpec == Spec /\ Fairness

-----------------------------------------------------------------------------
(***************************************************************************)
(* Properties                                                              *)
(***************************************************************************)

\* The state variables have their types; external_work and active_threads, which
\* are unsigned in the code, never go below zero.
TypeOK ==
    /\ pc \in [Threads -> Location]
    /\ run \in [Threads -> Seq(Threads)]
    /\ batch \in [Threads -> Seq(Threads)]
    /\ tasks \in Seq(Threads)
    /\ sleeping \in Seq(Threads)
    /\ due \in Seq(Threads)
    /\ until \in [Threads -> SUBSET Threads]
    /\ blocked \subseteq Threads
    /\ counted \subseteq Agents
    /\ owing \subseteq Agents
    /\ externalWork \in Nat
    /\ activeThreads \in Nat
    /\ seen \in [Threads -> Nat]
    /\ done \subseteq Threads
    /\ left \in [Threads -> Nat]

Started    == {x \in Threads : pc[x] # "out"}
Unfinished == Started \ done

\* The places that will resume a coroutine: the shared queues, and the stack and
\* the batch of each thread.
Queues == {"tasks", "sleeping", "due", "run", "batch"}

Content(q, t) ==
    CASE q = "tasks"    -> tasks
      [] q = "sleeping" -> sleeping
      [] q = "due"      -> due
      [] q = "run"      -> run[t]
      [] q = "batch"    -> batch[t]

SamePlace(q, t, r, u) == q = r /\ (q \in {"run", "batch"} => t = u)

\* Nothing is lost: a coroutine that has started and not finished is resumed by
\* some place or waits in a condition variable.
NothingLost ==
    \A x \in Unfinished : x \in blocked \/ \E q \in Queues, t \in Threads :
                                               x \in ToSet(Content(q, t))

\* Nothing is resumed that has finished or waits in a condition variable.
NothingStale ==
    /\ blocked \subseteq Unfinished
    /\ \A q \in Queues, t \in Threads :
           ToSet(Content(q, t)) \subseteq Unfinished \ blocked

\* No coroutine is in two places or twice in one.
NothingTwice ==
    \A q \in Queues, t \in Threads : \A i \in DOMAIN Content(q, t) :
        \A r \in Queues, u \in Threads : \A j \in DOMAIN Content(r, u) :
            Content(q, t)[i] = Content(r, u)[j] => SamePlace(q, t, r, u) /\ i = j

\* Inv1 of runtime.h:120, "one thread at a time can operate on a task stack":
\* exactly one place will resume a coroutine, so that none is lost, and no thread
\* resumes one that another thread runs or that has finished.
Inv1 == NothingLost /\ NothingStale /\ NothingTwice

\* While a coroutine has not finished, some thread is still in the loop of
\* block_on or has yet to enter it: the test of line 1000 never lets the last
\* thread go while work is taken, queued, delayed or awaited by other threads.
NoOrphanedWork ==
    Unfinished # {} => \E t \in Threads : pc[t] \in InLoop \cup {"start"}

\* Ready work that the pool itself has spawned is never left to threads that are all
\* asleep, or on their way to cv.wait, or gone: some thread is bound to look at the
\* queue again.  It is this that makes the unconditional cv.wait of line 1006 harmless
\* for the coroutines that no other thread notifies.
WorkIsAttended ==
    \/ ToSet(tasks) \subseteq Outside
    \/ \E t \in Threads : pc[t] \in {"start", "take", "run"}

\* The earliest deadline is never missed: some thread is awake, or sleeps no
\* longer than until that deadline.
DeadlineIsAttended ==
    /\ sleeping # <<>> =>
           \E t \in Threads : \/ pc[t] \in {"start", "take", "run", "check", "wait"}
                              \/ pc[t] = "timed" /\ until[t] \subseteq {Head(sleeping)}
    /\ due # <<>> =>
           \E t \in Threads : \/ pc[t] \in {"start", "take", "run", "check", "wait"}
                              \/ pc[t] = "timed" /\ until[t] = {}

\* take_result() finds the result of the root (the assertion of runtime.h:147):
\* block_on does not come back before its own task has finished.
ResultReady == \A t \in Threads : pc[t] # "failed"

\* A thread that stops waiting for the others does so with its root finished,
\* unless some block_on has started its own root and not yet counted itself.
DrainsToResult ==
    [][\A t \in Threads : pc[t] = "drain" /\ pc'[t] = "result" =>
           t \in done \/ \E u \in Threads : pc[u] = "start"]_vars

\* Every block_on that has started returns, if no coroutine waits for ever for a
\* notification nobody sends, and none that other threads notify stays in the queue
\* (NotifiedIsResumed, which the code does not promise).
Returns(t) == pc[t] \in {"returned", "failed"}

Termination ==
    /\ []<>(blocked = {})
    /\ []<>(ToSet(tasks) \cap Outside = {})
    => \A t \in Threads : pc[t] = "start" ~> Returns(t)

\* What notify_one puts into the queue is resumed.
NotifiedIsResumed == \A x \in Threads : x \in ToSet(tasks) ~> x \notin ToSet(tasks)
=============================================================================
