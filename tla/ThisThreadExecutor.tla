------------------------- MODULE ThisThreadExecutor -------------------------
(***************************************************************************)
(* ThisThreadExecutor of include/alonite/runtime.h: one thread in          *)
(* block_on, which polls its queue and its delayed work, the coroutines it *)
(* runs, and the calls that reach the executor from other threads.         *)
(*                                                                         *)
(* Time is what is left until a deadline.  It passes only while the thread *)
(* sleeps: what the thread does takes no time.                             *)
(***************************************************************************)
EXTENDS Integers, SequencesExt

CONSTANTS
    Root,       \* the coroutine that block_on has been given
    Children,   \* the coroutines that others spawn, or await under a Timeout
    Foreign,    \* coroutines that may await a task of another executor
    Racing,     \* whether a push by another thread may meet an access of this one
    Durations,  \* of Sleep and Timeout
    Slumber,    \* 10 ms
    MaxSuspend  \* bound: how often the coroutines suspend, all together

Coroutines == {Root} \cup Children

ASSUME ThisThreadAssumption ==
    /\ IsFiniteSet(Children) /\ Root \notin Children
    /\ Foreign \subseteq Coroutines /\ Racing \in BOOLEAN
    /\ Durations \subseteq Nat \ {0} /\ IsFiniteSet(Durations)
    /\ Slumber \in Nat \ {0} /\ MaxSuspend \in Nat

VARIABLES
    pc,            \* where the thread is in block_on
    run,           \* Seq(Coroutines): the coroutines it has resumed, innermost last
    tasks,         \* Seq(Work)
    batch,         \* Seq(Work): what is still to run of tasks2
    spent,         \* SUBSET Coroutines: the stacks that what has run of it owns
    delayed,       \* SUBSET Delayed: delayed_tasks
    wake,          \* what is left of the slumber
    stage,         \* [Coroutines -> {"absent", "live", "finished", "destroyed"}]
    awaiter,       \* [Children -> SUBSET Coroutines]: who awaits it under a Timeout
    handle,        \* [Children -> SUBSET Coroutines]: who is in its spawn()
    guarded,       \* spawned_tasks
    kept,          \* [Coroutines -> SUBSET Children]: TaskStack::guard
    blocked,       \* coroutines in the continuations of a ConditionVariable
    away,          \* coroutines whose callee is on another executor
    abroad,        \* coroutines whose stack a thread of another executor holds
    counted,       \* coroutines that hold a unit of external work
    externalWork,  \* external_work
    idle,          \* time since the last coroutine has ended and other threads have let go
                   \* of the last stack, up to Slumber + 1
    left           \* suspensions that the bound still allows

queues == <<tasks, batch, spent, delayed, wake>>
stacks == <<stage, awaiter, handle, guarded, kept>>
outer  == <<blocked, away, abroad, counted, externalWork>>
vars   == <<pc, run, queues, stacks, outer, idle, left>>

\* "weak": Yield and Sleep.  "strong": schedule().  "timer": the delayed Work of a
\* Timeout.  "cancel": cancel_and_continue().
Work    == [who : Coroutines, what : {"weak", "strong", "timer", "cancel"}]
Delayed == [who : Coroutines, what : {"weak", "timer"}, in : Nat \cup {-1}]

W(x, what) == [who |-> x, what |-> what]

Init ==
    /\ pc = "start" /\ run = <<Root>>
    /\ tasks = <<>> /\ batch = <<>> /\ spent = {} /\ delayed = {} /\ wake = 0
    /\ stage = [x \in Coroutines |-> IF x = Root THEN "live" ELSE "absent"]
    /\ awaiter = [c \in Children |-> {}] /\ handle = [c \in Children |-> {}]
    /\ guarded = {} /\ kept = [x \in Coroutines |-> {}]
    /\ blocked = {} /\ away = {} /\ abroad = {} /\ counted = {} /\ externalWork = 0
    /\ idle = 0
    /\ left = MaxSuspend

\* Who holds a stack: block_on, a JoinHandle, the executor, the thread, a Work of
\* schedule(), which lives as long as the queue it is in or tasks2, a thread of another
\* executor, ...
Owned ==
    {Root} \cup {c \in Children : handle[c] # {}} \cup guarded
    \cup spent \cup abroad \cup ToSet(run)
    \cup {w.who : w \in {v \in ToSet(tasks) \cup ToSet(batch) : v.what = "strong"}}

\* ... or the TaskStack::guard of a stack that is held: who is alive is the least set that
\* contains the former and, with a stack, what its guard keeps.
Alive(x) ==
    \A S \in SUBSET Coroutines :
        Owned \subseteq S /\ (\A y \in S : kept[y] \subseteq S) => x \in S

\* What the thread, or another one, is about to destroy: the last reference has gone.
Dying == {x \in Coroutines : stage[x] = "live" /\ x \notin Owned}

Canceled(w) == w.what \in {"weak", "timer"} /\ ~Alive(w.who)

-----------------------------------------------------------------------------
(***************************************************************************)
(* The innermost coroutine x                                               *)
(***************************************************************************)

Current(x) == run # <<>> /\ x = Last(run) /\ Dying = {}

\* It goes on when the spawn() that it has called has returned.
Runs(x) == Current(x) /\ \A c \in Children : x \notin handle[c]

Popped == Front(run)

\* Mutant: the objects in the coroutines keep their units.
Unwound_Forgotten(D) == UNCHANGED <<counted, externalWork>>

Unwound(D) ==
    /\ counted' = counted \ D
    /\ externalWork' = externalWork - Cardinality(counted \cap D)

\* ~TaskStack destroys the coroutines, and with them Awaiters and WithExecutors.
Destroy ==
    /\ Dying # {}
    /\ stage' = [x \in Coroutines |-> IF x \in Dying THEN "destroyed" ELSE stage[x]]
    /\ blocked' = blocked \ Dying /\ away' = away \ Dying
    /\ Unwound(Dying)
    /\ UNCHANGED <<pc, run, queues, abroad, awaiter, handle, guarded, kept, idle, left>>

AwaiterOf(x) == IF x = Root THEN {} ELSE awaiter[x]

Suspends(x) ==
    /\ Runs(x) /\ left > 0
    /\ left' = left - 1

\* co_await Yield{}
Yield(x) ==
    /\ Suspends(x)
    /\ run' = Popped
    /\ tasks' = Append(tasks, W(x, "weak"))
    /\ UNCHANGED <<pc, batch, spent, delayed, wake, stacks, outer, idle>>

\* co_await Sleep{d}
Sleep(x, d) ==
    /\ Suspends(x)
    /\ run' = Popped
    /\ delayed' = delayed \cup {[who |-> x, what |-> "weak", in |-> d]}
    /\ UNCHANGED <<pc, tasks, batch, spent, wake, stacks, outer, idle>>

\* Mutant: the unit is given back but has not been counted.
Count_Forgotten(x) == counted' = counted \cup {x} /\ UNCHANGED externalWork

Count(x) == counted' = counted \cup {x} /\ externalWork' = externalWork + 1

\* co_await cv.wait(lock)
Block(x) ==
    /\ Suspends(x)
    /\ run' = Popped
    /\ blocked' = blocked \cup {x}
    /\ Count(x)
    /\ UNCHANGED <<pc, queues, stacks, away, abroad, idle>>

\* co_await WithExecutor{...}
Hop(x) ==
    /\ Suspends(x)
    /\ run' = Popped
    /\ away' = away \cup {x} /\ abroad' = abroad \cup {x}
    /\ Count(x)
    /\ UNCHANGED <<pc, queues, stacks, blocked, idle>>

\* co_await of the JoinHandle of a task that runs on another executor: no unit.
Join(x) ==
    /\ x \in Foreign /\ Suspends(x)
    /\ run' = Popped
    /\ away' = away \cup {x}
    /\ UNCHANGED <<pc, queues, stacks, blocked, abroad, counted, externalWork, idle>>

\* What is resumed destroys its Awaiter or WithExecutor.
Resumed(y) ==
    /\ counted' = counted \ {y}
    /\ externalWork' = externalWork - Cardinality(counted \cap {y})

\* cv.notify_one() by a coroutine of this executor.
Notify(x, y) ==
    /\ Runs(x) /\ y \in blocked /\ Alive(y)
    /\ blocked' = blocked \ {y}
    /\ run' = Append(run, y)
    /\ Resumed(y)
    /\ UNCHANGED <<pc, queues, stacks, away, abroad, idle, left>>

\* spawn(c): the handle holds the stack, and c runs at once, inside the caller, until it is
\* suspended or ends.
Spawn(x, c) ==
    /\ Runs(x) /\ stage[c] = "absent"
    /\ stage' = [stage EXCEPT ![c] = "live"]
    /\ handle' = [handle EXCEPT ![c] = {x}]
    /\ run' = Append(run, c)
    /\ UNCHANGED <<pc, queues, awaiter, guarded, kept, outer, idle, left>>

\* spawn() has returned, and the caller drops the handle: ~JoinHandle gives the stack to
\* the executor, even that of a task that has ended.
DropHandle(x, c) ==
    /\ Current(x) /\ x \in handle[c]
    /\ handle' = [handle EXCEPT ![c] = {}]
    /\ guarded' = guarded \cup {c}
    /\ UNCHANGED <<pc, run, queues, stage, awaiter, kept, outer, idle, left>>

\* co_await Timeout{d, c}: guard, delayed work, and transfer to c.
Timeout(x, c, d) ==
    /\ Suspends(x) /\ stage[c] = "absent"
    /\ stage' = [stage EXCEPT ![c] = "live"]
    /\ awaiter' = [awaiter EXCEPT ![c] = {x}]
    /\ guarded' = guarded \cup {c}
    /\ delayed' = delayed \cup {[who |-> c, what |-> "timer", in |-> d]}
    /\ run' = Append(Popped, c)
    /\ UNCHANGED <<pc, tasks, batch, spent, wake, handle, kept, outer, idle>>

\* The end of a coroutine that is not under a Timeout ...
Finish(x) ==
    /\ Runs(x) /\ AwaiterOf(x) = {}
    /\ stage' = [stage EXCEPT ![x] = "finished"]
    /\ guarded' = guarded \ {x}
    /\ run' = Popped
    /\ UNCHANGED <<pc, queues, awaiter, handle, kept, outer, idle, left>>

\* ... and of one that is: if its awaiter is still there, and the timer has not been
\* faster, it removes its guard, leaves its stack to the awaiter and continues it.
FinishInTime(x) ==
    /\ Runs(x) /\ AwaiterOf(x) # {}
    /\ stage' = [stage EXCEPT ![x] = "finished"]
    /\ IF x \in guarded /\ \A p \in AwaiterOf(x) : Alive(p)
       THEN \E p \in AwaiterOf(x) : /\ guarded' = guarded \ {x}
                                    /\ kept' = [kept EXCEPT ![p] = {x}]
                                    /\ run' = Append(Popped, p)
       ELSE UNCHANGED <<guarded, kept>> /\ run' = Popped
    /\ UNCHANGED <<pc, queues, awaiter, handle, outer, idle, left>>

-----------------------------------------------------------------------------
(***************************************************************************)
(* block_on                                                                *)
(***************************************************************************)

\* The first stretch of the root is over.
Enter ==
    /\ pc = "start" /\ run = <<>> /\ Dying = {}
    /\ pc' = "swap"
    /\ UNCHANGED <<run, queues, stacks, outer, idle, left>>

\* Mutant: the work of stacks that are gone waits for its deadline.
Prunable_Due(d) == d.in <= 0

Prunable(d) == d.in <= 0 \/ Canceled(d)

\* The orders in which the priority queue may give its elements.
Orders == {s \in SetToSeqs(delayed) : \A i, j \in DOMAIN s : i < j => s[i].in <= s[j].in}

\* Take the queue, and delayed work from the top as far as it is due or canceled.
Swap ==
    /\ pc = "swap" /\ Dying = {}
    /\ \E s \in Orders : \E n \in 0..Len(s) :
           /\ \A i \in 1..n : Prunable(s[i])
           /\ n < Len(s) => ~Prunable(s[n + 1])
           /\ batch' = tasks \o [i \in 1..n |-> W(s[i].who, s[i].what)]
           /\ delayed' = delayed \ {s[i] : i \in 1..n}
    /\ tasks' = <<>>
    /\ pc' = "run"
    /\ UNCHANGED <<run, spent, wake, stacks, outer, idle, left>>

Execute(what) ==
    /\ pc = "run" /\ run = <<>> /\ batch # <<>> /\ Head(batch).what \in what
    /\ Dying = {}
    /\ batch' = Tail(batch)

\* A Work that resumes a stack, if there still is one.
RunTask ==
    /\ Execute({"weak", "strong"})
    /\ LET x == Head(batch).who IN
           IF Alive(x) THEN run' = <<x>> /\ Resumed(x)
                       ELSE UNCHANGED <<run, counted, externalWork>>
    /\ spent' = IF Head(batch).what = "strong" THEN spent \cup {Head(batch).who} ELSE spent
    /\ UNCHANGED <<pc, tasks, delayed, wake, stacks, blocked, away, abroad, idle, left>>

\* Mutant: the timer does not ask who has removed the guard.
Claims_Always(c) == Alive(c)

\* remove_guard() of the timer
Claims(c) == c \in guarded

\* The delayed Work of a Timeout: it removes the guard, or the task has been faster.
RunTimer ==
    /\ Execute({"timer"})
    /\ LET c == Head(batch).who IN
           IF Claims(c)
           THEN /\ guarded' = guarded \ {c}
                /\ tasks' = Append(tasks, W(c, "cancel"))
           ELSE UNCHANGED <<guarded, tasks>>
    /\ UNCHANGED <<pc, run, spent, delayed, wake, stage, awaiter, handle, kept, outer, idle,
                   left>>

\* cancel_and_continue(): once more while the stack is there, then the awaiter.
RunCancel ==
    /\ Execute({"cancel"})
    /\ LET c == Head(batch).who IN
           IF Alive(c) THEN tasks' = Append(tasks, W(c, "cancel")) /\ UNCHANGED run
           ELSE UNCHANGED tasks /\ \E p \in awaiter[c] :
                    run' = IF Alive(p) THEN <<p>> ELSE run
    /\ UNCHANGED <<pc, spent, delayed, wake, stacks, outer, idle, left>>

\* while (!tasks.empty())
Again == tasks # <<>>

\* ~tasks2, and what it has kept alive.
EndBatch ==
    /\ pc = "run" /\ run = <<>> /\ batch = <<>> /\ Dying = {}
    /\ spent' = {}
    /\ pc' = IF Again THEN "swap" ELSE "decide"
    /\ UNCHANGED <<run, tasks, batch, delayed, wake, stacks, outer, idle, left>>

\* Mutant: external work is not waited for.
NothingLeft_ExceptExternal == delayed = {}

NothingLeft == delayed = {} /\ externalWork = 0

\* Mutant: the slumber does not look at the deadlines.
Slumbers_Whole == Slumber

\* 10 ms, or less if there is an earlier deadline.
Slumbers ==
    LET D == {Slumber} \cup {d.in : d \in delayed} IN
        CHOOSE t \in D : \A u \in D : t <= u

Decide ==
    /\ pc = "decide" /\ Dying = {}
    /\ IF NothingLeft THEN pc' = "result" /\ UNCHANGED wake
                      ELSE pc' = "asleep" /\ wake' = Slumbers
    /\ UNCHANGED <<run, tasks, batch, spent, delayed, stacks, outer, idle, left>>

Wake ==
    /\ pc = "asleep" /\ wake <= 0
    /\ pc' = "swap"
    /\ UNCHANGED <<run, queues, stacks, outer, idle, left>>

\* take_result()
TakeResult ==
    /\ pc = "result"
    /\ pc' = IF stage[Root] = "finished" THEN "returned" ELSE "failed"
    /\ UNCHANGED <<run, queues, stacks, outer, idle, left>>

-----------------------------------------------------------------------------
(***************************************************************************)
(* Time and other threads                                                  *)
(***************************************************************************)

Over == abroad = {} /\ \A x \in Coroutines : stage[x] # "live"

Tick ==
    /\ pc = "asleep" /\ wake > 0 /\ Dying = {}
    /\ wake' = wake - 1
    /\ delayed' = {[d EXCEPT !.in = IF @ = -1 THEN -1 ELSE @ - 1] : d \in delayed}
    /\ idle' = IF Over /\ idle <= Slumber THEN idle + 1 ELSE idle
    /\ UNCHANGED <<pc, run, tasks, batch, spent, stacks, outer, left>>

\* schedule() on another thread, by notify_one() or FinalAwaiter: push_back without a
\* lock.  While this thread sleeps it does not touch the queue; otherwise the two may
\* meet, and the element may be lost.
RemotePush(y) ==
    /\ y \in blocked \cup away /\ Alive(y)
    /\ blocked' = blocked \ {y} /\ away' = away \ {y}
    /\ tasks' \in {Append(tasks, W(y, "strong"))} \cup
                  IF Racing /\ pc # "asleep" THEN {tasks} ELSE {}
    /\ UNCHANGED <<pc, run, batch, spent, delayed, wake, stacks, abroad, counted,
                   externalWork, idle, left>>

\* The callee suspends on its executor, or has ended and the batch of that executor ends:
\* its thread drops the stack.
LetGo(y) ==
    /\ y \in abroad
    /\ abroad' = abroad \ {y}
    /\ UNCHANGED <<pc, run, queues, stacks, blocked, away, counted, externalWork, idle, left>>

CoroutineStep ==
    \E x \in Coroutines :
        \/ Yield(x) \/ Block(x) \/ Hop(x) \/ Join(x) \/ Finish(x) \/ FinishInTime(x)
        \/ \E y \in Coroutines : Notify(x, y)
        \/ \E d \in Durations : Sleep(x, d)
        \/ \E c \in Children : \/ Spawn(x, c) \/ DropHandle(x, c)
                              \/ \E d \in Durations : Timeout(x, c, d)

LoopStep ==
    \/ Enter \/ Swap \/ RunTask \/ RunTimer \/ RunCancel \/ EndBatch \/ Decide
    \/ Wake \/ TakeResult \/ Destroy

Next ==
    \/ CoroutineStep \/ LoopStep \/ Tick
    \/ \E y \in Coroutines : RemotePush(y) \/ LetGo(y)

Spec == Init /\ [][Next]_vars

\* The thread runs, time passes, and what is away comes back.
Fairness ==
    /\ WF_vars(CoroutineStep) /\ WF_vars(LoopStep) /\ WF_vars(Tick)
    /\ \A y \in Coroutines : WF_vars(RemotePush(y)) /\ WF_vars(LetGo(y))

FairSpec == Spec /\ Fairness

-----------------------------------------------------------------------------
\* The variables have their types; external_work never goes below zero.
TypeOK ==
    /\ pc \in {"start", "swap", "run", "decide", "asleep", "result", "returned", "failed"}
    /\ run \in Seq(Coroutines) /\ tasks \in Seq(Work) /\ batch \in Seq(Work)
    /\ spent \subseteq Coroutines
    /\ delayed \subseteq Delayed /\ wake \in 0..Slumber
    /\ stage \in [Coroutines -> {"absent", "live", "finished", "destroyed"}]
    /\ awaiter \in [Children -> SUBSET Coroutines]
    /\ handle \in [Children -> SUBSET Coroutines]
    /\ guarded \subseteq Children /\ kept \in [Coroutines -> SUBSET Children]
    /\ blocked \subseteq Coroutines /\ away \subseteq Coroutines
    /\ abroad \subseteq Coroutines /\ counted \subseteq Coroutines
    /\ externalWork \in Nat /\ idle \in 0..(Slumber + 1)
    /\ left \in Nat

\* take_result() finds the result of the root (runtime.h:147), although the decision
\* to leave (867) does not look at the queue: what other threads will push is counted.
\* (As long as the root awaits no task of another executor.)
ResultReady == pc # "failed"

\* How many elements of a sequence are in a set.
Number(s, V) == Cardinality({i \in DOMAIN s : s[i] \in V})

\* Who is brought back by a Work, who by the end of a Sleep, and who by the Timeout that it
\* awaits.
Queued(x, what) ==
    LET V == [who : {x}, what : what] IN Number(tasks, V) + Number(batch, V)

Sleeps(x) == {d \in delayed : d.who = x /\ d.what = "weak"}

Timeouts(x) == {c \in Children : x \in awaiter[c] /\ (c \in guarded \/ Queued(c, {"cancel"}) > 0)}

\* In how many ways it goes on: it runs, is queued, sleeps, waits, is away, or awaits a
\* Timeout, which gives it the result or cancels, and never does both.
Ways(x) ==
    Number(run, {x}) + Queued(x, {"weak", "strong"}) + Cardinality(Sleeps(x))
    + Cardinality(blocked \cap {x}) + Cardinality(away \cap {x}) + Cardinality(Timeouts(x))

\* A coroutine that has not ended goes on in exactly one way.
GoesOnOnce == \A x \in Coroutines : stage[x] = "live" /\ x \notin Dying => Ways(x) = 1

\* No deadline of a Sleep or a Timeout passes while the thread sleeps.
OnTime == \A d \in delayed : ~Canceled(d) => d.in >= 0

\* "No harm if it lives a bit longer ... the storage will be released sooner or later, when
\* the continuation completes" (runtime.h:247): block_on does not sleep on for what a
\* TaskStack::guard keeps, but returns at most one slumber after the last coroutine has ended.
NoHarm == idle <= Slumber

\* What may hold it back longer is a timer whose stack is alive, in a TaskStack::guard.
PrunesCanceled ==
    pc = "asleep" /\ idle > Slumber => \E d \in delayed : ~Canceled(d)

\* block_on returns.
Termination == <>(pc \in {"returned", "failed"})
=============================================================================
