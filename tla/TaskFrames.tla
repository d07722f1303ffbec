----------------------------- MODULE TaskFrames -----------------------------
(***************************************************************************)
(* One TaskStack of include/alonite/runtime.h and the coroutines on it:    *)
(* Task, which is called on the executor of its caller, WithExecutor,      *)
(* which is called on another executor and comes back, the result that     *)
(* goes from one to the other, and the references that keep the stack.     *)
(*                                                                         *)
(* The executors have several threads each and are seen from this stack:   *)
(* how many of their Works resume it, their external work, and whether     *)
(* block_on has returned.  ThreadPool and ThisThreadExecutor are their     *)
(* insides.                                                                *)
(***************************************************************************)
EXTENDS Naturals, SequencesExt

CONSTANTS
    Executors,   \* the executors
    Home,        \* the executor whose block_on has started the stack
    PerExecutor, \* the number of threads in the block_on of each
    Cancelable,  \* whether the owner may drop the stack (Timeout, WhenAny, abort)
    MaxDepth,    \* bound: coroutines on the stack
    MaxSteps     \* bound: calls and suspensions together

ASSUME FramesAssumption ==
    /\ IsFiniteSet(Executors) /\ Home \in Executors
    /\ PerExecutor \in Nat \ {0}
    /\ Cancelable \in BOOLEAN
    /\ MaxDepth \in Nat \ {0} /\ MaxSteps \in Nat

Threads       == Executors \X (1..PerExecutor)
ExecutorOf(u) == u[1]     \* current_executor

VARIABLES
    frames,       \* Seq(Frame), the innermost last
    result,       \* what put_result() has left on the stack
    entry,        \* whether the innermost one is in await_resume or in its body
    running,      \* the threads that run the innermost coroutine
    locked,       \* the threads that hold a strong reference
    strong,       \* [Executors -> Nat]: Works of schedule(), which own the stack
    weak,         \* [Executors -> Nat]: Works of Yield and Sleep, which do not
    waiting,      \* the stack is in the continuations of a ConditionVariable
    owned,        \* the owner of the stack holds it
    externalWork, \* [Executors -> Nat]
    left,         \* the executors whose block_on has returned
    crashed,      \* std::terminate() has been called
    steps         \* calls and suspensions that the bound still allows

queues == <<strong, weak, waiting>>
holds  == <<locked, owned>>
vars   == <<frames, result, entry, running, queues, holds, externalWork, left, crashed, steps>>

\* A coroutine of executor ex; unit is the executor on which an object in it, a
\* WithExecutor or the Awaiter of a ConditionVariable, holds external work.
Frame  == [ex : Executors, unit : SUBSET Executors]
Result == {"none", "value", "exception"}

Pushed(ex)    == [ex |-> ex, unit |-> {}]
Top           == Last(frames)
TopUnit(unit) == [frames EXCEPT ![Len(frames)].unit = unit]
Plus(f, e)    == [f EXCEPT ![e] = @ + 1]
Minus(f, e)   == [f EXCEPT ![e] = @ - 1]

Init ==
    /\ frames = <<Pushed(Home)>> /\ result = "none" /\ entry = "body"
    /\ running = {<<Home, 1>>} /\ locked = {<<Home, 1>>} /\ owned = TRUE
    /\ strong = [e \in Executors |-> 0] /\ weak = [e \in Executors |-> 0]
    /\ waiting = FALSE
    /\ externalWork = [e \in Executors |-> 0]
    /\ left = {} /\ crashed = FALSE /\ steps = MaxSteps

-----------------------------------------------------------------------------
(***************************************************************************)
(* The coroutine that a thread runs                                        *)
(***************************************************************************)

InBody(u) ==
    /\ u \in running /\ frames # <<>> /\ entry = "body" /\ Top.unit = {} /\ ~crashed

Step(u) == InBody(u) /\ steps > 0 /\ steps' = steps - 1

\* co_await of a Task: Task::await_suspend pushes it and transfers to it.
Call(u) ==
    /\ Step(u) /\ Len(frames) < MaxDepth
    /\ frames' = Append(frames, Pushed(Top.ex))
    /\ UNCHANGED <<result, entry, running, queues, holds, externalWork, left, crashed>>

\* Mutant: FinalAwaiter transfers to the caller that it has scheduled.
Gives_Not(u) == running

Gives(u) == running \ {u}

\* Mutant: the caller's executor is not told that the task will come back.
HopCounts_Not == externalWork

HopCounts == Plus(externalWork, Top.ex)

\* co_await WithExecutor{e, ...}: count on the caller's executor, push a coroutine
\* of e and schedule().
Hop(u, e) ==
    /\ Step(u) /\ Len(frames) < MaxDepth /\ e \notin left
    /\ frames' = Append(TopUnit({Top.ex}), Pushed(e))
    /\ externalWork' = HopCounts
    /\ strong' = Plus(strong, e)
    /\ running' = Gives(u)
    /\ UNCHANGED <<result, entry, weak, waiting, holds, left, crashed>>

\* Mutant: the caller continues where the callee has ended.
GoesHome_Never(u, ex) == FALSE

\* schedule_if_not(stack, current_executor)
GoesHome(u, ex) == ex # ExecutorOf(u)

\* final_suspend of a Task or of WithExecutor's coroutine, after put_result(): pop,
\* then FinalAwaiter.
Return(u) ==
    /\ InBody(u) /\ Len(frames) > 1
    /\ result' \in Result \ {"none"}
    /\ frames' = Front(frames)
    /\ entry' = "result"
    /\ LET ex == Last(Front(frames)).ex IN
           IF GoesHome(u, ex) THEN strong' = Plus(strong, ex) /\ running' = Gives(u)
                              ELSE UNCHANGED <<strong, running>>
    /\ UNCHANGED <<weak, waiting, holds, externalWork, left, crashed, steps>>

\* The first coroutine ends; its result stays on the stack for the owner.
Finish(u) ==
    /\ InBody(u) /\ Len(frames) = 1
    /\ result' \in Result \ {"none"}
    /\ frames' = <<>>
    /\ running' = Gives(u)
    /\ UNCHANGED <<entry, queues, holds, externalWork, left, crashed, steps>>

\* Mutant: an exception stays on the stack.
Taken_Value == IF result = "exception" THEN result ELSE "none"

Taken == "none"

\* await_resume: take_result().  That of WithExecutor is noexcept, although it
\* rethrows the exception that the callee has ended with.
TakeResult(u) ==
    /\ u \in running /\ frames # <<>> /\ entry = "result" /\ ~crashed
    /\ result' = Taken
    /\ entry' = "body"
    /\ crashed' = (result = "exception" /\ Top.unit # {})
    /\ UNCHANGED <<frames, running, queues, holds, externalWork, left, steps>>

\* Mutant: the object has been moved from, and keeps the unit.
GivenBack_Not(e) == externalWork

GivenBack(e) == Minus(externalWork, e)

\* ~WithExecutor or ~Awaiter, at the end of the co_await expression.
EndAwait(u) ==
    /\ u \in running /\ frames # <<>> /\ entry = "body" /\ Top.unit # {} /\ ~crashed
    /\ \E e \in Top.unit : externalWork' = GivenBack(e)
    /\ frames' = TopUnit({})
    /\ UNCHANGED <<result, entry, running, queues, holds, left, crashed, steps>>

\* co_await Yield spawns on the current executor, Sleep on that of the stack.
Spawn(u) ==
    /\ Step(u)
    /\ \E e \in {ExecutorOf(u), Top.ex} : weak' = Plus(weak, e)
    /\ running' = Gives(u)
    /\ UNCHANGED <<frames, result, entry, strong, waiting, holds, externalWork, left, crashed>>

\* co_await cv.wait(lock)
Wait(u) ==
    /\ Step(u)
    /\ waiting' = TRUE
    /\ frames' = TopUnit({ExecutorOf(u)})
    /\ externalWork' = Plus(externalWork, ExecutorOf(u))
    /\ running' = Gives(u)
    /\ UNCHANGED <<result, entry, strong, weak, holds, left, crashed>>

-----------------------------------------------------------------------------
(***************************************************************************)
(* The stack                                                               *)
(***************************************************************************)

Held == owned \/ locked # {} \/ \E e \in Executors : strong[e] > 0

Free(u) == u \in Threads \ running /\ ExecutorOf(u) \notin left /\ ~crashed

Runs(u) == locked' = locked \cup {u} /\ running' = running \cup {u}

\* A thread runs the Work of a schedule() ...
RunStrong(u) ==
    /\ Free(u) /\ strong[ExecutorOf(u)] > 0
    /\ strong' = Minus(strong, ExecutorOf(u))
    /\ Runs(u)
    /\ UNCHANGED <<frames, result, entry, weak, waiting, owned, externalWork, left,
                   crashed, steps>>

\* ... or that of a Yield or Sleep, if the stack is still there.
RunWeak(u) ==
    /\ Free(u) /\ weak[ExecutorOf(u)] > 0
    /\ weak' = Minus(weak, ExecutorOf(u))
    /\ IF Held THEN Runs(u) ELSE UNCHANGED <<locked, running>>
    /\ UNCHANGED <<frames, result, entry, strong, waiting, owned, externalWork, left,
                   crashed, steps>>

\* cv.notify_one() on a thread of the stack's executor resumes it there ...
NotifyHere(u) ==
    /\ Free(u) /\ waiting /\ Held /\ ~GoesHome(u, Top.ex)
    /\ waiting' = FALSE
    /\ Runs(u)
    /\ UNCHANGED <<frames, result, entry, strong, weak, owned, externalWork, left,
                   crashed, steps>>

\* ... and on any other thread calls schedule().
NotifyElsewhere ==
    /\ waiting /\ Held /\ ~crashed
    /\ waiting' = FALSE
    /\ strong' = Plus(strong, Top.ex)
    /\ UNCHANGED <<frames, result, entry, running, weak, holds, externalWork, left,
                   crashed, steps>>

\* Mutant: the objects in the coroutines do not give their external work back.
Unwound_Forgotten == externalWork

\* ~TaskStack destroys the coroutines and so the objects in them.
Unwound ==
    [e \in Executors |->
        externalWork[e] - Cardinality({i \in DOMAIN frames : e \in frames[i].unit})]

DestroyedIf(unheld) ==
    IF unheld THEN frames' = <<>> /\ externalWork' = Unwound
              ELSE UNCHANGED <<frames, externalWork>>

\* resume() returns, or the batch of the Work ends.
Release(u) ==
    /\ u \in locked \ running /\ ~crashed
    /\ locked' = locked \ {u}
    /\ DestroyedIf(~owned /\ locked = {u} /\ \A e \in Executors : strong[e] = 0)
    /\ UNCHANGED <<result, entry, running, queues, owned, left, crashed, steps>>

\* The owner drops the stack.
Cancel ==
    /\ Cancelable /\ owned /\ ~crashed
    /\ owned' = FALSE
    /\ DestroyedIf(locked = {} /\ \A e \in Executors : strong[e] = 0)
    /\ UNCHANGED <<result, entry, running, queues, locked, left, crashed, steps>>

\* block_on of e returns: no work, no external work, and no thread in its batch.
Leave(e) ==
    /\ e \notin left /\ ~crashed
    /\ strong[e] = 0 /\ weak[e] = 0 /\ externalWork[e] = 0
    /\ \A u \in locked : ExecutorOf(u) # e
    /\ left' = left \cup {e}
    /\ UNCHANGED <<frames, result, entry, running, queues, holds, externalWork,
                   crashed, steps>>

-----------------------------------------------------------------------------
Goes(u) ==
    \/ Call(u) \/ Return(u) \/ Finish(u) \/ TakeResult(u) \/ EndAwait(u)
    \/ Spawn(u) \/ Wait(u) \/ \E e \in Executors : Hop(u, e)

Resumes(u) == RunStrong(u) \/ RunWeak(u)

Next ==
    \/ \E u \in Threads : Goes(u) \/ Resumes(u) \/ NotifyHere(u) \/ Release(u)
    \/ NotifyElsewhere \/ Cancel
    \/ \E e \in Executors : Leave(e)

Spec == Init /\ [][Next]_vars

\* The threads run what is ready, what waits is notified by somebody, and the threads
\* of an executor that has nothing left leave.
Fairness ==
    /\ WF_vars(\E u \in Threads : Goes(u))
    /\ WF_vars(\E u \in Threads : Resumes(u))
    /\ \A u \in Threads : WF_vars(Release(u))
    /\ WF_vars(NotifyElsewhere)
    /\ \A e \in Executors : WF_vars(Leave(e))

FairSpec == Spec /\ Fairness

-----------------------------------------------------------------------------
\* The variables have their types; the counters never go below zero.
TypeOK ==
    /\ frames \in Seq(Frame) /\ result \in Result /\ entry \in {"body", "result"}
    /\ running \subseteq Threads /\ locked \subseteq Threads /\ owned \in BOOLEAN
    /\ strong \in [Executors -> Nat] /\ weak \in [Executors -> Nat]
    /\ waiting \in BOOLEAN
    /\ externalWork \in [Executors -> Nat]
    /\ left \subseteq Executors /\ crashed \in BOOLEAN /\ steps \in Nat

Works(e) == strong[e] + weak[e]

\* Inv1 of runtime.h:120, "one thread at a time can operate on a task stack", across
\* executors: a thread, a Work of one of them, or a condition variable, and only one
\* of these, will go on with the stack, and with no stack that has finished.
OneResumer ==
    /\ \A u, v \in running : u = v
    /\ \A e, f \in Executors : Works(e) > 0 /\ Works(f) > 0 => e = f /\ Works(e) = 1
    /\ running # {} => ~waiting /\ \A e \in Executors : Works(e) = 0
    /\ waiting => \A e \in Executors : Works(e) = 0
    /\ frames = <<>> => running = {} /\ (Held => ~waiting /\ \A e \in Executors : Works(e) = 0)
    /\ frames # <<>> => running # {} \/ waiting \/ \E e \in Executors : Works(e) > 0

\* "a timeout on a different executor ... decrements external work on the correct
\* executor" (test/runtime.cpp:970): the counters are what the coroutines hold, so a
\* stack that has finished, or has been destroyed by whatever thread, leaves none.
UnitsCounted ==
    \A e \in Executors :
        externalWork[e] = Cardinality({i \in DOMAIN frames : e \in frames[i].unit})

\* block_on does not return on an executor while a coroutine of it is on the stack,
\* wherever the coroutines above it have gone: the Work that FinalAwaiter sends home
\* finds somebody who runs it.
NotAbandoned == \A i \in DOMAIN frames : frames[i].ex \notin left

\* take_result() finds a result and put_result() finds none (runtime.h:147, 189).
ResultPassed ==
    ~crashed /\ frames # <<>> => (result # "none" <=> entry = "result")

-----------------------------------------------------------------------------
Abs == INSTANCE CallStack WITH
    calls   <- [i \in DOMAIN frames |-> frames[i].ex],
    control <- running

\* The coroutines are a stack of calls with one thread of control.
Implements == Abs!Spec

\* The hops come to an end and block_on returns.
Returns == <>(Home \in left \/ crashed)
=============================================================================
