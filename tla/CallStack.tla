----------------------------- MODULE CallStack ------------------------------
(***************************************************************************)
(* What a TaskStack promises to the coroutines on it: they are a stack of  *)
(* calls with one thread of control, although each call may belong to      *)
(* another executor.  A call runs on a thread of its own executor, only    *)
(* the running call can call, return or suspend, and the calls disappear   *)
(* only while nobody runs them.                                            *)
(***************************************************************************)
EXTENDS SequencesExt

CONSTANTS Executors, Threads, ExecutorOf(_)

VARIABLES
    calls,    \* Seq(Executors): the executors of the calls, innermost last
    control   \* SUBSET Threads: the threads that run the innermost call

Controls(u) == control = {u} /\ calls # <<>> /\ ExecutorOf(u) = Last(calls)

Init ==
    \E u \in Threads : calls = <<ExecutorOf(u)>> /\ control = {u}

\* A call of the caller's executor goes on at once, a call of another executor
\* when a thread of that one takes it.
Call(u) ==
    /\ Controls(u)
    /\ calls' = Append(calls, Last(calls))
    /\ control' = control

CallOn(u, e) ==
    /\ Controls(u)
    /\ calls' = Append(calls, e)
    /\ control' = {}

\* The caller goes on at once if it is of the same executor.
Return(u) ==
    /\ Controls(u)
    /\ calls' = Front(calls)
    /\ control' = IF calls' # <<>> /\ Last(calls') = Last(calls) THEN control ELSE {}

Suspend(u) ==
    /\ Controls(u)
    /\ control' = {}
    /\ calls' = calls

Resume(u) ==
    /\ control = {} /\ calls # <<>>
    /\ control' = {u} /\ ExecutorOf(u) = Last(calls)
    /\ calls' = calls

Vanish ==
    /\ control = {}
    /\ calls' = <<>> /\ control' = control

Next ==
    \/ \E u \in Threads : \/ Call(u) \/ Return(u) \/ Suspend(u) \/ Resume(u)
                          \/ \E e \in Executors : CallOn(u, e)
    \/ Vanish

Spec == Init /\ [][Next]_<<calls, control>>
=============================================================================
