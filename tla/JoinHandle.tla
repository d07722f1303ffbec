----------------------------- MODULE JoinHandle -----------------------------
(***************************************************************************)
(* spawn() and JoinHandle of include/alonite/runtime.h: a spawned task and *)
(* the coroutine that owns its handle, which may await the task, abort it  *)
(* or drop the handle, while threads of the executor run the task.         *)
(*                                                                         *)
(* What the stack's mutex guards is one step.  abort() reads stack_guard   *)
(* without it, so the model assumes of users what the code leaves to them: *)
(* abort() is not called at the same time as await_resume() or the         *)
(* destructor of the same handle.                                          *)
(***************************************************************************)
EXTENDS Naturals, FiniteSets

CONSTANTS
    Aborters,    \* who calls abort(): the "owner", the "task" itself, an "other"
                 \* thread
    MaxSuspend   \* bound: how often the task is suspended

ASSUME JoinHandleAssumption ==
    /\ Aborters \subseteq {"owner", "task", "other"}
    /\ MaxSuspend \in Nat

VARIABLES
    task,          \* where the task is; "ending" has set complete, and is "unguarded"
                   \* after remove_guard()
    refs,          \* SUBSET Holder: strong references to the stack of the task
    complete,      \* complete
    result,        \* results on the stack
    owner,         \* where the coroutine that owns the handle is; "corrupt" if it
                   \* is resumed while it runs
    continuation,  \* the task's promise has a continuation: the owner
    aborted,       \* abort() has returned true
    outcome,       \* what co_await has given the owner
    left           \* suspensions that the bound still allows

vars == <<task, refs, complete, result, owner, continuation, aborted, outcome, left>>

Stage   == {"running", "queued", "suspended", "ending", "unguarded", "finished"}
Place   == {"spawning", "running", "suspended", "resumed", "corrupt", "gone"}
\* "late": Canceled with the result in it.
Outcome == {"none", "value", "canceled", "late", "failed"}

\* "handle": stack_guard.  "guard": spawned_tasks.  "work": a Work of schedule().
\* "runner": locked by whoever resumes the stack.
Holder == {"handle", "guard", "work", "runner"}

Alive == refs # {}

\* spawn() runs the task until it is suspended for the first time
\* (initial_suspend is suspend_never); the handle exists already.
Init ==
    /\ task = "running" /\ owner = "spawning"
    /\ refs = {"handle"}
    /\ complete = FALSE /\ result = 0 /\ continuation = FALSE
    /\ aborted = FALSE /\ outcome = "none"
    /\ left = MaxSuspend

SpawnReturns == owner' = IF owner = "spawning" THEN "running" ELSE owner

-----------------------------------------------------------------------------
(***************************************************************************)
(* The task                                                                *)
(***************************************************************************)

\* co_await Yield, Sleep or a ConditionVariable, which keep weak references.
Suspend ==
    /\ task = "running" /\ left > 0
    /\ task' = "suspended"
    /\ left' = left - 1
    /\ SpawnReturns
    /\ UNCHANGED <<refs, complete, result, continuation, aborted, outcome>>

\* Mutant: the stack is resumed through the weak reference.
Wake_Weak ==
    /\ task = "suspended" /\ Alive
    /\ task' = "running"
    /\ UNCHANGED <<refs, complete, result, owner, continuation, aborted, outcome, left>>

\* Their Works lock the reference and resume the stack.
Wake ==
    /\ task = "suspended" /\ Alive
    /\ task' = "running"
    /\ refs' = refs \cup {"runner"}
    /\ UNCHANGED <<complete, result, owner, continuation, aborted, outcome, left>>

\* notify_one() from another executor or thread: schedule().
Reschedule ==
    /\ task = "suspended" /\ Alive
    /\ task' = "queued"
    /\ refs' = refs \cup {"work"}
    /\ UNCHANGED <<complete, result, owner, continuation, aborted, outcome, left>>

Begin ==
    /\ task = "queued"
    /\ task' = "running"
    /\ UNCHANGED <<refs, complete, result, owner, continuation, aborted, outcome, left>>

\* resume() has returned, or the batch of the Work has ended, some time after the
\* task was suspended or has finished.  The last reference destroys the stack.
Unused ==
    {h \in {"runner", "work"} :
        CASE task \in {"running", "ending", "unguarded"} -> h = "work" /\ "runner" \in refs
          [] task = "queued"                             -> h = "runner"
          [] OTHER                                       -> TRUE}

Release ==
    /\ \E h \in refs \cap Unused : refs' = refs \ {h}
    /\ UNCHANGED <<task, complete, result, owner, continuation, aborted, outcome, left>>

\* Mutant: the frame is not popped, and can be resumed again.
Ends_Never == task' = "running"

Ends == task' = "ending"

\* return_value() puts the result; final_suspend() sets complete under the mutex.
Complete ==
    /\ task = "running"
    /\ Ends
    /\ result' = result + 1
    /\ complete' = TRUE
    /\ UNCHANGED <<refs, owner, continuation, aborted, outcome, left>>

\* Mutant: the guard of a handle that was dropped stays in spawned_tasks.
RemoveGuard_Forgotten == refs' = refs

RemoveGuard == refs' = refs \ {"guard"}

\* final_suspend() asks the executor to remove the guard, without the mutex.
Unguard ==
    /\ task = "ending"
    /\ task' = "unguarded"
    /\ RemoveGuard
    /\ UNCHANGED <<complete, result, owner, continuation, aborted, outcome, left>>

\* Mutant: whoever has been aborted wakes nobody.
HasContinuation_UnlessAborted == continuation /\ owner # "gone" /\ "handle" \in refs

\* The weak reference to the owner can be locked.
HasContinuation == continuation /\ owner # "gone"

Continue ==
    owner' = IF HasContinuation
             THEN IF owner = "suspended" THEN "resumed" ELSE "corrupt"
             ELSE IF owner = "spawning" THEN "running" ELSE owner

\* final_suspend() locks the reference to the owner, and its Awaiter resumes the owner.
End ==
    /\ task = "unguarded"
    /\ task' = "finished"
    /\ Continue
    /\ UNCHANGED <<refs, complete, result, continuation, aborted, outcome, left>>

-----------------------------------------------------------------------------
(***************************************************************************)
(* The handle                                                              *)
(***************************************************************************)

\* Mutant: the owner becomes the continuation of a task that is complete, too.
Connects_Always == Alive

Connects == Alive /\ ~complete

\* Mutant: a task that has not completed is not waited for.
Waits_Never == FALSE

Waits == Alive /\ ~complete

\* await_suspend(): with the stack destroyed or the task complete the owner goes on.
Await ==
    /\ owner = "running" /\ outcome = "none"
    /\ owner' = IF Waits THEN "suspended" ELSE "resumed"
    /\ continuation' = Connects
    /\ UNCHANGED <<task, refs, complete, result, aborted, outcome, left>>

Taken == IF result > 0 THEN result - 1 ELSE result

\* Mutant: get_result() does not ask whether the task was aborted.
Value_Always == IF result > 0 THEN "value" ELSE "failed"

\* take_result() asserts that there is a result; without stack_guard it becomes part
\* of Canceled.
Value == IF result = 0 THEN "failed" ELSE IF "handle" \in refs THEN "value" ELSE "late"

\* await_resume(), hence get_result().
AwaitResume ==
    /\ owner = "resumed"
    /\ owner' = "running"
    /\ outcome' = IF Alive THEN Value ELSE "canceled"
    /\ result' = IF Alive THEN Taken ELSE result
    /\ refs' = refs \ {"handle"}
    /\ UNCHANGED <<task, complete, continuation, aborted, left>>

MayAbort ==
    \/ "owner" \in Aborters /\ owner = "running"
    \/ "task"  \in Aborters /\ owner \notin {"spawning", "gone"} /\ task = "running"
    \/ "other" \in Aborters /\ owner \notin {"spawning", "gone"}

CanAbort == "handle" \in refs /\ ~complete

\* abort(), when it returns true; when it returns false it changes nothing.
Abort ==
    /\ MayAbort /\ CanAbort
    /\ aborted' = TRUE
    /\ refs' = refs \ {"handle"}
    /\ UNCHANGED <<task, complete, result, owner, continuation, outcome, left>>

\* Mutant: the stack is not given to the executor.
Detach_Destroys == refs \ {"handle"}

Detach == IF "handle" \in refs THEN (refs \ {"handle"}) \cup {"guard"} ELSE refs

\* ~JoinHandle(), by the owner or because the owner is destroyed while it waits.
Drop ==
    /\ owner \in {"running", "suspended"}
    /\ owner' = "gone"
    /\ refs' = Detach
    /\ UNCHANGED <<task, complete, result, continuation, aborted, outcome, left>>

-----------------------------------------------------------------------------
Runs == Suspend \/ Complete

Next ==
    \/ Runs \/ Wake \/ Reschedule \/ Begin \/ Release \/ Unguard \/ End
    \/ Await \/ AwaitResume \/ Abort \/ Drop

Spec == Init /\ [][Next]_vars

\* The executor runs what is ready, a task that is suspended is woken, and an owner
\* that has been resumed goes on.  Nobody has to await, abort or drop.
Fairness ==
    /\ WF_vars(Runs) /\ WF_vars(Wake) /\ WF_vars(Begin) /\ WF_vars(Release)
    /\ WF_vars(Unguard) /\ WF_vars(End) /\ WF_vars(AwaitResume)

FairSpec == Spec /\ Fairness

-----------------------------------------------------------------------------
\* The variables have their types; put_result() never finds a result on the stack.
TypeOK ==
    /\ task \in Stage
    /\ refs \subseteq Holder
    /\ complete \in BOOLEAN
    /\ result \in {0, 1}
    /\ owner \in Place
    /\ continuation \in BOOLEAN
    /\ aborted \in BOOLEAN
    /\ outcome \in Outcome
    /\ left \in Nat

\* Neither abort() nor the destructor of the handle destroys the stack while a
\* thread runs it, or while it is in a queue to be run.
StackAlive == task \in {"running", "queued", "ending", "unguarded"} => Alive

\* Completion and await_suspend(), on two threads, agree on who continues the owner:
\* it is resumed while it waits, and never while it runs.
OwnerResumedOnce == owner # "corrupt"

\* take_result() finds the result it asserts, whether the owner waited, came late or
\* has aborted the task meanwhile.
OutcomeReady == outcome # "failed"

\* The answer of abort() decides what co_await gives, whatever the task does
\* meanwhile: Canceled after true, the value after false.
AbortDecides ==
    /\ outcome = "value" => ~aborted
    /\ outcome \in {"canceled", "late"} => aborted

\* No completion is lost to the owner that waits for it, not even of a task that has
\* been aborted meanwhile.  (Nobody continues the owner of a task that is destroyed
\* before it has completed.)
OwnerResumed ==
    owner = "suspended" ~> owner # "suspended" \/ (~Alive /\ task # "finished")

\* A task whose handle has been dropped runs to its end (test/runtime.cpp:131-143).
DetachedRuns == owner = "gone" /\ ~aborted ~> task = "finished"

\* The stack is destroyed in the end, unless the handle of a task that had completed
\* is dropped without co_await: the executor keeps that one as long as it lives.
Destroyed ==
    (aborted \/ outcome # "none" \/ (owner = "gone" /\ ~complete)) ~> ~Alive
=============================================================================
