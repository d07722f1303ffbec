---------------------------- MODULE Combinators -----------------------------
(***************************************************************************)
(* co_await of Timeout, WhenAll and WhenAny (include/alonite/runtime.h) by *)
(* one parent: the stacks of the children, who holds a strong reference to *)
(* them, the guards of the executor, the timer and the continuation.       *)
(*                                                                         *)
(* The executor is the one of the parent and of the children, and has a    *)
(* thread for everything that is ready.  A stack is destroyed, with the    *)
(* coroutines on it, when nobody holds it any more; what is suspended has  *)
(* weak references only.                                                   *)
(***************************************************************************)
EXTENDS Naturals, FiniteSets

CONSTANTS
    Children,    \* the tasks; a Timeout has one, First
    First,       \* the child that the parent's thread resumes itself
    Kinds,       \* the combinators that are awaited
    MaxSuspend   \* bound: how often a child is suspended

ASSUME CombinatorsAssumption ==
    /\ IsFiniteSet(Children) /\ First \in Children
    /\ Kinds \subseteq {"timeout", "all", "any"}
    /\ MaxSuspend \in Nat

VARIABLES
    kind,        \* the combinator
    parent,      \* where the parent is; "corrupt" if it is resumed while it runs
    held,        \* the thread that runs the parent up to await_suspend holds its stack
    entering,    \* the parent's thread is in await_suspend
    child,       \* [Children -> Stage]
    refs,        \* [Children -> SUBSET Holder]: strong references to the stack
    timer,       \* the delayed Work of a Timeout, then cancel_and_continue
    completed,   \* tasks_completed
    winner,      \* completed_task_index, as the set of the child
    outcome,     \* what await_resume has given the parent
    left         \* [Children -> Nat]: suspensions that the bound still allows

vars == <<kind, parent, held, entering, child, refs, timer, completed, winner, outcome,
          left>>

Stage   == {"absent", "created", "queued", "running", "suspended", "finished"}
Outcome == {"none", "result", "timedout", "failed"}

\* "local": task_wrappers in await_suspend.  "guard": spawned_tasks, or the group.
\* "work": a Work of schedule(), in the queue or in a batch.  "runner": locked by
\* whoever resumes the stack.  "parent": the stacks of WhenAll, or
\* continuation->guard.
Holder == {"local", "guard", "work", "runner", "parent"}

Group    == IF kind = "timeout" THEN {First} ELSE Children
Alive(c) == refs[c] # {}
Guarded  == \E c \in Group : "guard" \in refs[c]

\* First, resumed by the return value of await_suspend, holds no reference of its own
\* until it has been suspended.
FirstStretch == child[First] = "running" /\ left[First] = MaxSuspend

\* No stack has been destroyed while a thread runs it.  What the program does after that is
\* undefined, and the model ends there.
Defined == \A c \in Children : child[c] = "running" => Alive(c)

Init ==
    /\ kind \in Kinds
    /\ parent = "running" /\ held \in BOOLEAN /\ entering = FALSE
    /\ child = [c \in Children |-> "absent"]
    /\ refs = [c \in Children |-> {}]
    /\ timer = "off"
    /\ completed = 0 /\ winner = {} /\ outcome = "none"
    /\ left = [c \in Children |-> MaxSuspend]

Becomes(c, s) == child' = [child EXCEPT ![c] = s]
Hold(c, h)    == refs' = [refs EXCEPT ![c] = @ \cup {h}]

-----------------------------------------------------------------------------
(***************************************************************************)
(* await_suspend                                                           *)
(***************************************************************************)

\* The stacks are created and guarded: by the executor, or by WhenAll itself.
Await ==
    /\ parent = "running" /\ outcome = "none"
    /\ parent' = "suspended" /\ entering' = TRUE
    /\ child' = [c \in Children |-> IF c \in Group THEN "created" ELSE "absent"]
    /\ refs' = [c \in Children |->
                   IF c \notin Group THEN {}
                   ELSE {"local", IF kind = "all" THEN "parent" ELSE "guard"}]
    /\ timer' = IF kind = "timeout" THEN "armed" ELSE "off"
    /\ completed' = 0 /\ winner' = {}
    /\ UNCHANGED <<kind, held, outcome, left>>

\* schedule(std::move(other.stack)), in any order.
Schedule(c) ==
    /\ Defined
    /\ entering /\ c # First /\ child[c] = "created"
    /\ Becomes(c, "queued")
    /\ refs' = [refs EXCEPT ![c] = (@ \ {"local"}) \cup {"work"}]
    /\ UNCHANGED <<kind, held, parent, entering, timer, completed, winner, outcome, left>>

\* return first.co: the local references go, and First is resumed.
Enter ==
    /\ Defined
    /\ entering /\ \A c \in Group \ {First} : child[c] # "created"
    /\ entering' = FALSE
    /\ Becomes(First, "running")
    /\ refs' = [refs EXCEPT ![First] = @ \ {"local"}]
    /\ UNCHANGED <<kind, held, parent, timer, completed, winner, outcome, left>>

-----------------------------------------------------------------------------
(***************************************************************************)
(* A child                                                                 *)
(***************************************************************************)

\* A thread of the executor runs the Work of schedule().
Begin(c) ==
    /\ Defined
    /\ child[c] = "queued"
    /\ Becomes(c, "running")
    /\ UNCHANGED <<kind, held, parent, entering, refs, timer, completed, winner, outcome,
                   left>>

\* co_await Yield, Sleep or a ConditionVariable, which keep weak references.
Suspend(c) ==
    /\ Defined
    /\ child[c] = "running" /\ left[c] > 0
    /\ Becomes(c, "suspended")
    /\ left' = [left EXCEPT ![c] = @ - 1]
    /\ UNCHANGED <<kind, held, parent, entering, refs, timer, completed, winner, outcome>>

\* Mutant: the stack is resumed through the weak reference.
Wake_Weak(c) ==
    /\ Defined
    /\ child[c] = "suspended" /\ Alive(c)
    /\ Becomes(c, "running")
    /\ UNCHANGED <<kind, held, parent, entering, refs, timer, completed, winner, outcome,
                   left>>

\* Their Works, and notify_one() on the executor, lock the reference and resume.
Wake(c) ==
    /\ Defined
    /\ child[c] = "suspended" /\ Alive(c)
    /\ Becomes(c, "running")
    /\ Hold(c, "runner")
    /\ UNCHANGED <<kind, held, parent, entering, timer, completed, winner, outcome, left>>

\* notify_one() from elsewhere: schedule().
Reschedule(c) ==
    /\ Defined
    /\ child[c] = "suspended" /\ Alive(c)
    /\ Becomes(c, "queued")
    /\ Hold(c, "work")
    /\ UNCHANGED <<kind, held, parent, entering, timer, completed, winner, outcome, left>>

\* Some time after it has suspended or finished, resume() returns, or the batch of
\* the Work ends.  If this was the last reference the stack is destroyed.
UsesWork(c) ==
    \/ child[c] = "queued"
    \/ child[c] = "running" /\ "runner" \notin refs[c]

Unused(c) ==
    {h \in {"runner", "work"} :
        IF h = "runner" THEN child[c] # "running" ELSE ~UsesWork(c)}

Release(c) ==
    /\ Defined
    /\ \E h \in refs[c] \cap Unused(c) : refs' = [refs EXCEPT ![c] = @ \ {h}]
    /\ UNCHANGED <<kind, held, parent, entering, child, timer, completed, winner, outcome,
                   left>>

Continue == parent' = IF parent = "suspended" THEN "resuming" ELSE "corrupt"

\* The guard is exchanged for continuation->guard.
Unguard == [c \in Children |-> refs[c] \ {"guard"}]

\* Mutant: the stack of the child is not kept for the parent.
KeepForParent_Forgotten(c) == refs' = Unguard

KeepForParent(c) == refs' = [Unguard EXCEPT ![c] = @ \cup {"parent"}]

\* Mutant: remove_guard() is not asked whether there was a guard.
Wins_Always == parent # "gone"

Wins == parent # "gone" /\ Guarded

\* final_suspend under Timeout and WhenAny: the child that removes the guard, or
\* the group, continues the parent.
FinishGuarded(c) ==
    /\ kind # "all"
    /\ \/ /\ Wins
          /\ KeepForParent(c)
          /\ winner' = {c}
          /\ Continue
       \/ ~Wins /\ UNCHANGED <<parent, refs, winner>>
    /\ UNCHANGED completed

\* Mutant: tasks_completed++ in the place of ++tasks_completed.
AllCompleted_PostIncrement == completed = Cardinality(Group)

AllCompleted == completed' = Cardinality(Group)

\* final_suspend under WhenAll: the last one continues the parent.
FinishCounted ==
    /\ kind = "all"
    /\ completed' = IF parent = "gone" THEN completed ELSE completed + 1
    /\ IF parent # "gone" /\ AllCompleted THEN Continue ELSE UNCHANGED parent
    /\ UNCHANGED <<refs, winner>>

\* Mutant: the frame stays on the stack, where it can be resumed again.
Ends_Never(c) == child' = child

Ends(c) == Becomes(c, "finished")

Finish(c) ==
    /\ Defined
    /\ child[c] = "running"
    /\ Ends(c)
    /\ FinishGuarded(c) \/ FinishCounted
    /\ UNCHANGED <<kind, held, entering, timer, outcome, left>>

-----------------------------------------------------------------------------
(***************************************************************************)
(* The timer and the parent                                                *)
(***************************************************************************)

\* Mutant: the timer looks at the continuation first.
Fires_ForParent == Guarded /\ parent # "gone"

Fires == Guarded

\* The delayed Work of a Timeout: it finds the stack and removes its guard, or the
\* child has been faster.
TimerFires ==
    /\ Defined
    /\ timer = "armed"
    /\ \/ Fires /\ timer' = "canceling" /\ refs' = Unguard
       \/ ~Fires /\ timer' = "off" /\ UNCHANGED refs
    /\ UNCHANGED <<kind, held, parent, entering, child, completed, winner, outcome, left>>

\* Mutant: the parent continues as soon as the guard has been removed.
Canceled_Early == TRUE

Canceled == ~Alive(First)

\* cancel_and_continue() spawns itself again until the stack has been destroyed.
CancelAndContinue ==
    /\ Defined
    /\ timer = "canceling" /\ Canceled
    /\ timer' = "off"
    /\ IF parent = "gone" THEN UNCHANGED parent ELSE Continue
    /\ UNCHANGED <<kind, held, entering, child, refs, completed, winner, outcome, left>>

HasResult(c) == Alive(c) /\ child[c] = "finished"

\* await_resume takes the results.  WhenAll's stacks go with it.
AwaitResume ==
    /\ Defined
    /\ parent = "resuming"
    /\ parent' = "running"
    /\ outcome' =
           CASE kind = "timeout" -> IF ~Alive(First) THEN "timedout"
                                    ELSE IF HasResult(First) THEN "result" ELSE "failed"
             [] kind = "any" -> IF \E c \in winner : HasResult(c) THEN "result" ELSE "failed"
             [] kind = "all" -> IF \A c \in Group : HasResult(c) THEN "result" ELSE "failed"
    /\ refs' = IF kind = "all" THEN [c \in Children |-> refs[c] \ {"parent"}] ELSE refs
    /\ UNCHANGED <<kind, held, entering, child, timer, completed, winner, left>>

\* The parent's stack is destroyed, while it is suspended in the combinator or later.
\* The thread in await_suspend and in First may hold it, until First has been suspended; it
\* does not if it came to the parent from the task that had continued it.  (A parent that
\* waits and is destroyed inside its own await_suspend is not modelled.)
Destroy ==
    /\ Defined
    /\ held => ~entering /\ ~FirstStretch
    /\ \/ parent = "suspended" /\ ~entering
       \/ parent # "gone" /\ outcome # "none"
    /\ parent' = "gone"
    /\ refs' = [c \in Children |-> refs[c] \ {"parent"}]
    /\ UNCHANGED <<kind, held, entering, child, timer, completed, winner, outcome, left>>

-----------------------------------------------------------------------------
Starts == Await \/ Enter \/ \E c \in Children : Schedule(c)

Runs(c) == Suspend(c) \/ Finish(c)

Next ==
    \/ Starts
    \/ \E c \in Children : \/ Begin(c) \/ Runs(c) \/ Wake(c) \/ Reschedule(c)
                           \/ Release(c)
    \/ TimerFires \/ CancelAndContinue \/ AwaitResume \/ Destroy

Spec == Init /\ [][Next]_vars

\* The executor runs what is ready, and the threads go on.  The tasks of WhenAll and
\* WhenAny are woken if they wait; the task of a Timeout need not be.
Fairness ==
    /\ WF_vars(Enter) /\ WF_vars(TimerFires) /\ WF_vars(CancelAndContinue)
    /\ WF_vars(AwaitResume)
    /\ \A c \in Children :
           /\ WF_vars(Schedule(c)) /\ WF_vars(Begin(c)) /\ WF_vars(Runs(c))
           /\ WF_vars(Release(c)) /\ WF_vars(kind # "timeout" /\ Wake(c))

FairSpec == Spec /\ Fairness

-----------------------------------------------------------------------------
\* The variables have their types, and no more children complete than there are.
TypeOK ==
    /\ kind \in Kinds
    /\ parent \in {"running", "suspended", "resuming", "corrupt", "gone"}
    /\ held \in BOOLEAN /\ entering \in BOOLEAN
    /\ child \in [Children -> Stage]
    /\ refs \in [Children -> SUBSET Holder]
    /\ timer \in {"off", "armed", "canceling"}
    /\ completed \in 0..Cardinality(Children)
    /\ winner \in SUBSET Children
    /\ outcome \in Outcome
    /\ left \in [Children -> Nat]

\* "One thread at a time can operate on a task stack" (Inv1, runtime.h:120): no stack is
\* destroyed by one thread while another thread runs it, or while it is in a queue to be
\* run.
StackAlive == \A c \in Children : child[c] \in {"queued", "running"} => Alive(c)

\* The only stack that is destroyed under a thread is that of First, before First has been
\* suspended; and with WhenAll, which holds the stacks itself, only together with a parent
\* that nobody holds.
OnlyFirstDies ==
    \A c \in Children : child[c] \in {"queued", "running"} /\ ~Alive(c) =>
        /\ c = First /\ FirstStretch
        /\ kind = "all" => parent = "gone" /\ ~held

\* The guard, the count and the timer agree on who continues the parent: it is
\* resumed while it is suspended, and never again.
ResumedOnce == parent # "corrupt"

\* await_resume finds what it asserts: the result of the winner, the results of all,
\* or, after a Timeout, a result or no stack at all.
OutcomeReady == outcome # "failed"

\* "It is important for cancelation functions, like Timeout and WhenAny to wait until
\* the cancelling coroutine is finished" (test/mutex.cpp:11-13): when the parent goes
\* on, no child runs or will run.
CancellationWaits ==
    parent \in {"resuming", "running"} =>
        \A c \in Children : child[c] \in {"absent", "finished"} \/ ~Alive(c)

\* Timeout and WhenAll do wait for their tasks.
WaitsForChildren == kind # "any" => CancellationWaits

\* The parent goes on: a Timeout ends whatever its task does, and neither a
\* completion nor the timer is lost to the other, unless First's stack dies under it.
Continues == parent = "suspended" ~> parent # "suspended" \/ ~Defined

\* Nothing is leaked: after the parent has gone on, or has gone away, the executor
\* lets go of the children.  (Not of those of a WhenAny whose parent goes away.)
Released == \A c \in Children : refs[c] \subseteq {"parent"}

CleansUp ==
    (outcome # "none" \/ (parent = "gone" /\ kind # "any")) ~> Released \/ ~Defined
=============================================================================
