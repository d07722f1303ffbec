-------------------------- MODULE JoinHandleProofs --------------------------
(***************************************************************************)
(* Safety of JoinHandle, for any number of suspensions and whoever aborts. *)
(***************************************************************************)
EXTENDS JoinHandle, TLAPS

\* Who runs the stack holds it.
RunnersHold ==
    /\ task = "queued" => "work" \in refs
    /\ task \in {"running", "ending", "unguarded"} =>
           \/ refs \cap {"runner", "work"} # {}
           \/ owner = "spawning" /\ "handle" \in refs

\* The handle holds the stack until abort(), get_result() or its destructor.
HandleHolds == "handle" \in refs <=> ~aborted /\ outcome = "none" /\ owner # "gone"

\* complete, and where the result is.
CompleteMeans ==
    /\ complete <=> task \in {"ending", "unguarded", "finished"}
    /\ result = 1 <=> complete /\ outcome \notin {"value", "late"}
    /\ outcome \in {"value", "late"} => complete

\* The owner and the task agree on who has to wait for whom.
Connected ==
    /\ owner \in {"suspended", "resumed"} => outcome = "none"
    /\ owner = "suspended" => continuation /\ task # "finished"
    /\ continuation /\ task # "finished" => owner \in {"suspended", "gone"}
    /\ owner = "resumed" => complete \/ ~Alive
    /\ owner = "spawning" => task # "suspended" /\ task # "queued" /\ task # "finished"
    /\ owner = "spawning" => ~aborted /\ outcome = "none" /\ ~continuation

IInv ==
    /\ TypeOK /\ RunnersHold /\ HandleHolds /\ CompleteMeans /\ Connected
    /\ OwnerResumedOnce /\ OutcomeReady /\ AbortDecides

-----------------------------------------------------------------------------
\* Spawning a task establishes IInv.
LEMMA InitIInv == Init => IInv
<1> SUFFICES ASSUME Init PROVE IInv
    OBVIOUS
<1>1. TypeOK
    BY JoinHandleAssumption DEF Init, TypeOK, Stage, Place, Holder, Outcome
<1>2. RunnersHold /\ HandleHolds
    BY DEF Init, RunnersHold, HandleHolds
<1>3. CompleteMeans
    BY DEF Init, CompleteMeans
<1>4. Connected
    BY DEF Init, Connected
<1>5. OwnerResumedOnce /\ OutcomeReady /\ AbortDecides
    BY DEF Init, OwnerResumedOnce, OutcomeReady, AbortDecides
<1> QED BY <1>1, <1>2, <1>3, <1>4, <1>5 DEF IInv

\* Every step keeps IInv.
LEMMA NextIInv == IInv /\ [Next]_vars => IInv'
<1> SUFFICES ASSUME IInv, [Next]_vars PROVE IInv'
    OBVIOUS
<1>0. TypeOK /\ RunnersHold /\ HandleHolds /\ CompleteMeans /\ Connected
      /\ OwnerResumedOnce /\ OutcomeReady /\ AbortDecides
    BY DEF IInv
<1>1. CASE Suspend
    <2>1. TypeOK'
        BY <1>0, <1>1 DEF Suspend, SpawnReturns, TypeOK, Stage, Place
    <2>2. RunnersHold'
        BY <1>1 DEF Suspend, RunnersHold
    <2>3. HandleHolds'
        BY <1>0, <1>1 DEF Suspend, SpawnReturns, HandleHolds
    <2>4. CompleteMeans'
        BY <1>0, <1>1 DEF Suspend, CompleteMeans
    <2>5. Connected'
        BY <1>0, <1>1 DEF Suspend, SpawnReturns, Connected, Alive
    <2>6. OwnerResumedOnce' /\ OutcomeReady' /\ AbortDecides'
        BY <1>0, <1>1 DEF Suspend, SpawnReturns, OwnerResumedOnce, OutcomeReady,
           AbortDecides
    <2> QED BY <2>1, <2>2, <2>3, <2>4, <2>5, <2>6 DEF IInv
<1>2. CASE Complete
    <2>1. TypeOK'
        BY <1>0, <1>2 DEF Complete, Ends, TypeOK, CompleteMeans, Stage
    <2>2. RunnersHold'
        BY <1>0, <1>2 DEF Complete, Ends, RunnersHold
    <2>3. HandleHolds'
        BY <1>0, <1>2 DEF Complete, HandleHolds
    <2>4. CompleteMeans'
        BY <1>0, <1>2 DEF Complete, Ends, TypeOK, CompleteMeans
    <2>5. Connected'
        BY <1>0, <1>2 DEF Complete, Ends, Connected
    <2>6. OwnerResumedOnce' /\ OutcomeReady' /\ AbortDecides'
        BY <1>0, <1>2 DEF Complete, OwnerResumedOnce, OutcomeReady, AbortDecides
    <2> QED BY <2>1, <2>2, <2>3, <2>4, <2>5, <2>6 DEF IInv
<1>3. CASE Wake
    <2>1. TypeOK'
        BY <1>0, <1>3 DEF Wake, TypeOK, Stage, Holder
    <2>2. RunnersHold'
        BY <1>3 DEF Wake, RunnersHold
    <2>3. HandleHolds'
        BY <1>0, <1>3 DEF Wake, HandleHolds
    <2>4. CompleteMeans'
        BY <1>0, <1>3 DEF Wake, CompleteMeans
    <2>5. Connected'
        BY <1>0, <1>3 DEF Wake, Connected
    <2>6. OwnerResumedOnce' /\ OutcomeReady' /\ AbortDecides'
        BY <1>0, <1>3 DEF Wake, OwnerResumedOnce, OutcomeReady, AbortDecides
    <2> QED BY <2>1, <2>2, <2>3, <2>4, <2>5, <2>6 DEF IInv
<1>4. CASE Reschedule
    <2>1. TypeOK'
        BY <1>0, <1>4 DEF Reschedule, TypeOK, Stage, Holder
    <2>2. RunnersHold'
        BY <1>4 DEF Reschedule, RunnersHold
    <2>3. HandleHolds'
        BY <1>0, <1>4 DEF Reschedule, HandleHolds
    <2>4. CompleteMeans'
        BY <1>0, <1>4 DEF Reschedule, CompleteMeans
    <2>5. Connected'
        BY <1>0, <1>4 DEF Reschedule, Connected
    <2>6. OwnerResumedOnce' /\ OutcomeReady' /\ AbortDecides'
        BY <1>0, <1>4 DEF Reschedule, OwnerResumedOnce, OutcomeReady, AbortDecides
    <2> QED BY <2>1, <2>2, <2>3, <2>4, <2>5, <2>6 DEF IInv
<1>5. CASE Begin
    <2>1. TypeOK'
        BY <1>0, <1>5 DEF Begin, TypeOK, Stage
    <2>2. RunnersHold'
        BY <1>0, <1>5 DEF Begin, RunnersHold
    <2>3. HandleHolds'
        BY <1>0, <1>5 DEF Begin, HandleHolds
    <2>4. CompleteMeans'
        BY <1>0, <1>5 DEF Begin, CompleteMeans
    <2>5. Connected'
        BY <1>0, <1>5 DEF Begin, Connected, Alive
    <2>6. OwnerResumedOnce' /\ OutcomeReady' /\ AbortDecides'
        BY <1>0, <1>5 DEF Begin, OwnerResumedOnce, OutcomeReady, AbortDecides
    <2> QED BY <2>1, <2>2, <2>3, <2>4, <2>5, <2>6 DEF IInv
<1>6. CASE Release
    <2>1. TypeOK'
        BY <1>0, <1>6 DEF Release, TypeOK
    <2>2. RunnersHold'
        BY <1>0, <1>6 DEF Release, Unused, RunnersHold
    <2>3. HandleHolds'
        BY <1>0, <1>6 DEF Release, Unused, HandleHolds
    <2>4. CompleteMeans'
        BY <1>0, <1>6 DEF Release, CompleteMeans
    <2>5. Connected'
        BY <1>0, <1>6 DEF Release, Connected, Alive
    <2>6. OwnerResumedOnce' /\ OutcomeReady' /\ AbortDecides'
        BY <1>0, <1>6 DEF Release, OwnerResumedOnce, OutcomeReady, AbortDecides
    <2> QED BY <2>1, <2>2, <2>3, <2>4, <2>5, <2>6 DEF IInv
<1>7. CASE End
    <2>1. TypeOK'
        BY <1>0, <1>7 DEF End, Continue, TypeOK, Stage, Place
    <2>2. RunnersHold'
        BY <1>0, <1>7 DEF End, RunnersHold
    <2>3. HandleHolds'
        BY <1>0, <1>7 DEF End, Continue, HasContinuation, HandleHolds
    <2>4. CompleteMeans'
        BY <1>0, <1>7 DEF End, CompleteMeans
    <2>5. Connected'
        BY <1>0, <1>7 DEF End, Continue, HasContinuation, Connected, CompleteMeans
    <2>6. OwnerResumedOnce' /\ OutcomeReady' /\ AbortDecides'
        BY <1>0, <1>7 DEF End, Continue, HasContinuation, OwnerResumedOnce, OutcomeReady,
           AbortDecides, Connected
    <2> QED BY <2>1, <2>2, <2>3, <2>4, <2>5, <2>6 DEF IInv
<1>8. CASE Unguard
    <2>1. TypeOK'
        BY <1>0, <1>8 DEF Unguard, RemoveGuard, TypeOK, Stage
    <2>2. RunnersHold'
        BY <1>0, <1>8 DEF Unguard, RemoveGuard, RunnersHold
    <2>3. HandleHolds'
        BY <1>0, <1>8 DEF Unguard, RemoveGuard, HandleHolds
    <2>4. CompleteMeans'
        BY <1>0, <1>8 DEF Unguard, CompleteMeans
    <2>5. Connected'
        BY <1>0, <1>8 DEF Unguard, Connected, CompleteMeans
    <2>6. OwnerResumedOnce' /\ OutcomeReady' /\ AbortDecides'
        BY <1>0, <1>8 DEF Unguard, OwnerResumedOnce, OutcomeReady, AbortDecides
    <2> QED BY <2>1, <2>2, <2>3, <2>4, <2>5, <2>6 DEF IInv
<1>9. CASE Await
    <2>1. TypeOK'
        BY <1>0, <1>9 DEF Await, Connects, TypeOK, Place
    <2>2. RunnersHold'
        BY <1>0, <1>9 DEF Await, RunnersHold
    <2>3. HandleHolds'
        BY <1>0, <1>9 DEF Await, HandleHolds
    <2>4. CompleteMeans'
        BY <1>0, <1>9 DEF Await, CompleteMeans
    <2>5. Connected'
        BY <1>0, <1>9 DEF Await, Waits, Connects, Connected, CompleteMeans, Alive
    <2>6. OwnerResumedOnce' /\ OutcomeReady' /\ AbortDecides'
        BY <1>9 DEF Await, OwnerResumedOnce, OutcomeReady, AbortDecides
    <2> QED BY <2>1, <2>2, <2>3, <2>4, <2>5, <2>6 DEF IInv
<1>10. CASE AwaitResume
    <2>1. TypeOK'
        BY <1>0, <1>10 DEF AwaitResume, Taken, Value, TypeOK, Place, Outcome
    <2>2. RunnersHold'
        BY <1>0, <1>10 DEF AwaitResume, RunnersHold
    <2>3. HandleHolds'
        BY <1>10 DEF AwaitResume, Value, HandleHolds
    <2>4. CompleteMeans'
        BY <1>0, <1>10 DEF AwaitResume, Taken, Value, CompleteMeans, Connected
    <2>5. Connected'
        BY <1>0, <1>10 DEF AwaitResume, Connected
    <2>6. OwnerResumedOnce' /\ OutcomeReady' /\ AbortDecides'
        BY <1>0, <1>10 DEF AwaitResume, Value, OwnerResumedOnce, OutcomeReady, AbortDecides,
           Connected, CompleteMeans, HandleHolds, Alive
    <2> QED BY <2>1, <2>2, <2>3, <2>4, <2>5, <2>6 DEF IInv
<1>11. CASE Abort
    <2>1. TypeOK'
        BY <1>0, <1>11 DEF Abort, TypeOK
    <2>2. RunnersHold'
        BY <1>0, <1>11 DEF Abort, MayAbort, RunnersHold
    <2>3. HandleHolds'
        BY <1>11 DEF Abort, HandleHolds
    <2>4. CompleteMeans'
        BY <1>0, <1>11 DEF Abort, CompleteMeans
    <2>5. Connected'
        BY <1>0, <1>11 DEF Abort, MayAbort, Connected, Alive
    <2>6. OwnerResumedOnce' /\ OutcomeReady' /\ AbortDecides'
        BY <1>0, <1>11 DEF Abort, CanAbort, OwnerResumedOnce, OutcomeReady, AbortDecides,
           HandleHolds
    <2> QED BY <2>1, <2>2, <2>3, <2>4, <2>5, <2>6 DEF IInv
<1>12. CASE Drop
    <2>1. TypeOK'
        BY <1>0, <1>12 DEF Drop, Detach, TypeOK, Place, Holder
    <2>2. RunnersHold'
        BY <1>0, <1>12 DEF Drop, Detach, RunnersHold
    <2>3. HandleHolds'
        BY <1>12 DEF Drop, Detach, HandleHolds
    <2>4. CompleteMeans'
        BY <1>0, <1>12 DEF Drop, CompleteMeans
    <2>5. Connected'
        BY <1>12 DEF Drop, Connected
    <2>6. OwnerResumedOnce' /\ OutcomeReady' /\ AbortDecides'
        BY <1>0, <1>12 DEF Drop, OwnerResumedOnce, OutcomeReady, AbortDecides
    <2> QED BY <2>1, <2>2, <2>3, <2>4, <2>5, <2>6 DEF IInv
<1>13. CASE UNCHANGED vars
    BY <1>0, <1>13 DEF vars, IInv, TypeOK, RunnersHold, HandleHolds, CompleteMeans,
       Connected, OwnerResumedOnce, OutcomeReady, AbortDecides, Alive
<1> QED
    BY <1>1, <1>2, <1>3, <1>4, <1>5, <1>6, <1>7, <1>8, <1>9, <1>10, <1>11, <1>12, <1>13
       DEF Next, Runs

-----------------------------------------------------------------------------
\* The inductive invariant of a spawned task and its handle.
THEOREM JoinInvariant == Spec => []IInv
BY InitIInv, NextIInv, PTL DEF Spec

\* Every variable keeps its type and no second result is put on the stack.
THEOREM JoinTypeOK == Spec => []TypeOK
<1>1. IInv => TypeOK
    BY DEF IInv
<1> QED BY <1>1, JoinInvariant, PTL

\* Neither abort() nor the destructor of the handle takes the stack from a thread that
\* runs it or from a queue.
THEOREM JoinStackAlive == Spec => []StackAlive
<1>1. IInv => StackAlive
    BY DEF IInv, RunnersHold, StackAlive, Alive
<1> QED BY <1>1, JoinInvariant, PTL

\* The owner is resumed while it waits, and never while it runs.
THEOREM JoinOwnerResumedOnce == Spec => []OwnerResumedOnce
<1>1. IInv => OwnerResumedOnce
    BY DEF IInv
<1> QED BY <1>1, JoinInvariant, PTL

\* take_result() finds a result.
THEOREM JoinOutcomeReady == Spec => []OutcomeReady
<1>1. IInv => OutcomeReady
    BY DEF IInv
<1> QED BY <1>1, JoinInvariant, PTL

\* co_await gives Canceled exactly after abort() has returned true.
THEOREM JoinAbortDecides == Spec => []AbortDecides
<1>1. IInv => AbortDecides
    BY DEF IInv
<1> QED BY <1>1, JoinInvariant, PTL
=============================================================================
