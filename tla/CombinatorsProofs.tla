------------------------- MODULE CombinatorsProofs --------------------------
(***************************************************************************)
(* Theorems about Combinators: the combinators keep their children's       *)
(* stacks and continue their parent once, with what it waits for.          *)
(***************************************************************************)
EXTENDS Combinators, FiniteSetTheorems, TLAPS

-----------------------------------------------------------------------------
\* Who is queued has a Work, and who runs a Work or a thread that holds it, but for
\* First, which counts on what its parent has left behind.
Kept(c) ==
    /\ child[c] = "queued" => "work" \in refs[c]
    /\ child[c] = "running" =>
           "work" \in refs[c] \/ "runner" \in refs[c] \/ (c = First /\ FirstStretch)

\* await_suspend has not reached First, and its parent waits, unless another task of a
\* WhenAny has ended before.
Entering ==
    entering =>
        /\ child[First] = "created" /\ "local" \in refs[First]
        /\ kind # "any" => parent = "suspended"

\* First is in its first stretch once, and a parent that its thread holds is there.
Stretch ==
    /\ left[First] <= MaxSuspend
    /\ child[First] \in {"absent", "created"} => left[First] = MaxSuspend
    /\ child[First] \in {"queued", "suspended"} => left[First] < MaxSuspend
    /\ held /\ parent = "gone" => ~entering /\ ~FirstStretch

\* Before await_suspend there are no children, and a Timeout has only First.
Absent ==
    /\ \A c \in Children : c \notin Group => child[c] = "absent"
    /\ parent = "running" /\ outcome = "none" => \A c \in Children : child[c] = "absent"
    /\ parent \in {"suspended", "resuming"} => outcome = "none"

\* The guard, or the timer after it has taken it, and a parent that waits or is gone.
OnePath ==
    /\ timer # "off" => kind = "timeout"
    /\ kind # "all" /\ Guarded => parent \in {"suspended", "gone"}
    /\ timer = "canceling" => parent \in {"suspended", "gone"} /\ ~Guarded

Finished == {c \in Children : child[c] = "finished"}

\* WhenAll counts the children that have finished, and keeps their stacks.
Counted ==
    kind = "all" =>
        /\ parent # "gone" => completed = Cardinality(Finished)
        /\ parent = "resuming" \/ (parent = "running" /\ outcome # "none") =>
               Finished = Children
        /\ parent \in {"suspended", "resuming"} => \A c \in Children : "parent" \in refs[c]

\* What await_resume will find under Timeout and WhenAny.
Results ==
    parent = "resuming" =>
        /\ kind = "timeout" => ~Alive(First) \/ child[First] = "finished"
        /\ kind = "any" => \E c \in winner : child[c] = "finished" /\ "parent" \in refs[c]

IInv ==
    /\ TypeOK /\ ResumedOnce /\ OutcomeReady /\ WaitsForChildren
    /\ \A c \in Children : Kept(c)
    /\ Entering /\ Stretch /\ Absent /\ OnePath /\ Counted /\ Results

-----------------------------------------------------------------------------
\* The children that a combinator awaits.
LEMMA GroupFacts ==
    ASSUME TypeOK
    PROVE  /\ First \in Group /\ Group \in SUBSET Children /\ IsFiniteSet(Children)
           /\ kind # "timeout" => Group = Children
           /\ kind = "timeout" => Group = {First}
BY CombinatorsAssumption DEF Group

\* Init establishes IInv.
LEMMA InitIInv == Init => IInv
<1>. SUFFICES ASSUME Init PROVE IInv
    OBVIOUS
<1>1. /\ IsFiniteSet(Children) /\ First \in Children /\ MaxSuspend \in Nat
      /\ Kinds \subseteq {"timeout", "all", "any"}
    BY CombinatorsAssumption
<1>2. Cardinality(Children) \in Nat
    BY <1>1, FS_CardinalityType
<1>3. TypeOK
    <2>1. child \in [Children -> Stage] /\ refs \in [Children -> SUBSET Holder]
          /\ left \in [Children -> Nat]
        BY <1>1 DEF Init, Stage
    <2>2. completed \in 0..Cardinality(Children)
        BY <1>2 DEF Init
    <2>. QED BY <2>1, <2>2 DEF Init, TypeOK, Outcome
<1>4. Finished = {} /\ Cardinality(Finished) = 0
    <2>1. Finished = {}
        BY DEF Init, Finished
    <2>. QED BY <2>1, FS_EmptySet
<1>5. Counted
    BY <1>4 DEF Init, Counted
<1>6. WaitsForChildren /\ Absent
    BY DEF Init, WaitsForChildren, CancellationWaits, Absent
<1>7. Results /\ Entering /\ Stretch /\ ResumedOnce /\ OutcomeReady
    BY <1>1 DEF Init, Results, Entering, Stretch, FirstStretch, ResumedOnce, OutcomeReady
<1>8. OnePath
    BY <1>1 DEF Init, OnePath, Guarded, Group
<1>. QED BY <1>3, <1>5, <1>6, <1>7, <1>8 DEF Init, IInv, Kept

\* The children are created, each with a guard or its parent to hold it.
LEMMA AwaitKeeps ==
    ASSUME IInv, Await
    PROVE  IInv'
<1>0. /\ TypeOK /\ ResumedOnce /\ OutcomeReady /\ WaitsForChildren
      /\ \A d \in Children : Kept(d)
      /\ Entering /\ Stretch /\ Absent /\ OnePath /\ Counted /\ Results
    BY DEF IInv
<1>group.
      /\ First \in Group /\ Group \in SUBSET Children
      /\ kind # "timeout" => Group = Children
      /\ kind = "timeout" => Group = {First}
      /\ kind' = kind /\ Group' = Group
    BY <1>0, GroupFacts DEF Await, Group
<1>1. TypeOK'
    <2>1. child' \in [Children -> Stage]
        BY DEF Await, Stage
    <2>2. refs' \in [Children -> SUBSET Holder]
        BY DEF Await, Holder
    <2>3. completed' \in 0..Cardinality(Children)
        <3>1. Cardinality(Children) \in Nat /\ completed' = 0
            BY CombinatorsAssumption, FS_CardinalityType DEF Await
        <3>. QED BY <3>1
    <2>. QED BY <1>0, <2>1, <2>2, <2>3 DEF Await, TypeOK
<1>2. ASSUME NEW d \in Children PROVE Kept(d)'
    BY DEF Stretch, FirstStretch, Kept, Await
<1>3. Entering' /\ Stretch'
    BY <1>0, <1>group, CombinatorsAssumption DEF TypeOK, Entering, Stretch, FirstStretch,
        Absent, Await
<1>4. Absent'
    BY <1>group DEF Absent, Await
<1>5. OnePath'
    BY DEF OnePath, Await
<1>6. Counted'
    <2>1. Finished' = {} /\ Cardinality({}) = 0
        BY FS_EmptySet DEF Await, Finished
    <2>2. kind = "all" => \A d \in Children : "parent" \in refs'[d]
        BY <1>group DEF Await
    <2>. QED BY <1>group, <2>1, <2>2 DEF Await, Counted
<1>7. Results'
    BY DEF Results, Await
<1>8. ResumedOnce' /\ OutcomeReady'
    BY DEF ResumedOnce, OutcomeReady, Await
<1>9. WaitsForChildren'
    BY DEF WaitsForChildren, CancellationWaits, Await
<1>. QED BY <1>1, <1>2, <1>3, <1>4, <1>5, <1>6, <1>7, <1>8, <1>9 DEF IInv

\* schedule() gives the stack to a Work.
LEMMA ScheduleKeeps ==
    ASSUME IInv, NEW c \in Children, Schedule(c)
    PROVE  IInv'
<1>0. /\ TypeOK /\ ResumedOnce /\ OutcomeReady /\ WaitsForChildren
      /\ \A d \in Children : Kept(d)
      /\ Entering /\ Stretch /\ Absent /\ OnePath /\ Counted /\ Results
    BY DEF IInv
<1>group.
      /\ First \in Group /\ Group \in SUBSET Children
      /\ kind # "timeout" => Group = Children
      /\ kind = "timeout" => Group = {First}
      /\ kind' = kind /\ Group' = Group
    BY <1>0, GroupFacts DEF Schedule, Group
<1>1. TypeOK'
    BY <1>0 DEF TypeOK, Stage, Holder, Schedule, Becomes
<1>2. ASSUME NEW d \in Children PROVE Kept(d)'
    BY <1>0 DEF Stretch, FirstStretch, TypeOK, Kept, Schedule, Becomes
<1>3. Entering' /\ Stretch'
    BY <1>0, <1>group, CombinatorsAssumption DEF TypeOK, Entering, Stretch, FirstStretch,
        Schedule, Becomes
<1>4. Absent'
    BY <1>0, <1>group DEF Absent, Schedule
<1>5. OnePath'
    BY <1>0, <1>group DEF OnePath, Guarded, Schedule
<1>6. Counted'
    BY <1>0 DEF Counted, Finished, Schedule, Becomes
<1>7. Results'
    BY <1>0 DEF Results, Alive, Schedule, Becomes
<1>8. ResumedOnce' /\ OutcomeReady'
    BY <1>0 DEF ResumedOnce, OutcomeReady, Schedule
<1>9. WaitsForChildren'
    BY <1>0 DEF Schedule, Entering, WaitsForChildren, CancellationWaits
<1>. QED BY <1>1, <1>2, <1>3, <1>4, <1>5, <1>6, <1>7, <1>8, <1>9 DEF IInv

\* The local references go while First is resumed.
LEMMA EnterKeeps ==
    ASSUME IInv, Enter
    PROVE  IInv'
<1>0. /\ TypeOK /\ ResumedOnce /\ OutcomeReady /\ WaitsForChildren
      /\ \A d \in Children : Kept(d)
      /\ Entering /\ Stretch /\ Absent /\ OnePath /\ Counted /\ Results
    BY DEF IInv
<1>group.
      /\ First \in Group /\ Group \in SUBSET Children
      /\ kind # "timeout" => Group = Children
      /\ kind = "timeout" => Group = {First}
      /\ kind' = kind /\ Group' = Group
    BY <1>0, GroupFacts DEF Enter, Group
<1>1. TypeOK'
    BY <1>0 DEF TypeOK, Stage, Enter, Becomes
<1>2. ASSUME NEW d \in Children PROVE Kept(d)'
    BY <1>0, CombinatorsAssumption DEF TypeOK, Stretch, FirstStretch, Kept, Entering, Enter,
        Becomes
<1>3. Entering' /\ Stretch'
    BY <1>0, <1>group, CombinatorsAssumption DEF TypeOK, Entering, Stretch, FirstStretch,
        Enter, Becomes
<1>4. Absent'
    BY <1>0, <1>group DEF Absent, Entering, Enter, Becomes
<1>5. OnePath'
    BY <1>0, <1>group DEF OnePath, Guarded, Enter
<1>6. Counted'
    <2>1. Finished' = Finished
        BY <1>0 DEF Entering, Enter, Becomes, Finished
    <2>2. \A d \in Children : "parent" \in refs[d] => "parent" \in refs'[d]
        BY DEF Enter
    <2>3. parent' = parent /\ completed' = completed /\ outcome' = outcome
        BY DEF Enter
    <2>. QED BY <1>0, <1>group, <2>1, <2>2, <2>3 DEF Counted
<1>7. Results'
    BY <1>0, CombinatorsAssumption DEF TypeOK, Enter, Becomes, Entering, Results, Alive
<1>8. ResumedOnce' /\ OutcomeReady'
    BY <1>0 DEF ResumedOnce, OutcomeReady, Enter
<1>9. WaitsForChildren'
    BY <1>0 DEF Enter, Entering, WaitsForChildren, CancellationWaits
<1>. QED BY <1>1, <1>2, <1>3, <1>4, <1>5, <1>6, <1>7, <1>8, <1>9 DEF IInv

\* The Work goes on with the stack that it holds.
LEMMA BeginKeeps ==
    ASSUME IInv, NEW c \in Children, Begin(c)
    PROVE  IInv'
<1>0. /\ TypeOK /\ ResumedOnce /\ OutcomeReady /\ WaitsForChildren
      /\ \A d \in Children : Kept(d)
      /\ Entering /\ Stretch /\ Absent /\ OnePath /\ Counted /\ Results
    BY DEF IInv
<1>group.
      /\ First \in Group /\ Group \in SUBSET Children
      /\ kind # "timeout" => Group = Children
      /\ kind = "timeout" => Group = {First}
      /\ kind' = kind /\ Group' = Group
    BY <1>0, GroupFacts DEF Begin, Group
<1>1. TypeOK'
    BY <1>0 DEF TypeOK, Stage, Begin, Becomes
<1>2. ASSUME NEW d \in Children PROVE Kept(d)'
    BY <1>0 DEF Stretch, FirstStretch, Kept, Begin, Becomes
<1>3. Entering' /\ Stretch'
    BY <1>0, <1>group, CombinatorsAssumption DEF TypeOK, Entering, Stretch, FirstStretch,
        Begin, Becomes
<1>4. Absent'
    BY <1>0, <1>group DEF Absent, Begin, Becomes
<1>5. OnePath'
    BY <1>0, <1>group DEF OnePath, Guarded, Begin
<1>6. Counted'
    BY <1>0 DEF Counted, Finished, Begin, Becomes
<1>7. Results'
    BY <1>0 DEF Results, Alive, Begin, Becomes
<1>8. ResumedOnce' /\ OutcomeReady'
    BY <1>0 DEF ResumedOnce, OutcomeReady, Begin
<1>9. WaitsForChildren'
    BY <1>0 DEF WaitsForChildren, CancellationWaits, Alive, Begin, Becomes
<1>. QED BY <1>1, <1>2, <1>3, <1>4, <1>5, <1>6, <1>7, <1>8, <1>9 DEF IInv

\* Who suspends may be destroyed from then on.
LEMMA SuspendKeeps ==
    ASSUME IInv, NEW c \in Children, Suspend(c)
    PROVE  IInv'
<1>0. /\ TypeOK /\ ResumedOnce /\ OutcomeReady /\ WaitsForChildren
      /\ \A d \in Children : Kept(d)
      /\ Entering /\ Stretch /\ Absent /\ OnePath /\ Counted /\ Results
    BY DEF IInv
<1>group.
      /\ First \in Group /\ Group \in SUBSET Children
      /\ kind # "timeout" => Group = Children
      /\ kind = "timeout" => Group = {First}
      /\ kind' = kind /\ Group' = Group
    BY <1>0, GroupFacts DEF Suspend, Group
<1>1. TypeOK'
    BY <1>0 DEF TypeOK, Stage, Suspend, Becomes
<1>2. ASSUME NEW d \in Children PROVE Kept(d)'
    BY <1>0, CombinatorsAssumption DEF TypeOK, Stretch, FirstStretch, Kept, Suspend, Becomes
<1>3. Entering' /\ Stretch'
    BY <1>0, <1>group, CombinatorsAssumption DEF TypeOK, Entering, Stretch, FirstStretch,
        Suspend, Becomes
<1>4. Absent'
    BY <1>0, <1>group DEF Absent, Suspend, Becomes
<1>5. OnePath'
    BY <1>0, <1>group DEF OnePath, Guarded, Suspend
<1>6. Counted'
    BY <1>0 DEF Counted, Finished, Suspend, Becomes
<1>7. Results'
    BY <1>0 DEF Results, Alive, Suspend, Becomes
<1>8. ResumedOnce' /\ OutcomeReady'
    BY <1>0 DEF ResumedOnce, OutcomeReady, Suspend
<1>9. WaitsForChildren'
    BY <1>0 DEF WaitsForChildren, CancellationWaits, Alive, Suspend, Becomes
<1>. QED BY <1>1, <1>2, <1>3, <1>4, <1>5, <1>6, <1>7, <1>8, <1>9 DEF IInv

\* The thread that resumes the stack holds it.
LEMMA WakeKeeps ==
    ASSUME IInv, NEW c \in Children, Wake(c)
    PROVE  IInv'
<1>0. /\ TypeOK /\ ResumedOnce /\ OutcomeReady /\ WaitsForChildren
      /\ \A d \in Children : Kept(d)
      /\ Entering /\ Stretch /\ Absent /\ OnePath /\ Counted /\ Results
    BY DEF IInv
<1>group.
      /\ First \in Group /\ Group \in SUBSET Children
      /\ kind # "timeout" => Group = Children
      /\ kind = "timeout" => Group = {First}
      /\ kind' = kind /\ Group' = Group
    BY <1>0, GroupFacts DEF Wake, Group
<1>1. TypeOK'
    BY <1>0 DEF TypeOK, Stage, Holder, Wake, Becomes, Hold
<1>2. ASSUME NEW d \in Children PROVE Kept(d)'
    BY <1>0 DEF Stretch, FirstStretch, TypeOK, Kept, Wake, Becomes, Hold
<1>3. Entering' /\ Stretch'
    BY <1>0, <1>group, CombinatorsAssumption DEF TypeOK, Entering, Stretch, FirstStretch,
        Wake, Becomes, Hold
<1>4. Absent'
    BY <1>0, <1>group DEF Absent, Wake, Becomes
<1>5. OnePath'
    BY <1>0, <1>group DEF OnePath, Guarded, Wake, Hold
<1>6. Counted'
    BY <1>0 DEF Counted, Finished, Wake, Becomes, Hold
<1>7. Results'
    BY <1>0 DEF Results, Alive, Wake, Becomes, Hold
<1>8. ResumedOnce' /\ OutcomeReady'
    BY <1>0 DEF ResumedOnce, OutcomeReady, Wake
<1>9. WaitsForChildren'
    BY <1>0 DEF WaitsForChildren, CancellationWaits, Wake
<1>. QED BY <1>1, <1>2, <1>3, <1>4, <1>5, <1>6, <1>7, <1>8, <1>9 DEF IInv

\* schedule() holds the stack again.
LEMMA RescheduleKeeps ==
    ASSUME IInv, NEW c \in Children, Reschedule(c)
    PROVE  IInv'
<1>0. /\ TypeOK /\ ResumedOnce /\ OutcomeReady /\ WaitsForChildren
      /\ \A d \in Children : Kept(d)
      /\ Entering /\ Stretch /\ Absent /\ OnePath /\ Counted /\ Results
    BY DEF IInv
<1>group.
      /\ First \in Group /\ Group \in SUBSET Children
      /\ kind # "timeout" => Group = Children
      /\ kind = "timeout" => Group = {First}
      /\ kind' = kind /\ Group' = Group
    BY <1>0, GroupFacts DEF Reschedule, Group
<1>1. TypeOK'
    BY <1>0 DEF TypeOK, Stage, Holder, Reschedule, Becomes, Hold
<1>2. ASSUME NEW d \in Children PROVE Kept(d)'
    BY <1>0 DEF Stretch, FirstStretch, TypeOK, Kept, Reschedule, Becomes, Hold
<1>3. Entering' /\ Stretch'
    BY <1>0, <1>group, CombinatorsAssumption DEF TypeOK, Entering, Stretch, FirstStretch,
        Reschedule, Becomes, Hold
<1>4. Absent'
    BY <1>0, <1>group DEF Absent, Reschedule, Becomes
<1>5. OnePath'
    BY <1>0, <1>group DEF OnePath, Guarded, Reschedule, Hold
<1>6. Counted'
    BY <1>0 DEF Counted, Finished, Reschedule, Becomes, Hold
<1>7. Results'
    BY <1>0 DEF Results, Alive, Reschedule, Becomes, Hold
<1>8. ResumedOnce' /\ OutcomeReady'
    BY <1>0 DEF ResumedOnce, OutcomeReady, Reschedule
<1>9. WaitsForChildren'
    BY <1>0 DEF WaitsForChildren, CancellationWaits, Reschedule
<1>. QED BY <1>1, <1>2, <1>3, <1>4, <1>5, <1>6, <1>7, <1>8, <1>9 DEF IInv

\* What a thread or a Work lets go is not running.
LEMMA ReleaseKeeps ==
    ASSUME IInv, NEW c \in Children, Release(c)
    PROVE  IInv'
<1>0. /\ TypeOK /\ ResumedOnce /\ OutcomeReady /\ WaitsForChildren
      /\ \A d \in Children : Kept(d)
      /\ Entering /\ Stretch /\ Absent /\ OnePath /\ Counted /\ Results
    BY DEF IInv
<1>group.
      /\ First \in Group /\ Group \in SUBSET Children
      /\ kind # "timeout" => Group = Children
      /\ kind = "timeout" => Group = {First}
      /\ kind' = kind /\ Group' = Group
    BY <1>0, GroupFacts DEF Release, Group
<1>1. TypeOK'
    BY <1>0 DEF TypeOK, Release
<1>2. ASSUME NEW d \in Children PROVE Kept(d)'
    BY <1>0 DEF Stretch, FirstStretch, Kept, Release, Unused, UsesWork
<1>3. Entering' /\ Stretch'
    BY <1>0, <1>group, CombinatorsAssumption DEF TypeOK, Entering, Stretch, FirstStretch,
        Release, Unused
<1>4. Absent'
    BY <1>0, <1>group DEF Absent, Release
<1>5. OnePath'
    BY <1>0, <1>group DEF OnePath, Guarded, Release
<1>6. Counted'
    BY <1>0 DEF Counted, Finished, Release, Unused
<1>7. Results'
    BY <1>0 DEF Results, Alive, Release, Unused
<1>8. ResumedOnce' /\ OutcomeReady'
    BY <1>0 DEF ResumedOnce, OutcomeReady, Release
<1>9. WaitsForChildren'
    BY <1>0 DEF WaitsForChildren, CancellationWaits, Alive, Release
<1>. QED BY <1>1, <1>2, <1>3, <1>4, <1>5, <1>6, <1>7, <1>8, <1>9 DEF IInv

\* A child that runs on a stack that is there is one of the group, and unless it has lost
\* its parent or a WhenAny the parent waits.
LEMMA Active ==
    ASSUME IInv, NEW c \in Children, child[c] = "running", Alive(c)
    PROVE  /\ c \in Group
           /\ kind # "any" => parent \in {"suspended", "gone"}
           /\ parent = "running" => outcome # "none"
<1>1. c \in Group /\ (parent = "running" => outcome # "none")
    BY DEF IInv, Absent
<1>2. kind # "any" => parent \in {"suspended", "gone"}
    BY DEF IInv, WaitsForChildren, CancellationWaits, TypeOK, ResumedOnce
<1>. QED BY <1>1, <1>2

\* One more child has finished.
LEMMA FinishedGrows ==
    ASSUME TypeOK, NEW c \in Children, child[c] = "running", Ends(c)
    PROVE  /\ Finished' = Finished \cup {c}
           /\ Cardinality(Finished) \in Nat
           /\ Cardinality(Finished') = Cardinality(Finished) + 1
           /\ Cardinality(Finished') <= Cardinality(Children)
           /\ Cardinality(Finished') = Cardinality(Children) <=> Finished' = Children
<1>1. Finished' = Finished \cup {c} /\ c \notin Finished
    BY DEF TypeOK, Ends, Becomes, Finished
<1>2. IsFiniteSet(Children) /\ Finished \in SUBSET Children /\ Finished' \in SUBSET Children
    BY CombinatorsAssumption DEF Finished
<1>3. IsFiniteSet(Finished) /\ Cardinality(Finished) \in Nat
    BY <1>2, FS_Subset, FS_CardinalityType
<1>4. Cardinality(Finished \cup {c}) = Cardinality(Finished) + 1
    BY <1>1, <1>3, FS_AddElement
<1>5. /\ Cardinality(Finished') <= Cardinality(Children)
      /\ Cardinality(Finished') = Cardinality(Children) => Finished' = Children
    BY <1>2, FS_Subset
<1>. QED BY <1>1, <1>3, <1>4, <1>5

\* A child of a WhenAll ends and is counted; the last one continues the parent.
LEMMA FinishCountedKeeps ==
    ASSUME IInv, NEW c \in Children, Finish(c), FinishCounted
    PROVE  IInv'
<1>0. /\ TypeOK /\ ResumedOnce /\ OutcomeReady /\ \A d \in Children : Kept(d)
      /\ Entering /\ Stretch /\ Absent /\ OnePath /\ Counted
    BY DEF IInv
<1>1. /\ kind = "all" /\ kind' = kind /\ Group = Children /\ Group' = Children
      /\ Ends(c) /\ child[c] = "running" /\ child' = [child EXCEPT ![c] = "finished"]
      /\ UNCHANGED <<held, entering, timer, outcome, left, refs, winner>> /\ Alive(c)
    BY DEF Finish, Defined, FinishCounted, Ends, Becomes, Group
<1>2. parent \in {"suspended", "gone"}
    BY <1>1, Active
<1>3. /\ Finished' = Finished \cup {c}
      /\ Cardinality(Finished) \in Nat
      /\ Cardinality(Finished') = Cardinality(Finished) + 1
      /\ Cardinality(Finished') <= Cardinality(Children)
      /\ Cardinality(Finished') = Cardinality(Children) <=> Finished' = Children
    BY <1>0, <1>1, FinishedGrows
<1>4. /\ parent = "gone" => parent' = "gone" /\ completed' = completed
      /\ parent = "suspended" =>
             /\ completed' = Cardinality(Finished')
             /\ parent' = IF Finished' = Children THEN "resuming" ELSE "suspended"
    BY <1>0, <1>1, <1>3 DEF FinishCounted, AllCompleted, Continue, Counted
<1>5. TypeOK'
    <2>1. child' \in [Children -> Stage]
        BY <1>0, <1>1 DEF TypeOK, Stage
    <2>2. completed' \in 0..Cardinality(Children)
        <3>1. Cardinality(Children) \in Nat
            BY CombinatorsAssumption, FS_CardinalityType
        <3>. QED BY <1>0, <1>2, <1>3, <1>4, <3>1 DEF TypeOK
    <2>. QED BY <1>0, <1>1, <1>2, <1>4, <2>1, <2>2 DEF TypeOK
<1>6. Counted'
    BY <1>0, <1>1, <1>2, <1>4 DEF Counted
<1>7. ASSUME NEW d \in Children PROVE Kept(d)'
    <2>1. CASE d = c
        BY <1>0, <1>1, <2>1 DEF Kept, TypeOK
    <2>2. CASE d # c
        BY <1>0, <1>1, <2>2 DEF Kept, FirstStretch, TypeOK
    <2>. QED BY <2>1, <2>2
<1>8. Entering' /\ Stretch'
    <2>1. entering => parent = "suspended" /\ child[First] = "created" /\ First # c
        BY <1>0, <1>1 DEF Entering
    <2>2. entering => First \notin Finished'
        BY <1>3, <2>1 DEF Finished
    <2>3. Entering'
        BY <1>0, <1>1, <1>2, <1>4, <2>1, <2>2, CombinatorsAssumption DEF Entering, TypeOK
    <2>4. Stretch'
        BY <1>0, <1>1, <1>2, <1>4, CombinatorsAssumption DEF Stretch, FirstStretch, TypeOK
    <2>. QED BY <2>3, <2>4
<1>9. Absent' /\ OnePath' /\ Results'
    BY <1>0, <1>1, <1>2, <1>4 DEF Absent, OnePath, Results
<1>10. ResumedOnce' /\ OutcomeReady'
    BY <1>0, <1>1, <1>2, <1>4 DEF ResumedOnce, OutcomeReady
<1>11. WaitsForChildren'
    BY <1>2, <1>4 DEF WaitsForChildren, CancellationWaits, Finished
<1>. QED BY <1>5, <1>6, <1>7, <1>8, <1>9, <1>10, <1>11 DEF IInv

\* A child of a Timeout or a WhenAny ends, and continues the parent if it takes the guard.
LEMMA FinishGuardedKeeps ==
    ASSUME IInv, NEW c \in Children, Finish(c), FinishGuarded(c)
    PROVE  IInv'
<1>0. /\ TypeOK /\ ResumedOnce /\ OutcomeReady /\ WaitsForChildren
      /\ \A d \in Children : Kept(d)
      /\ Entering /\ Stretch /\ Absent /\ OnePath /\ Results
    BY DEF IInv
<1>1. /\ kind \in {"timeout", "any"} /\ kind' = kind /\ Group' = Group
      /\ child[c] = "running" /\ child' = [child EXCEPT ![c] = "finished"]
      /\ UNCHANGED <<held, entering, timer, outcome, left, completed>> /\ Alive(c)
    BY <1>0, CombinatorsAssumption DEF TypeOK, Finish, Defined, FinishGuarded, Ends, Becomes,
        Group
<1>2. /\ c \in Group /\ (kind = "timeout" => c = First)
      /\ kind = "timeout" => parent \in {"suspended", "gone"}
      /\ parent = "running" => outcome # "none"
    BY <1>1, Active DEF Group
<1>3. entering => kind = "any" /\ c # First
    BY <1>0, <1>1, <1>2 DEF Entering
<1>5. CASE Wins /\ KeepForParent(c) /\ winner' = {c} /\ Continue
    <2>1. /\ parent = "suspended" /\ parent' = "resuming" /\ winner' = {c} /\ timer # "canceling"
        BY <1>0, <1>1, <1>5 DEF Wins, OnePath, Continue
    <2>2. refs' = [d \in Children |-> IF d = c THEN (refs[d] \ {"guard"}) \cup {"parent"}
                                               ELSE refs[d] \ {"guard"}]
        BY <1>5 DEF KeepForParent, Unguard
    <2>3. TypeOK'
        BY <1>0, <1>1, <2>1, <2>2 DEF TypeOK, Stage, Holder
    <2>4. ASSUME NEW d \in Children PROVE Kept(d)'
        BY <1>0, <1>1, <2>2 DEF Kept, FirstStretch, TypeOK
    <2>5. ~Guarded'
        BY <1>0, <1>1, <2>2, GroupFacts DEF Guarded
    <2>6. OnePath' /\ Absent' /\ ResumedOnce' /\ OutcomeReady'
        BY <1>0, <1>1, <1>2, <2>1, <2>5 DEF OnePath, Absent, ResumedOnce, OutcomeReady, TypeOK
    <2>9. Entering' /\ Stretch'
        BY <1>0, <1>1, <1>3, <2>1, <2>2, CombinatorsAssumption
           DEF Entering, Stretch, FirstStretch, TypeOK
    <2>7. Results'
        BY <1>0, <1>1, <1>2, <2>1, <2>2 DEF Results, TypeOK
    <2>8. WaitsForChildren'
        BY <1>0, <1>1 DEF WaitsForChildren, CancellationWaits, Absent, Group, TypeOK
    <2>. QED BY <1>1, <2>1, <2>3, <2>4, <2>6, <2>7, <2>8, <2>9 DEF IInv, Counted
<1>6. CASE UNCHANGED <<parent, refs, winner>>
    <2>1. TypeOK'
        BY <1>0, <1>1, <1>6 DEF TypeOK, Stage
    <2>2. ASSUME NEW d \in Children PROVE Kept(d)'
        BY <1>0, <1>1, <1>6 DEF Kept, FirstStretch, TypeOK
    <2>3. OnePath' /\ Absent' /\ ResumedOnce' /\ OutcomeReady'
        BY <1>0, <1>1, <1>2, <1>6 DEF OnePath, Guarded, Absent, ResumedOnce, OutcomeReady,
                                      TypeOK
    <2>6. Entering' /\ Stretch'
        BY <1>0, <1>1, <1>3, <1>6, CombinatorsAssumption
           DEF Entering, Stretch, FirstStretch, TypeOK
    <2>4. Results'
        BY <1>0, <1>1, <1>2, <1>6 DEF Results
    <2>5. WaitsForChildren'
        BY <1>1, <1>2, <1>6 DEF WaitsForChildren, CancellationWaits
    <2>. QED BY <1>1, <2>1, <2>2, <2>3, <2>4, <2>5, <2>6 DEF IInv, Counted
<1>. QED BY <1>5, <1>6 DEF FinishGuarded

\* The timer takes the guard, or finds that a child has taken it.
LEMMA TimerFiresKeeps ==
    ASSUME IInv, TimerFires
    PROVE  IInv'
<1>0. /\ TypeOK /\ ResumedOnce /\ OutcomeReady /\ WaitsForChildren
      /\ \A d \in Children : Kept(d)
      /\ Entering /\ Stretch /\ Absent /\ OnePath /\ Counted /\ Results
    BY DEF IInv
<1>group.
      /\ First \in Group /\ Group \in SUBSET Children
      /\ kind # "timeout" => Group = Children
      /\ kind = "timeout" => Group = {First}
      /\ kind' = kind /\ Group' = Group
    BY <1>0, GroupFacts DEF TimerFires, Group
<1>1. TypeOK'
    BY <1>0 DEF TypeOK, TimerFires, Unguard
<1>2. ASSUME NEW d \in Children PROVE Kept(d)'
    BY <1>0 DEF Stretch, FirstStretch, Kept, TimerFires, Unguard
<1>3. Entering' /\ Stretch'
    BY <1>0, <1>group, CombinatorsAssumption DEF TypeOK, Entering, Stretch, FirstStretch,
        TimerFires, Unguard
<1>4. Absent'
    BY <1>0, <1>group DEF Absent, TimerFires
<1>5. OnePath'
    <2>1. CASE Guarded
        <3>1. ~Guarded'
            BY <1>group DEF Guarded, TimerFires, Fires, Unguard
        <3>2. /\ kind = "timeout" /\ parent' = parent /\ parent \in {"suspended", "gone"}
            BY <1>0, <2>1 DEF TimerFires, OnePath
        <3>. QED BY <1>group, <3>1, <3>2 DEF OnePath
    <2>2. CASE ~Guarded
        BY <1>group, <2>2 DEF OnePath, Guarded, TimerFires, Fires
    <2>. QED BY <2>1, <2>2
<1>6. Counted'
    BY <1>0 DEF Counted, Finished, TimerFires, Unguard
<1>7. Results'
    BY <1>0, <1>group DEF TypeOK, Results, Alive, TimerFires, Unguard
<1>8. ResumedOnce' /\ OutcomeReady'
    BY <1>0 DEF ResumedOnce, OutcomeReady, TimerFires
<1>9. WaitsForChildren'
    BY <1>0 DEF WaitsForChildren, CancellationWaits, Alive, TimerFires, Unguard
<1>. QED BY <1>1, <1>2, <1>3, <1>4, <1>5, <1>6, <1>7, <1>8, <1>9 DEF IInv

\* The parent of a Timeout goes on without a child.
LEMMA CancelAndContinueKeeps ==
    ASSUME IInv, CancelAndContinue
    PROVE  IInv'
<1>0. /\ TypeOK /\ ResumedOnce /\ OutcomeReady /\ WaitsForChildren
      /\ \A d \in Children : Kept(d)
      /\ Entering /\ Stretch /\ Absent /\ OnePath /\ Counted /\ Results
    BY DEF IInv
<1>group.
      /\ First \in Group /\ Group \in SUBSET Children
      /\ kind # "timeout" => Group = Children
      /\ kind = "timeout" => Group = {First}
      /\ kind' = kind /\ Group' = Group
    BY <1>0, GroupFacts DEF CancelAndContinue, Group
<1>enter. ~entering
    BY <1>0 DEF CancelAndContinue, Canceled, Entering, Alive
<1>step.
      /\ parent' = IF parent = "gone" THEN "gone" ELSE "resuming"
      /\ kind = "timeout" /\ ~Alive(First) /\ ~Guarded /\ ~entering
      /\ timer' = "off" /\ child' = child /\ refs' = refs
    BY <1>0, <1>enter DEF CancelAndContinue, Canceled, Continue, OnePath
<1>1. TypeOK'
    BY <1>0, <1>step DEF TypeOK, CancelAndContinue
<1>2. ASSUME NEW d \in Children PROVE Kept(d)'
    BY <1>0 DEF Stretch, FirstStretch, Kept, Alive, CancelAndContinue, Canceled
<1>3. Entering' /\ Stretch'
    BY <1>0, <1>group, CombinatorsAssumption DEF TypeOK, Entering, Stretch, FirstStretch,
        CancelAndContinue, Continue, Canceled, Alive
<1>4. Absent'
    BY <1>0, <1>group DEF Absent, CancelAndContinue, Continue
<1>5. OnePath'
    BY <1>0, <1>group DEF OnePath, Guarded, CancelAndContinue
<1>6. Counted'
    BY <1>group, <1>step DEF Counted
<1>7. Results'
    BY <1>group, <1>step DEF Results, Alive
<1>8. ResumedOnce' /\ OutcomeReady'
    BY <1>0 DEF ResumedOnce, OutcomeReady, OnePath, CancelAndContinue, Continue
<1>9. WaitsForChildren'
    BY <1>0, <1>group, <1>step DEF WaitsForChildren, CancellationWaits, Absent, Alive
<1>. QED BY <1>1, <1>2, <1>3, <1>4, <1>5, <1>6, <1>7, <1>8, <1>9 DEF IInv

\* await_resume finds what it is looking for.
LEMMA AwaitResumeKeeps ==
    ASSUME IInv, AwaitResume
    PROVE  IInv'
<1>0. /\ TypeOK /\ ResumedOnce /\ OutcomeReady /\ WaitsForChildren
      /\ \A d \in Children : Kept(d)
      /\ Entering /\ Stretch /\ Absent /\ OnePath /\ Counted /\ Results
    BY DEF IInv
<1>group.
      /\ First \in Group /\ Group \in SUBSET Children
      /\ kind # "timeout" => Group = Children
      /\ kind = "timeout" => Group = {First}
      /\ kind' = kind /\ Group' = Group
    BY <1>0, GroupFacts DEF AwaitResume, Group
<1>step.
      /\ parent = "resuming" /\ parent' = "running" /\ child' = child
      /\ \A d \in Children : refs'[d] \in SUBSET refs[d]
    BY DEF AwaitResume
<1>outcome. outcome' \in {"timedout", "result"}
    <2>1. CASE kind = "timeout"
        BY <1>0, <2>1 DEF AwaitResume, HasResult, Results
    <2>2. CASE kind = "any"
        BY <1>0, <2>2 DEF AwaitResume, HasResult, Results, Alive
    <2>3. CASE kind = "all"
        <3>1. \A d \in Group : HasResult(d)
            BY <1>0, <1>group, <1>step, <2>3 DEF HasResult, Counted, Alive, Finished
        <3>. QED BY <2>3, <3>1 DEF AwaitResume
    <2>. QED BY <1>0, <2>1, <2>2, <2>3, CombinatorsAssumption DEF TypeOK
<1>1. TypeOK'
    <2>1. refs' \in [Children -> SUBSET Holder]
        BY <1>0 DEF TypeOK, AwaitResume
    <2>. QED BY <1>0, <1>group, <1>step, <1>outcome, <2>1 DEF TypeOK, AwaitResume, Outcome
<1>2. ASSUME NEW d \in Children PROVE Kept(d)'
    BY <1>0 DEF Stretch, FirstStretch, Kept, AwaitResume
<1>3. Entering' /\ Stretch'
    BY <1>0, <1>group, CombinatorsAssumption DEF TypeOK, Entering, Stretch, FirstStretch,
        AwaitResume
<1>4. Absent'
    BY <1>0, <1>group, <1>step, <1>outcome DEF Absent
<1>5. OnePath'
    BY <1>0, <1>group DEF OnePath, Guarded, AwaitResume
<1>6. Counted'
    BY <1>0 DEF Counted, Finished, AwaitResume
<1>7. Results'
    BY DEF Results, AwaitResume
<1>8. ResumedOnce' /\ OutcomeReady'
    BY <1>step, <1>outcome DEF ResumedOnce, OutcomeReady
<1>9. WaitsForChildren'
    BY <1>0 DEF WaitsForChildren, CancellationWaits, Alive, AwaitResume
<1>. QED BY <1>1, <1>2, <1>3, <1>4, <1>5, <1>6, <1>7, <1>8, <1>9 DEF IInv

\* A parent that waits is destroyed, and does not hold the stacks any more.
LEMMA DestroyKeeps ==
    ASSUME IInv, Destroy
    PROVE  IInv'
<1>0. /\ TypeOK /\ ResumedOnce /\ OutcomeReady /\ WaitsForChildren
      /\ \A d \in Children : Kept(d)
      /\ Entering /\ Stretch /\ Absent /\ OnePath /\ Counted /\ Results
    BY DEF IInv
<1>group.
      /\ First \in Group /\ Group \in SUBSET Children
      /\ kind # "timeout" => Group = Children
      /\ kind = "timeout" => Group = {First}
      /\ kind' = kind /\ Group' = Group
    BY <1>0, GroupFacts DEF Destroy, Group
<1>1. TypeOK'
    BY <1>0 DEF TypeOK, Destroy
<1>2. ASSUME NEW d \in Children PROVE Kept(d)'
    BY <1>0 DEF Stretch, FirstStretch, Kept, Destroy
<1>3. Entering' /\ Stretch'
    BY <1>0, <1>group, CombinatorsAssumption DEF TypeOK, Entering, Stretch, FirstStretch,
        Absent, Destroy
<1>4. Absent'
    BY <1>0, <1>group DEF Absent, Destroy
<1>5. OnePath'
    BY <1>0, <1>group DEF OnePath, Guarded, Destroy
<1>6. Counted'
    BY DEF Counted, Destroy
<1>7. Results'
    BY DEF Results, Destroy
<1>8. ResumedOnce' /\ OutcomeReady'
    BY <1>0 DEF ResumedOnce, OutcomeReady, Destroy
<1>9. WaitsForChildren'
    BY DEF WaitsForChildren, CancellationWaits, Destroy
<1>. QED BY <1>1, <1>2, <1>3, <1>4, <1>5, <1>6, <1>7, <1>8, <1>9 DEF IInv

-----------------------------------------------------------------------------
\* Every step keeps IInv.
LEMMA NextIInv == IInv /\ [Next]_vars => IInv'
<1>. SUFFICES ASSUME IInv, [Next]_vars PROVE IInv'
    OBVIOUS
<1>1. CASE Starts
    BY <1>1, AwaitKeeps, EnterKeeps, ScheduleKeeps DEF Starts
<1>2. ASSUME NEW c \in Children, Begin(c) \/ Runs(c) \/ Wake(c) \/ Reschedule(c) \/ Release(c)
      PROVE  IInv'
    <2>1. CASE Finish(c)
        BY <2>1, FinishCountedKeeps, FinishGuardedKeeps DEF Finish
    <2>. QED BY <1>2, <2>1, BeginKeeps, SuspendKeeps, WakeKeeps, RescheduleKeeps, ReleaseKeeps
             DEF Runs
<1>3. CASE TimerFires \/ CancelAndContinue \/ AwaitResume \/ Destroy
    BY <1>3, TimerFiresKeeps, CancelAndContinueKeeps, AwaitResumeKeeps, DestroyKeeps
<1>4. CASE UNCHANGED vars
    BY <1>4 DEF vars, IInv, TypeOK, ResumedOnce, OutcomeReady, WaitsForChildren,
                CancellationWaits, Kept, Entering, Stretch, FirstStretch, Absent, OnePath,
                Counted, Results, Guarded, Group, Finished, Alive
<1>. QED BY <1>1, <1>2, <1>3, <1>4 DEF Next

\* The inductive invariant, for any number of children.
THEOREM CombinatorsInvariant == Spec => []IInv
<1>1. IInv /\ [Next]_vars => IInv'
    BY NextIInv
<1>. QED BY <1>1, InitIInv, PTL DEF Spec

\* No more children complete than there are.
THEOREM CombinatorsTypeOK == Spec => []TypeOK
<1>1. IInv => TypeOK
    BY DEF IInv
<1>. QED BY <1>1, CombinatorsInvariant, PTL

\* The only stack that is destroyed under a thread is First's, before it has been
\* suspended; under a WhenAll with a parent that nobody holds.
THEOREM CombinatorsOnlyFirstDies == Spec => []OnlyFirstDies
<1>1. ASSUME IInv, NEW c \in Children, child[c] \in {"queued", "running"}, ~Alive(c)
      PROVE  c = First /\ FirstStretch /\ (kind = "all" => parent = "gone" /\ ~held)
    <2>1. c = First /\ FirstStretch
        BY <1>1 DEF IInv, Kept, Alive
    <2>2. ASSUME kind = "all" PROVE parent = "gone"
        <3>1. First \notin Finished /\ child[First] # "absent"
            BY <2>1 DEF FirstStretch, Finished
        <3>2. parent \notin {"suspended", "resuming"}
            BY <1>1, <2>1, <2>2 DEF IInv, Counted, Alive
        <3>3. parent # "running"
            BY <1>1, <2>1, <2>2, <3>1 DEF IInv, Counted, Absent
        <3>. QED BY <1>1, <3>2, <3>3 DEF IInv, TypeOK, ResumedOnce
    <2>. QED BY <1>1, <2>1, <2>2 DEF IInv, TypeOK, Stretch
<1>2. IInv => OnlyFirstDies
    BY <1>1 DEF OnlyFirstDies
<1>. QED BY <1>2, CombinatorsInvariant, PTL

\* The children and the timer together resume the parent once.
THEOREM CombinatorsResumedOnce == Spec => []ResumedOnce
<1>1. IInv => ResumedOnce
    BY DEF IInv
<1>. QED BY <1>1, CombinatorsInvariant, PTL

\* await_resume finds the results, or the stack that a Timeout has destroyed.
THEOREM CombinatorsOutcomeReady == Spec => []OutcomeReady
<1>1. IInv => OutcomeReady
    BY DEF IInv
<1>. QED BY <1>1, CombinatorsInvariant, PTL

\* Timeout and WhenAll continue after the last of their children.
THEOREM CombinatorsWaitsForChildren == Spec => []WaitsForChildren
<1>1. IInv => WaitsForChildren
    BY DEF IInv
<1>. QED BY <1>1, CombinatorsInvariant, PTL
=============================================================================
