# alonite in TLA+

[alonite](../src/README.md) is a C++20 coroutine runtime: executors that run
coroutines on one or several OS threads, and what coroutines use to wait for each
other (condition variables, channels, a mutex, `Timeout`, `WhenAll`, `WhenAny`).
This directory holds TLA+ models of it, TLC configurations that check them on
small instances, and TLAPS proofs of their main safety properties for every value
of the constants.  Line numbers without a file are those of
`src/include/alonite/runtime.h`.

## 1. The system

| Component | State | Operations | Who it talks to |
|---|---|---|---|
| `ThreadPoolExecutor` (921-1107) | `tasks`, `delayed_tasks`, `external_work`, `active_threads`, `spawned_tasks`, guard groups, `mutex`, `cv` | `block_on`, `spawn` (now or at a time), `increment/decrement_external_work`, `add/remove_guard(_group)` | everything that suspends |
| `ThisThreadExecutor` (774-899) | the same, unsynchronised, for one thread | the same | the same |
| `TaskStack`, `Work` (52-287) | the frames of one logical task and its result; a `Work` holds a stack weakly or strongly | `push`, `pop`, `resume`, `erase`, `take_result` | executors, combinators |
| `Task`, `FinalAwaiter` (290-419) | one frame | `co_await` (push, symmetric transfer), final suspend (pop) | `TaskStack` |
| `ConditionVariable` (427-531) | `continuations`: a deque of weak references | `wait`, `notify_one`, `notify_all` | its waiter's executor: external work, `schedule`, or resumption in place |
| mpsc channels (`mpsc.h`) | `queue` (or a count), `sender_count`, `closed`, two condition variables, a mutex | `Sender::send`, `try_send`, copy, drop; `Receiver::recv`, drop | `ConditionVariable` |
| `Mutex` (`mutex.h`) | a `channel<void>(1)` | `lock`, `unlock` | the channel |
| `JoinHandle`, `spawn` (589-735) | result, continuation and guard of a spawned task | `co_await`, `abort`, destruction | executor |
| `Timeout`, `WhenAll`, `WhenAny` and `-Dyn` (1144-1635) | the children's stacks, a guard or a guard group, a counter, a timer | `await_suspend`, final suspend of a child, `cancel_and_continue`, `await_resume` | executor, `TaskStack` |
| `WithExecutor` (1651-1760) | where the parent continues | the hop to another executor and back | two executors |
| Qt (`qt.h`), helpers, benchmarks | - | - | - |

A coroutine that suspends leaves *references* to its stack: weak ones in
condition variables, in the queue of ready work and in the delayed work of
`Sleep` and `Timeout`; strong ones in a `Work` made by `schedule()`, in whoever
is resuming it, in the executor's `spawned_tasks` or guard groups, or in the
parent that awaits it.  Destroying the last strong one destroys the coroutines:
that is how tasks are cancelled.

### What is hard

* Several threads share one pool.  `block_on` takes work in one critical section
  and decides to sleep or leave in another; the departure is a protocol of its own
  on `active_threads`; `external_work` is changed without the mutex.
* A notification is made after a mutex has been released, and resumes the waiter
  inside the notifier, on the same stack of C++ calls, if they share an executor.
* A reference that has expired still stands in a condition variable.
* Cancellation races with completion; a child may complete before
  `await_suspend` of its parent has returned.
* The program promises progress: `block_on` returns, what is sent is received,
  `lock()` succeeds, a `Timeout` ends.

### What makes each component correct

* pool: a coroutine is in exactly one place (`Inv1`); no thread leaves while there
  is work (`NoOrphanedWork`), none sleeps through work or a deadline
  (`WorkIsAttended`, `DeadlineIsAttended`); a root's result is there when
  `block_on` takes it (`ResultReady`, `DrainsToResult`); `block_on` returns
  (`Termination`).
* channel: it is a FIFO that closes (`ChannelSpec`), and every value, free place
  and closure that somebody waits for has been, or is about to be, announced.
* mutex: one token, it implements a lock (`LockSpec`), and a wanted free mutex is
  acquired.
* spawned tasks: the answer of `abort()` decides what `co_await` gives
  (`AbortDecides`), the owner is resumed once and finds a result
  (`OwnerResumedOnce`, `OutcomeReady`, `OwnerResumed`), a task whose handle is
  dropped runs to its end (`DetachedRuns`), its stack dies in the end and not under a
  thread (`Destroyed`, `StackAlive`).
* combinators: no stack should die under a thread that runs it (`StackAlive`), and only
  that of the first task, before its first suspension, can (`OnlyFirstDies`); the parent
  continues exactly once (`ResumedOnce`, `Continues`) and finds its results
  (`OutcomeReady`), with `Timeout` and `WhenAll` not before its tasks have ended
  (`WaitsForChildren`), and nothing is leaked (`CleansUp`).
* one stack on several executors: one thread of control (`OneResumer`, and `Implements`
  for the abstract `CallStack`), every unit of external work given back on its own
  executor (`UnitsCounted`), no coroutine left on an executor that has gone
  (`NotAbandoned`), every result taken once (`ResultPassed`), and `Returns`.
* `ThisThreadExecutor`: a coroutine goes on in exactly one way (`GoesOnOnce`), no
  deadline passes while the thread sleeps (`OnTime`), the result is there
  (`ResultReady`), work of stacks that are gone does not keep `block_on`
  (`PrunesCanceled`), which returns (`Termination`).

The full list of what can go wrong, each entry at its line, is under `hazards` in
`PROJECT.json`, with the properties that would notice.

## 2. The modules

| Module | Models |
|---|---|
| `ThreadPool` | `ThreadPoolExecutor::block_on` on several threads with `spawn`, `Yield`, `Sleep`, waiting and notification, external work |
| `Continuations` | the deque of a `ConditionVariable`, with expired references |
| `ChannelSpec` | what a channel promises: a bounded or unbounded FIFO with senders that come and go |
| `Channel` | `mpsc.h` over `Continuations` |
| `LockSpec` | what a mutex promises |
| `AsyncMutex` | `mutex.h`: a channel of one token, over `Continuations` |
| `Combinators` | `Timeout`, `WhenAll`, `WhenAny` awaited by one parent |
| `JoinHandle` | `spawn` and `JoinHandle`: await, abort, drop and completion |
| `CallStack` | what a `TaskStack` promises: a stack of calls with one thread of control |
| `TaskFrames` | one `TaskStack`, the `Task`s and `WithExecutor`s on it, and the references that keep it, over several executors |
| `ThisThreadExecutor` | `ThisThreadExecutor::block_on` with several stacks, `Timeout`, `spawn`, `TaskStack::guard` and the pushes of other threads |
| `MC*` | the symmetry sets for the runs |
| `*Proofs` | theorems about the module before the suffix |

`Channel` and `AsyncMutex` use `Continuations` for their condition variables and
instantiate `ChannelSpec` and `LockSpec` under a refinement mapping; `TaskFrames`
instantiates `CallStack`.  The same coroutine appears in several modules at the level
that the module needs: a name in a queue in `ThreadPool`, a stack with its references in
`Combinators`, `JoinHandle` and `ThisThreadExecutor`, a sequence of frames in
`TaskFrames`.

### ThreadPool

`Threads` names both the threads in `block_on` and their root coroutines: thread
`t` runs root `t` first, and any thread may run it later.  `pc[t]` is where the
thread is in `block_on`:

    out -> start -> take -> run -> take ... -> check -> wait -> waiting | timed -> take
                                               check -> leave -> announce -> drain
                                               drain -> parking -> parked -> drain
                                               drain -> result -> returned | failed

`run[t]` is the stack of coroutines that the thread is resuming, innermost last
(a notifier resumes its waiter inside itself), `batch[t]` is `tasks2`.  `tasks`,
`sleeping` and `due` are the queue and the delayed work, the latter before and
after its deadline.  Deadlines are kept by their order only: `Sleep` inserts at any
position, `Tick` passes the first.  `until[t]` is the deadline a thread sleeps on.
A coroutine at the top of `run` may `Yield`, `Sleep`, `Block` (on some condition
variable), notify a blocked one of `Peers` and `Finish`.  Coroutines in `Outside`
are notified by code that is not in the pool, which reaches the queue through
`schedule()`; `Holders` are owners of external work outside the pool.
`decrement_external_work` is two steps, as in the code, which holds no lock:
`DecrementExternalWork` then `NotifyDecrement`.  A critical section is one step:
`MutexFree` says that nobody is between the test and `cv.wait`, which keep the
mutex (`check` to `waiting` is two steps because a decrement or a notification
without the mutex may come in between).

`block_on(task, additional_threads)` (1019-1060) starts threads that call
`block_on(Yield{})` each, so it is several threads in `block_on` whose further roots
yield once: instances of the model.  Such a helper may leave while its pool still works,
because the test of line 1000 looks at the shared queues and not at the batches of other
threads.

Left out: delayed work of stacks that have been destroyed (lines 982-983; it is in
`ThisThreadExecutor`, whose loop has the same lines) and guards (see `Combinators`).

### Continuations, Channel, AsyncMutex

A deque holds tasks and the mark `Expired`.  `notify_one` pops the head and
resumes it if it is alive; when it is `Expired` nobody is resumed, exactly as
lines 443-452 do.  In `Channel` each handle operation is split where the code
releases its mutex: *push*, then *notify*.  A task that waits may be destroyed
(`Cancel`), and its reference expires.  A resumed task is *woken* and looks
again at the queue later; the in-place resumption inside `notify_one` is one of
the orders this allows.  `channel<void>` is the same code with a count for the
queue.  `First` owns the first handle; other senders get theirs by copying.

A `Mutex` starts with one token in its channel, `lock` receives it, `unlock` sends
it back.  Since at most one token exists the send never waits, which `OneToken`
verifies.

### Combinators

One parent awaits a `Timeout` of one task, or a `WhenAll` or `WhenAny` of all of
`Children`.  `child[c]` is where a child is, `refs[c]` who holds its stack: the
local references of `await_suspend`, the executor's guard or group, a `Work`, the
thread that resumes it, the parent.  `refs[c] = {}` means the stack has been
destroyed.  A completion, the timer and the destruction of the parent race.

**`First`.**  `First` is resumed by symmetric transfer from `await_suspend`, whose own
references have gone by then (1232, 1362, 1548), so until it has suspended for the first
time only a guard, or its parent, holds its stack.  If the timer of a `Timeout` fires, or
another task of a `WhenAny` completes, in that stretch on another thread, the stack is
destroyed under the running coroutine: finding 4.  Nothing keeps these steps out of the
model.  What the program does *after* that is undefined, so the model ends there: every
action has the guard `Defined`.

`WhenAll` holds its stacks itself, in the parent.  `held` says whether the thread that
runs the parent up to `await_suspend`, and then `First`, holds the parent's stack: it does
when it has resumed the parent by a Work or a notification, and it does not when a task
has continued the parent in place (1194, 1294, 1467), where the awaiter's reference goes
with `co.destroy()`.  `Destroy`, the destruction of the parent, waits for that thread only
if it holds it.

### JoinHandle

One spawned task and the coroutine that owns its handle.  `spawn()` runs the task at
once (`owner = "spawning"`) until it is suspended.  `refs` is who holds the stack, as
in `Combinators`.  The completion is three steps, as in `final_suspend`: `Complete` sets
`complete` under the stack's mutex (634-638), `Unguard` removes the guard (640), `End`
locks the continuation and resumes the owner (644-651); `Await`, `Abort` and `Drop` may
come between any two of them.  `Abort` is a step of the owner, of
the task itself or of another thread (`Aborters`).  `abort()`, `get_result()` and the
destructor share `stack_guard` without the mutex; the model assumes that users do not
call them at the same time.

### TaskFrames

`frames` is the stack of one logical task.  A frame has the executor that its coroutine
belongs to and the executors on which an object in it, a `WithExecutor` or the `Awaiter`
of a condition variable, holds a unit of external work.  A thread in `running` runs the
innermost frame; threads in `locked` hold a strong reference, `strong[e]` counts Works of
`schedule()`, which own the stack, `weak[e]` those of `Yield` and `Sleep`, which do not.

`Call` is `co_await` of a `Task`, `Hop` that of a `WithExecutor`; `Return` is
`put_result`, `pop` and the choice that `FinalAwaiter` makes between transferring to the
caller and `schedule()` on the caller's executor; `TakeResult` is `await_resume`, and
`EndAwait` the destructor of the object at the end of the expression.  `Spawn`
and `Wait` are the suspensions; note that `Yield` uses the *current* executor and `Sleep`
the one of the stack, as in the code.  When the last strong reference goes, by `Release`
or by `Cancel` of its owner, the frames are destroyed with the objects in them
(`Unwound`), on whatever thread it happens.

`await_resume` of `WithExecutor` is `noexcept` (1749) and calls `take_result()`, which
rethrows: an exception on the other executor terminates the program (`crashed`).
`ResultPassed` and `Returns` end there.

### ThisThreadExecutor

One thread, so a step of a coroutine is a step of the thread, and what interleaves
is the *others*: `schedule()` from a thread that notifies, or that comes back from a
callee (`RemotePush`), and the references such threads hold (`abroad`, `LetGo`).
`pc` is where the thread is in `block_on`, `run` the chain of coroutines that it has
resumed, `batch` is `tasks2`, `delayed` is `delayed_tasks` with the time left to each
deadline, `wake` the slumber.  Works are kept with what they hold: a weak
reference, a strong one, the timer of a `Timeout`, `cancel_and_continue`.  A stack is
alive while somebody holds it (`Owned`), or a stack that is alive keeps it in
`TaskStack::guard` (`kept`): `Alive` is the least set closed under the two.  `Destroy` is
what happens at once when a stack no longer is.

The stack of a spawned task is held by its `JoinHandle` at first (`handle`), in a coroutine
that cannot go on before the task has suspended or ended; `DropHandle` is `~JoinHandle`,
which gives the stack to the executor (708-712), also when the task has ended and nobody
will remove that guard any more.

Time passes only while the thread sleeps.  The elements of `delayed` with the same
deadline come in any order, as `std::priority_queue` leaves them.

## 3. The runs

| Run | States | Shows |
|---|---|---|
| `pool` | 19 924 | two threads, batches of 1, spurious wakeups, coroutines that yield, sleep, block and notify each other, one also notified from outside, fair: all properties of section 1 |
| `pool_lost_spawn` | violation | see finding 1 |
| `pool_early_return` | violation | see finding 2 |
| `channel_single` | 87 763 | one receiver, three senders, bounded by 2, fair: room and closure are announced, values are received, waiting ends at closure |
| `channel_shared` | 182 211 | a shared receiver and senders that are destroyed while they wait: the channel implements `ChannelSpec`, no value is left unannounced |
| `channel_lost_value` | violation | see finding 3 |
| `mutex_lock` | 1 199 | four tasks, fair: a lock, and a wanted free mutex is acquired |
| `combinators` | 235 140 | the three kinds with three children, fair: all properties of section 1 but `StackAlive` |
| `first_unheld` | violation | see finding 4 |
| `join_handle` | 906 | await, abort, drop and completion of a spawned task in every order, fair: all properties of section 1 |
| `task_frames` | 19 722 | two executors of two threads, three frames, a stack that may be dropped at any time, fair: all properties of section 1, and the stack implements `CallStack` |
| `this_thread` | 314 499 | a root and two coroutines that spawn each other and await each other under a `Timeout`, other threads that push, fair: all properties of section 1 |

The type invariants of `ThreadPool`, `Channel`, `AsyncMutex`, `JoinHandle` and
`TaskFrames`, and `WaitersEnqueued`, `CountsHandles`, `OneToken` and `JoinHandle`'s
`StackAlive` are not repeated in the configurations: they are parts of inductive
invariants that are proved for every value of the constants (section 4).

### Findings

1. *A spawn between the two critical sections is slept through.*  `block_on`
   releases the mutex at 992 and locks it again at 999; the decision to leave looks
   at the queue again, the decision to sleep does not.  Work that another thread
   puts there in between has notified nobody.  With notifications from the pool
   only, this is harmless: `WorkIsAttended` is checked and proved for that case.
2. *A root starts (958) before its thread counts as active (963).*  Another thread
   may drain meanwhile and take a result that is not there.  `DrainsToResult`
   states what does hold, and is proved.
3. *A dead waiter eats a notification* (443-446).  A `recv()` that was cancelled by
   a `Timeout`, and repeated, misses the next value.
4. *The first task is destroyed while it runs* (1232).  Its stack is held by the guard
   alone until it has been suspended once, and on a pool the timer of the `Timeout` (1225)
   runs on another thread.  The task of a `WhenAny` (1548) meets with the same when another
   one completes first (1481), and that of a `WhenAll` (1362) when its parent, which a task
   had continued in place, is destroyed.  Line 120 promises that "one thread at a time can
   operate on a task stack".  `OnlyFirstDies` states what does hold, and is proved.

Further violations are visible by changing a configuration, or by dropping the
exception that a property makes:

* `Closes` with a second receiver in `MCChannelSingle`: the last sender announces the
  closure with `notify_one` (`mpsc.h:33`), so one of the tasks that wait on the receiver
  hangs.
* `OwnerResumed` without its exception: the owner of a task that is aborted, and
  destroyed before it has completed, is never continued.
* `Termination` of `ThreadPool` with `Holders` not empty: the decrement of 1094 is made
  without the mutex, so its wakeup can fall between a thread's test and its `cv.wait`.
* `CleansUp` without its exception for a `WhenAny` whose parent is destroyed: its guard
  group stays until the executor ends; so does the stack of a spawned task whose handle is
  dropped after the task has completed, which `Destroyed` excepts (708).
* `CancellationWaits` in `MCCombinators`: a `WhenAny` continues its parent (1481) while
  its other tasks run or are queued, although `test/mutex.cpp:11-13` says that it is
  important to wait for them.  `Timeout` and `WhenAll` do wait for their own tasks
  (`WaitsForChildren`).
* `GoesOnOnce` with `Racing = TRUE` in `MCThisThread`: `schedule()` from another thread
  pushes into a deque that the executor's thread uses without a lock (890), and an
  element is lost.
* `ResultReady` with `Foreign = {root}`: a root that awaits the `JoinHandle` of a
  task on another executor counts no external work (611), so `block_on` finds nothing left
  and no result.
* `NoHarm` in `MCThisThread`: 247 says of `TaskStack::guard` that there is "no harm
  if it lives a bit longer".  It keeps the stack of a finished `Timeout` task, hence the
  timer is not pruned, and `block_on` of a root that awaited `Timeout{1h, ...}` returns only
  at the deadline.  `PrunesCanceled` says what does hold.

### Bounds, and why they are enough

* Two threads are needed for every race of the departure.  `MaxSuspend = 2` lets a
  coroutine move to another thread and wait there again; `Batch` is 32 in the code and 1
  here, so that two ready coroutines are more than a batch.  The theorems have no
  such bounds.
* Three senders and a limit of 2 fill the queue with one sender waiting; two values
  each make the queue wrap round; two receivers are the least that can be woken in
  the wrong order.  `MaxExpired` bounds the dead references a deque may contain
  (the code has no bound: `notify_one` alone removes them).
* Four tasks on a mutex: a holder, one that has been woken, one that waits, and one
  that barges in.
* Three children: the first, which is resumed in place, and two that are scheduled,
  so that two completions race with a third task running.
* Three frames: a callee that has a caller and a callee of its own, with two hops; two
  threads in each executor, so that the one that notifies is not the one that runs.
  `MaxSteps` allows a hop there and back with a suspension on both sides.
* `ThisThreadExecutor`: a chain of two `Timeout`s below the root is what
  `TaskStack::guard` needs to keep a stack through another; the durations lie
  before and after the end of a slumber.
* One spawned task: nothing in its handle depends on others.  Four suspensions let
  the owner, the aborter and the executor act between any two of its stretches.

`SYMMETRY` is used in a safety run only (`channel_shared`), over constants that occur
alike: the senders other than `First`, and the receivers.

Deadlock is checked for the mutex.  The other configurations say
`CHECK_DEADLOCK FALSE` because the systems do stop: `block_on` has returned or
every coroutine waits for a notification nobody sends, all senders have used up
`MaxSends`, the parent has gone.

### Fairness

Weak fairness only, and only for what the code or its host does by itself: the
operating system runs every thread that can run (`CoroutineStep`, `LoopStep`, `Goes`,
`Resumes`), time passes (`Tick`, `TimerFires`), a task that has been resumed goes on, a
notification that follows a push is made, a thread lets go of what it has resumed
(`Release`, `LetGo`).  No fairness is assumed of what a user
may choose not to do: sending, receiving, dropping a handle, locking, destroying a
parent, waking the task of a `Timeout`, awaiting or aborting a
spawned task.  The tasks of `WhenAll` and `WhenAny`, and spawned tasks, are
assumed to be woken when they wait: otherwise their parent waits for ever, as it
should.  What waits in `TaskFrames`, or is away in `ThisThreadExecutor`, is notified by
somebody.  A holder of the mutex unlocks it.

## 4. What is proved

| Module | Theorems |
|---|---|
| `ThreadPoolProofs` | `PoolInvariant`, `PoolTypeOK`, `PoolInv1`, `PoolNoOrphanedWork`, `PoolDrainsToResult`, `PoolWorkIsAttended`, `PoolDeadlineIsAttended` |
| `ContinuationsProofs` | lemmas on the deque: what `Enqueue`, popping and expiry do to who waits |
| `ChannelProofs` | `ChannelInvariant`, `ChannelTypeOK`, `ChannelWaitersEnqueued`, `ChannelCountsHandles`, `ChannelImplements`, `ChannelValuesAnnounced`, `ChannelRoomAnnounced`, `ChannelClosureAnnounced` |
| `AsyncMutexProofs` | `MutexInvariant`, `MutexTypeOK`, `MutexOneToken`, `MutexFreeIsAnnounced`, `MutexIsLock` |
| `JoinHandleProofs` | `JoinInvariant`, `JoinTypeOK`, `JoinStackAlive`, `JoinOwnerResumedOnce`, `JoinOutcomeReady`, `JoinAbortDecides` |
| `CombinatorsProofs` | `CombinatorsInvariant`, `CombinatorsTypeOK`, `CombinatorsOnlyFirstDies`, `CombinatorsResumedOnce`, `CombinatorsOutcomeReady`, `CombinatorsWaitsForChildren` |
| `TaskFramesProofs` | `FramesInvariant`, `FramesTypeOK`, `FramesOneResumer`, `FramesUnitsCounted`, `FramesNotAbandoned`, `FramesResultPassed`, `FramesImplements` |
| `ThisThreadExecutorProofs` | `ThisThreadInvariant`, `ThisThreadTypeOK`, `ThisThreadResultReady`, `ThisThreadGoesOnOnce`, `ThisThreadOnTime`, `ThisThreadPrunesCanceled` |

They hold for every value of the constants under the named assumption of each
module (the sets are finite, bounds are natural numbers, `Batch` and `Limit` are at
least 1).

**ThreadPool.**  The inductive invariant is `TypeOK /\ Counts /\ RunsWhereItMay /\
BlockedCounts /\ DoneStarted /\ Inv1 /\ NoOrphanedWork`.  `NoOrphanedWork` is not
inductive alone: the last thread may leave only because `external_work = 0`
(line 1000) means that nobody is blocked, which takes `Counts` (the counter is the
number of units held) and `BlockedCounts` (who is blocked holds a unit); and because
empty queues and an idle thread leave an unfinished coroutine nowhere else to be,
which is `NothingLost` with `RunsWhereItMay` (a thread runs coroutines only where
`block_on` does).  `PoolWorkIsAttended` and
`PoolDeadlineIsAttended` are inductive beside it, because who spawns is awake and who goes
to sleep has seen the deadlines; the former leaves out what other threads spawn
(`Outside`), and finding 1 is why.  `PoolDrainsToResult` follows from the invariant: with
`active_threads = 0` no thread is in the loop, so an unfinished root means one that has
started and is not counted.

**Channel.**  `TypeOK /\ WaitersEnqueued /\ CountsHandles /\ ReceiverInUse` is
inductive whoever is cancelled, and with it every step maps to a step of
`ChannelSpec` or to a stutter.  The announcements have invariants of their own:
the deque holds no expired reference, and while somebody waits there are as many
notifications under way and woken tasks as there are values in the queue (or free
places), which holds when no task on that side is cancelled: `Cancelable \cap Receivers = {}` for values,
`Cancelable \cap Senders = {}` for room.  Finding 3 is what happens otherwise.  The
closure is announced to a single receiver that is not cancelled: with no expired
reference in the deque, the one notification of the last sender finds it.

**AsyncMutex.**  `TypeOK /\ Exclusive /\ Enqueued /\ Announced`: one token, in the
queue or with the one task that holds the mutex; those who wait stand in the deque
once each; and a free token that somebody waits for is announced.

**JoinHandle.**  `TypeOK /\ RunnersHold /\ HandleHolds /\ CompleteMeans /\ Connected`
with the three safety properties.  `HandleHolds` (the handle holds the stack exactly
until `abort()`, `get_result()` or the destructor) ties the outcome to `abort()`;
`Connected` says that an owner which is the continuation of a task that has not ended
is suspended, which is what makes the resumption in `End` safe.

**Combinators.**  The theorems need no assumption but that of the module: they hold for
any number of children, whenever the timer fires, and whoever holds the parent.  The
invariant says

* who holds each stack that may run (`Kept`), with one exception: `First` in its first
  stretch may have lost its guard, or its WhenAll a parent that nobody held;
* that while the parent's thread is in `await_suspend`, `First` has not begun (`Entering`),
  and that no suspension has been used up before (`Stretch`), so that a `First` that has
  been queued or suspended is never again in its first stretch: this is why the exception
  stays where it is, and `OnlyFirstDies` is inductive;
* that tasks of no combinator have no stack (`Absent`);
* that a guard, a timer that has taken it, or a count below the number of tasks means a
  parent that waits (`OnePath`, `Counted`), and what the parent will find (`Results`).

**TaskFrames.**  The invariant adds to `OneResumer` who holds the stack (`StackHeld`:
what runs is locked), that the innermost frame runs on a thread of its executor (`AtHome`),
that a frame counts external work on its own executor only (`UnitsAtHome`), and that
whenever a frame of another executor is above it, it holds such a unit, or one above it
that is of its executor does (`HopsCounted`).  The last is what makes `NotAbandoned`
inductive: an executor with frames below the innermost one, which runs elsewhere, has
external work.  Every step maps to one of `CallStack` or to a stutter.

**ThisThreadExecutor.**  The invariant has these parts.

* `Loop` says what each place of `block_on` has in hand: outside the batch there is no
  batch, and between the batch and the decision (871-873) only others have pushed.
* `Held` says that whoever is held has been made and has not been destroyed.
* `Once` is `GoesOnOnce` made inductive.  `Ways` adds up the places from which a coroutine
  can go on; a live one has exactly one, one that has ended none, and the only exception is
  a push that met another thread in the queue (`Lost`), which takes `Racing`.  Each action
  has a lemma on what it does to each term of the sum.
* `Awaited`, `CancelsOnce` and `TimersSet` are the protocol of `Timeout`: who removes the
  guard decides (787-794), so the result and the cancellation exclude each other, and a
  guarded child has its timer, delayed or in the batch.
* `Counting` ties `external_work` to the coroutines that count in it.
* `Ready`, `InTime` and `Quiet` give the other three properties.  `Quiet` counts the time
  since the last coroutine ended: a whole slumber more is spent only if a delayed Work has a
  stack that is alive, because `Swap` has pruned what was canceled at the head (861-863).

A stack may be alive without being held, through a guard, but then it has ended: what
guards keep has (`Held`), so those who are held or have ended are a closed set, and `Alive`
is the *least* one.  Hence whoever is alive and has some way to go on is held and live,
which is the step from "this Work is not canceled" to "its coroutine may be resumed"; no
induction along the guards is needed.
`ThisThreadInvariant` needs no assumption but that of the module.
`ThisThreadResultReady` assumes that the root awaits no task of another executor, and
`ThisThreadGoesOnOnce` that pushes do not meet (`Racing = FALSE`); section 3 says what
happens otherwise.

Only model-checked: all liveness (`Termination`, `Delivers`, `Closes`,
`FreeIsAcquired`, `Continues`, `CleansUp`, `OwnerResumed`, `DetachedRuns`, `Destroyed`,
`Returns`), which is outside the prover's reach under fairness.  Every invariant of the
passing runs, and every refinement, is proved.

## 5. What is not modelled, and why

* The `-Dyn` combinators are not modelled apart; `WhenAllDyn` holds the same stacks
  as `WhenAll`, `WhenAnyDyn` keeps its local references a little longer.  With an empty
  vector they would use `stacks[0]` (1415).  A parent
  of `WhenAll` or `WhenAny` on another executor than its children is not modelled, nor is
  one that is destroyed inside its own `await_suspend`.
* Destruction of a task is modelled while it waits in a channel, not between its
  being woken and its next step; not at all for the mutex.  A `Mutex` that is moved
  while it is used, which invalidates its guards, is not modelled.
* `lock()` promises no order: a task that has not waited may take the token first,
  and no property says that each task gets it.
* That destructors of users' objects, called while the executor holds its mutex
  (`remove_guard_group`, 1074), may call the executor: what they call is theirs.
* Data races proper, where the outcome is not one of a few: `stack_guard` of a
  `JoinHandle` is assumed not to be used by two threads at a time.  The unlocked queue of
  `ThisThreadExecutor` is modelled by the loss of an element (`Racing`).
* The memory of frames and results (the inlined storage of 64 bytes, the order in which a
  frame is freed and the next one goes on).
* Qt: its event loop is not in this repository.  Logging, assertions, scope guards
  and benchmarks keep no state of their own.

## 6. What could come next

1. Guards in `ThreadPool`: `remove_guard` under the mutex of the executor, with
   destructors that spawn.
2. Composition: `Channel` under the `Timeout` of `Combinators`, where a woken
   receiver is destroyed with the value it has been promised.
3. The order of acquisition of a `Mutex`, if the library should promise one.
4. A parent of `WhenAll` on another executor, with `TaskFrames` for each child.

Runs that ask related questions of one module are kept together, so that the whole
list can be repeated in minutes.
