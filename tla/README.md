# CoPaT in TLA+

A verification project for CoPaT, a job system on C++20 coroutines
(`src/Source`). TLC checks the models on small instances; the theorems are
checked by TLAPS for every value of the constants.

## The system

| part | state | operations | interacts with |
|---|---|---|---|
| worker pool (`JobSystem.h/.cpp`, `WorkerThreadsPool`) | a queue per worker and priority, a `JobReceivedEvent` per worker, exit flag, exit latch | `enqueueJob`, `doWorkerJobs` (drain, steal, sleep), `tryShutdown` | every coroutine that enqueues itself or another; the queues; `shutdown` |
| selection of a worker | the shared counter `nextEnqToQ`, `blockedEnqCounter` per worker | selection loop of `enqueueJob`, `BlockWorkerEnq` | dispatch blocks the worker it runs on |
| queues (`FAAArrayQueue.hpp`) | linked array nodes, head, tail | `enqueue`, `dequeue`, MPMC and MPSC | hazard records, reuse ring shared by all queues |
| reclamation (`HazardPointers.hpp`) | hazard records per queue, one ring of retired nodes, lists per thread | `setHazardPtr`, `enqueueDelete`, `dequeueDelete`, `gcCollect` | the queues |
| task promise (`JobSystemCoroutine.h`) | continuation and one flag | `final_suspend`, `trySetContinuation`, destruction by the owner | awaiters on other threads |
| `awaitAllTasks` (`CoroutineAwaitAll.h`) | a counter, the parent's handle, a wrapper coroutine per awaitable | start all wrappers, `release`, resume, destroy | task promises |
| `waitOnAwaitable` (`CoroutineWait.h`) | a binary semaphore, a coroutine | start, release, acquire, destroy | whatever it awaits |
| dispatch (`DispatchHelpers.h/.cpp`) | locals | `dispatch`, `diverge`, `converge`, `parallelFor(Return)` | tasks, awaitAll, guard |
| main loop (`JobSystem.cpp`) | an MPSC queue per priority, `mainThreadTick`, a fence per queue and frame, `bExitMain` | `runMain`, `exitMain`, `waitForThreadSync(MainThread)`, `shutdown` | every thread that enqueues to it, waits for it or is waited for |
| special threads, supervisor | MPSC queues and an event per thread, `enqIndirection` | `doSpecialThreadJobs`, `doJobSysThreadJobs`, `waitForThreadSync`, `initialize` | everything |

What makes each part correct:

* pool: a job put in a queue is resumed, once, by one thread; higher priorities
  first; no wake-up is lost while a worker goes to sleep; shutdown ends.
* selection: a worker that can accept a job is found if there is one.
* queues: linearizable FIFO; an empty answer is true at some moment of the call.
* promise and `awaitAll`: the awaiter goes on exactly once, after all it awaits,
  and nothing is destroyed that a thread still uses.
* hazard pointers: a node that a thread protects is not destroyed; a retired node
  is reused or destroyed once, by one thread.
* `waitForThreadSync`: it returns, and when it does the jobs that were queued
  before it are behind it; its latch is not used after it returned.
* main loop: a frame runs what was enqueued before it, all of it and nothing else;
  `joinMain` and `shutdown` end.
* dispatch: every index is run once, and results come back in index order.

What is hard: threads that read a shared word and act on it later (the
redirection, an exit flag, a flag cleared after it was set twice), nodes and
coroutine frames that are destroyed or reused under a thread, counters that
several threads draw from. `PROJECT.json` lists these hazards line by line with
the properties that cover them, and says which are still open.

## Modules

| module | what it is | main runs |
|---|---|---|
| `WorkerPool` | the workers, `enqueueJob` and the end of the workers | `pool_*` |
| `JobLifecycle` | abstract: what is promised about one coroutine | refined in `pool_safety`, `pool_live`, `special` |
| `MCWorkerPriority` | the pool with one history variable, for the order of priorities | `pool_safety` |
| `WorkerPoolProofs` | theorems about these | TLAPS |
| `FAAArrayQueue` | a queue, one atomic access per step, with node reuse | `queue_*` |
| `QueueHistory` | history variables and the promises of a FIFO queue | `queue_*` |
| `FAAArrayQueueProofs` | theorems about these | TLAPS |
| `HazardPointers` | records, reuse ring, collection | `hazard` |
| `HazardPointersProofs` | theorems about it | TLAPS |
| `AwaitAll` | jobs, wrappers, counter, parent, blocking wait | `await_*` |
| `Join` | abstract: go on once, after all have finished | refined in `await_all` |
| `EnqueueTarget` | selection loop and guard | instantiated by `DispatchToWorkers` |
| `DispatchPartition` | how indices are grouped | extended by `DispatchToWorkers` |
| `DispatchToWorkers` | a whole call: guard, counts, groups, enqueues, other workers | `dispatch` |
| `DispatchToWorkersProofs` | theorems about these | TLAPS |
| `ThreadSync` | `waitForThreadSync` for the workers, extends `WorkerPool` | `sync` |
| `SpecialThreads` | special threads and the supervisor: loop, event, wait, shutdown | `special` |
| `MainLoop` | `runMain`, frames, `exitMain`, `shutdown` on the main thread | `main_loop` |
| `AwaitAllProofs`, `ThreadSyncProofs`, `SpecialThreadsProofs`, `MainLoopProofs` | theorems about these | TLAPS |

The `MC*` modules give the constants their values; `MCThreadSync`, `MCSpecialThreads`
and `MCWorkerPriority` add one history variable each.

### WorkerPool

A worker's program counter `pc` is its place in `doWorkerJobs`: `scan` (looking
at priority `prio` of the queues of worker `from`), `run` (inside `resume()`),
`test` (`bExitMain`), `wait` and `clear` (the two atomic operations of
`JobReceivedEvent::wait`), `exit`, `gone`. `loop` tells the loop over its own
queues from the loop over a victim's. A call of `enqueueJob` has two steps after
the redirection was read: `PushJob` and `NotifyTarget`; a coroutine that switches
thread is suspended first and so can be resumed by another worker before its
enqueuer has returned, which the model allows. A queue operation is atomic here,
and the selected worker is arbitrary; the queue and the selection have modules of
their own.

`NoLostWakeup` says that a queue its worker has passed is empty, or its flag is
set, or about to be set by an enqueuer. `ExitNotMissed` says the same about the
exit request and the notify loop of `tryShutdown`. `OneHolder` counts the places
that hold a coroutine handle. `JobLifecycle` is the abstract specification: idle,
queued, running, handed to the main thread.

### FAAArrayQueue and QueueHistory

Every `fetch_add`, CAS, exchange and load that another thread can observe is an
action. MPMC is the instance with two consumers and MPSC the one with one:
its dequeue makes the same accesses, and its plain increments have no rival.
`ReuseHeldNodes = TRUE` is the code: `enqueueDelete` pushes a retired node to the
ring and `dequeueDelete` pops it, whoever still holds it. `FALSE` is the assumption
the algorithm needs. The order of overlapping enqueues is settled only by later
dequeues, so instead of a refinement mapping the module states what a
linearizable queue implies: `ReturnedOnce`, `FirstInFirstOut`, `EmptyIsHonest`.
Constructing a node and publishing a hazard pointer are one step; the ring is an
atomic FIFO.

### AwaitAll

One job and one wrapper per awaitable, a starter and a parent. A wrapper runs on
the starter until it suspends and later on the thread of its job, and the thread
in it may go on into the parent. `blocking`, chosen in `Init`, tells `waitOnAwaitable` (the starter
acquires the semaphore and destroys) from a coroutine parent (which destroys when
it goes on). `JobsMoved` says whether the jobs die with the wrappers. A step of a
job's thread on a destroyed promise is undefined in C++; the runs that check more
than `JobsOutliveTheirThreads` exclude it by `JobsMoved = FALSE`.

### HazardPointers

`FAAArrayQueue` takes protection for granted; this module is what provides it. A
thread of one queue protects the node behind `head` or `tail`, uses it, appends a
node or unlinks one and retires it. Each atomic access is an action: the two stores
of `setHazardPtr`, the load and the CAS of `getHazardPtr`, the test, CAS, slot and
count of a push or pop on `RingBufferLockFree`, and in `gcCollect` each access to
each record. A collector that finds a record between its owner's two stores
completes the second on the owner's behalf (`HelpPtr` to `HelpReload`), while the
owner may go on, reset the record, free it or protect something else. A thread in
`Tokenless` acquires a record for each operation and frees it; the others keep
theirs. `heap` is the set of addresses that are not allocated, so that an address
may come back (ABA).

`HeldNotDestroyed` is the promise of hazard pointers; `OneOwner` is the one about
the ring and the deletion lists, under overlapping pushes and pops. `OneOwner` holds
of the code as it is. `HeldNotDestroyed` holds under three conditions, and TLC shows
that each is needed:

* one thread collects. With two, a helper that stopped between its load of `head`
  and its CAS (`HazardPointers.hpp:88`) later puts a node that the other collector
  destroyed into the record, which its owner then uses.
* a node that a record names, or that a thread has loaded to store it there
  (`Protected`), is not constructed anew (`ReuseHeldNodes = FALSE`). With `TRUE`, as
  the code is, one collector is enough: the CAS of the owner succeeds on a node that
  was reused, unlinked and destroyed meanwhile. `queue_reuse` shows the same gap from
  the queue's side.
* head does not overtake tail. An enqueuer that has linked a node moves `tail` in a
  step of its own, and `dequeue` unlinks and retires a node as soon as it has a
  successor, also the one `tail` points to: the test at `FAAArrayQueue.hpp:322` is about
  `next`, not about `tail`, although the comment above it says `Do not want to delete
  head node if it is same as tail`. While the enqueuer has not moved `tail`, the node
  is in its record and so not destroyed, but others can still load it from `tail`. It
  takes three threads and 80 steps: the retired node is pushed out of the ring into the
  deletion list of a collector, which looks at the record of a second enqueuer; that
  one loads `tail`; the first one moves `tail` and clears its record before the
  collector comes to it; the collector destroys the node, and the second enqueuer
  stores it and draws from its `enqidx` (`:259`) before it compares it with `tail`.
  With two threads there is nobody to be the third.

Two things go wrong that no property states, because the code promises nothing
else. A late CAS of a helper can turn a freed record into one that nobody owns, so
that it is lost. And between the stages of overlapping pushes and pops the count and
the slots disagree, so that the assertion at `HazardPointers.hpp:363` can fail, or a
node stay unreachable in a slot that is overwritten.

### EnqueueTarget, DispatchPartition, DispatchToWorkers

`EnqueueTarget` has one action per draw of the counter and per test of a worker.
A guard is declared or, as `dispatch` does, assigned from a temporary, whose
destruction is a step of its own. `DispatchPartition` has one action per group,
and leaves open what the two counts of workers return. `DispatchToWorkers` composes
them: `parallelForReturn` counts, `dispatch` makes its guard, counts again, and
enqueues each group as it is made, to the worker the selection loop reaches, while the
other workers make and drop guards of their own. The caller is any worker or a thread
that is none, and a safe dispatch the caller made before may have left its counter at
-1. A variable `undisturbed` records whether anything interfered with the call.

What this composition shows, beside its properties:

* the guard unblocks at once and again at its end (`DispatchHelpers.h:216`), against
  the assertion at `JobSystem.h:255` and the comment at `:618`. A worker with a negative
  count is passed over for good by the selection, and yet counted as available; the
  caller, which was to be blocked, gets a group of its own call.
* `DivisorPositive` holds for a worker because it counts itself, again thanks to
  that guard; a thread that is no worker can find all workers blocked and divide by
  zero (`DispatchHelpers.cpp:124`), as can a worker that declared a guard of its own.
* `PrefersAvailable` needs one enqueuer at a time. With `Enqueuers = {e1, e2}` TLC finds
  it violated in `EnqueueTarget`, because one may step past the free worker every time
  (`JobSystem.cpp:1066`). It needs besides that the number of values of the counter
  leaves a remainder of 0 or 1 by the number of workers (`AssertionHolds` below), as 2^32
  and 2^64 do for up to five workers. They do not for six or seven, and TLC finds the
  violation with `Enqueuers = {e}`, six workers and `Wrap = 10`, which leaves 4 as 2^32
  does: around the wrap the draws skip workers, and the free one can be among them (`:1064`).
* `dispatch` never dispatches: its condition `jobSys != nullptr ||`
  (`DispatchHelpers.cpp:51`) holds for every job system, against the comment at `:48`
  (`DispatchSerially`).

### ThreadSync

`waitForThreadSync` for the workers on top of `WorkerPool`: a caller gives one
coroutine to each (other) worker, notifies all, and blocks on a latch on its stack.
Pushing to one worker and notifying one worker are actions, so that the first
coroutines run, and are stolen, while the last are not yet queued.
`LatchCountsOutstanding` relates the latch to the coroutines that will still count it
down. `EarlierJobsTaken` states what the call is for: the jobs queued earlier, at the
priority of the call's coroutines, have been taken when it returns. It says no more
because no more is true: a job of higher priority queued before may still be in a
queue that a stealing worker has passed, and with stealing one worker may run all the
coroutines, so that not every worker was reached (`ReadMe.md:411-424`); with
`NoJobStealing` each runs its own. Two workers of two that wait at once wait for each
other, of which `JobSystem.h:209-211` warns; the run has one worker and one other thread.

### SpecialThreads

The loop of `doSpecialThreadJobs`, which `doJobSysThreadJobs` of the supervisor
repeats for a single thread (`Count = 1`), and `waitForThreadSync` for these threads.
`buffering`, chosen in `Init`, says whether the processor delays the relaxed store by
which `JobReceivedEvent` clears its flag; the store leaves the buffer at the next
locked instruction of the thread at the latest. An empty `FAAArrayMPSCQueue` is found
empty by loads only, so that the thread may look at its queues, find nothing, and only
then does the clear overwrite the flag an enqueuer has set meanwhile. `NoLostWakeup`,
`EnqueuedRuns` and `SyncReturns` therefore exclude `buffering`: without this condition
TLC finds `NoLostWakeup` violated within a few steps. The workers are safe: their dequeue
publishes a hazard pointer by a locked instruction. `ShutdownEnds` holds either way,
because `tryShutdown` notifies again and again, with the one exception its comment
names.

### MainLoop

The main thread's `pc` is its place in `runMain` (`begin` of a frame, `fence`,
`tick`, `scan`, `run`, `test` of `bExitMain`) or in `shutdown` (`joined`,
`tryShutdown`, `down`). `frameEnded` and the scan over priorities are the
code's; each look at a queue is an action, as is each fence. The other threads
are seen from here: they enqueue jobs, wait in `waitForThreadSync`, and end once
`bExitMain[1]` is set. `due` is history: what was in a queue when its fence was put
in. `NextFrame` and `FrameEndsClean` say that a frame runs exactly that. `Init` and
`mainThreadTick` cover a program with and without a tick, and one that never
calls `joinMain`.

## Runs, bounds, fairness

| run | instance | shows |
|---|---|---|
| `pool_safety` | 2 workers, 1 caller, 2 jobs of different priority, 3 calls of `enqueueJob` | type, no lost wake-up or exit request, one holder, order of priorities, refinement of `JobLifecycle` |
| `pool_live` | the same with 2 calls | every queued job runs unless shutdown began; shutdown ends |
| `pool_shutdown` | 1 worker, 1 job | violation: an enqueue in progress when the workers are gone |
| `queue_mpmc` | 2 producers, 2 consumers, 2 items, nodes of 1 slot, 3 nodes | linearizability conditions |
| `queue_reuse` | 2 producers, 1 consumer, reuse at once | violation: an item is overlooked |
| `await_all` | 4 jobs, a coroutine or a blocked thread that awaits them | handshake, lifetimes, refinement of `Join`, completion |
| `await_moved` | 2 jobs that die with their wrappers | violation: a job destroyed under its thread |
| `hazard` | 2 threads, with and without a token, one collects; 3 nodes, a ring of 1 slot | nodes in use are not destroyed; one owner |
| `dispatch` | 3 workers, counts to 5, any caller, a counter with 7 values, counters down to -2 | partition, selection, divisor, spread over the workers |
| `sync` | 2 workers that steal; a worker and another thread wait; 1 job | latch, earlier jobs, both calls return |
| `special` | 2 special threads, one waits for the other, another thread waits for it; 1 job, 2 calls | wake-up, refinement of `JobLifecycle`, earlier jobs, waits and shutdown end |
| `main_loop` | 3 jobs, one critical; 2 other threads; 2 priorities; 3 coroutines enqueued after shutdown began | frames, no starvation within a frame, `joinMain` and `shutdown` end |

The pool bound counts calls of `enqueueJob` (`MaxEnqueues`): a lost wake-up takes
one job and one sleeping worker, a double resume two workers and one job, and a
flag set twice and cleared once two calls; three calls allow a self-enqueue on
top. Nodes of one slot make every second enqueue cross to a
new node. In `hazard` a ring of one slot is full after one retirement, so that the
next one pushes a node out to be destroyed, and three nodes are the one in the list,
the one appended and the one in the ring or a deletion list. In `dispatch` a counter
with 7 values has the remainder of 2^32 and 2^64 by 3, so that around its wrap worker 0
is drawn twice; counts to 5 reach no and one full index per group of up to three groups
with every remainder. `MaxDrift` bounds how often a worker is unblocked too often;
another worker that was makes no further guard. In `sync` and `special` each waiter
calls once, and the job of `special` is enqueued to the thread its promise names, from
where it may move to any.

`CHECK_DEADLOCK FALSE` stands where a call or a wait ends for good, in the queue runs,
where enqueuers stop when the bound on nodes is reached, and in `hazard`, where
addresses run out.

In `main_loop` one job of each priority can requeue itself for ever while another of
the low priority waits. `MaxLate` bounds what is enqueued once `shutdown` began:
without a tick there is no fence, so `runMain` returns only if coroutines stop
enqueueing themselves, and then `shutdown` waits for the pools. The bound is thus
an assumption of `ShutdownEnds`, and one the code makes. For the same reason
`MainJobsRun` and `ExitMainReturns` speak of a main loop with a tick.

Fairness is weak and per thread: in the pool each worker's next step, the
continuation of an `enqueueJob` that began, and the main thread once it is in
`shutdown`; coroutines run for a finite time. Nobody has to enqueue, and
`shutdown` need not be called. This is what a preemptive scheduler gives. In
`ThreadSync` and `SpecialThreads` a thread that began a call goes on with it, and a
store buffer drains by itself, as every processor's does. In `AwaitAll` also each job
is eventually run, which is what `pool_live` shows. In `MainLoop` it is the main thread, and each thread of the pools from the exit request
on, which ends as `pool_live` shows for workers; nobody has to call `exitMain` or
`shutdown`.
The queue has safety properties only: its slots can be burned for ever, so that
an enqueue terminates only under assumptions the code does not make.

## What is proved

All theorems hold for every value of the constants that the named assumption of the
model allows: any number of workers, special threads, callers, jobs, priorities,
indices and calls. These assumptions are typings (a number of workers is positive, jobs
are not integers and differ from the marker for none). Hypotheses of their own have
`AssertionHolds`, the theorems about the queue but its `TypeCorrect`, which assume
`~ReuseHeldNodes`, and those about `HeldNotDestroyed`. Each proof has an inductive invariant with one step per
action, and TLC checked the invariant on the run's instance before it was proved.

| theorem | what it says | inductive invariant |
|---|---|---|
| `WorkerPoolProofs!TypeCorrect` | `Spec => []TypeOK` | `TypeOK` |
| `WakeupNeverLost`, `ExitNeverMissed` | `[]NoLostWakeup`, `[]ExitNotMissed` | `WakeupInv` |
| `HeldOnce`, `PoolImplementsLifecycle` | `[]OneHolder`, `ImplementsLifecycle` | `PlaceInv` |
| `WorkerPoolProofs!PrioritiesObserved` | `[]PriorityOrder` | `PriorityInv` |
| `SpecialThreadsProofs!TypeCorrect`, `WakeupNeverLost` | `[]TypeOK`, `[]NoLostWakeup` | `TypeInv`, `WakeupInv` |
| `JobInOnePlace`, `SpecialsImplementLifecycle` | `[]JobsHeldOnce`, `ImplementsLifecycle` | `PlaceInv` |
| `EarlierJobsBehind` | `[]EarlierJobsRan` | `EarlierInv` |
| `ThreadSyncProofs!LatchCountsRight`, `LatchOutlivesCoroutines` | `[]LatchCountsOutstanding`, no coroutine of a call outlives it | `SyncInv` |
| `ThreadSyncProofs!EarlierJobsGone` | `[]EarlierJobsTaken` | `EarlierInv` |
| `AwaitAllProofs!TypeCorrect`, `HandshakeIsComplete`, `NothingUsedAfterDestroyed` | `[]TypeOK`, `[]HandshakeComplete`, `[]FramesOutliveUse` | `AwaitInv` |
| `AwaitAllProofs!ImplementsJoin` | `Spec => J!Spec`: `Join` without its fairness | `AwaitInv` |
| `MainLoopProofs!TypeCorrect`, `ResumedInNextFrame`, `FramesEndClean`, `CoroutineInOnePlace` | `[]TypeOK`, `[]NextFrame`, `[]FrameEndsClean`, one place per coroutine | `MainInv` |
| `DispatchToWorkersProofs!TypeCorrect`, `IndicesCovered`, `GroupsEven` | `[]TypeOK`, `[]CoversInOrder`, `[]SpreadsEvenly` | `PartitionInv`, `EvenInv` |
| `CallIsPartition`, `CallCovers`, `CallSpreadsEvenly` | `CallSpec` implements the partition, so that the two hold of a call | the same |
| `DivisorIsPositive`, `GroupsKeptApart`, `AssertionHolds` | `[]DivisorPositive`, `[]GroupsApart`, `[]PrefersAvailable` | `CallerInv`, `ApartInv`, `PreferInv` |
| `FAAArrayQueueProofs!TypeCorrect` | `Spec => []TypeOK` | `TypeInv` |
| `InvariantCorrect`, `HandedOutOnce`, `InOrderOfEnqueues`, `EmptyCorrect` | `ReturnedOnce`, `FirstInFirstOut`, `EmptyIsHonest` of `HistorySpec` when held nodes are not reused | `QueueInvariant` |
| `HazardPointersProofs!TypeCorrect`, `RecordsOwned` | `[]TypeOK`; a record has one owner, and a node in use is in its user's record | `RecInv` |
| `NodeHasOneOwner` | `[]OneOwner` | `PlacesInv` |
| `HeldWhileTailLinked` | `[]HeldNotDestroyed` for any number of threads, while tail is in the list | `HeldInv` |
| `HeldByTwoThreads` | `[]HeldNotDestroyed` for two threads | the same |

Why the invariants are what they are:

**Worker pool.** `NoLostWakeup` alone is not inductive: a worker that is draining must be
known to drain its own queues (`DrainsOwnQueues`: `from[w] = w`), or finding a victim's
queue empty would count as having looked at its own; and the notify loop of
`tryShutdown` must be known to begin at worker 0 (`NotifiesFromFirst`), or an exit
request could be set with part of the workers already skipped. `PlaceInv` says of each
coroutine that it has one place at most and that `idle` means none: a position of a
queue, a worker that runs it, an enqueuer that carries it, the main thread. `OneHolder`
counts these places, which is a statement about cardinalities; the invariant says the
same by pairs of places being equal, so that the steps need no counting. The life cycle is
then read off the place a coroutine has before and after each step.
`PriorityInv` adds to the pool's type what `late` means (`PassedAreLate`): everything in
a queue that a worker has passed arrived after it began to look. The property speaks
of the moment when a job is found; the invariant, of the whole scan.

**Special threads.** The wake-up invariant follows the pool's, with two additions. The
flag is cleared in two steps when the store is buffered, and a thread that pushes
carries a coroutine (`PushCarries`). For `EarlierJobsRan` each waiter's coroutine is
followed: it is in one place (`WaiterPlaces`), queued at most once (`WaitersQueuedOnce`),
in the queue of its own priority (`QueuesByPriority`), and each job that was there before
is gone or ahead of it (`EarlierBehind`).

**ThreadSync.** `SyncInv` rests on the pool's `PlaceInv`, which holds of a call's
coroutines as of any other. What is particular is that a coroutine of a call is only
ever in the queue it was pushed to (`SyncPlaces`): nobody else enqueues it, and a
steal takes it out to be run. Hence the latch counts exactly the coroutines underway or
still to be pushed (`LatchIsCounted`), and it is zero when the call returns
(`ReturnsAtZero`), although the worker that counts it down, and the order, are arbitrary.
`EarlierAhead` says that each earlier job still queued is ahead of the call's coroutine in
the same queue; that suffices with stealing because thieves dequeue at the same end.

**AwaitAll.** The counter is the number of wrappers that have not released it
(`CountsUnreleased`), so that the one that takes it to zero finds all others past their
release (`LastResumes`), and the parent runs only inside that wrapper
(`ParentRunsInWrapper`). A wrapper is past its `co_await` only when its job has finished
(`PastAwaitIsDone`); that rests on the two `test_and_set`s of `Handshake`. Why destruction
never meets the starter is `StarterInLoop`: the starter's loop is at the wrapper it runs
in, all later wrappers are not started, so that the counter cannot reach zero before the
last is.

**MainLoop.** A fence is ahead of its queue's later coroutines (`Ahead`) or was reached
(`Reached`), and which of them depends on where the frame is (`FencesStand`). That the
scan returns to the highest priority after each job does no harm because a queue whose fence
was reached is not looked at again in the frame (`frameEnded`). A coroutine is in one place
(`QueuedOnce`, `ResumedInRun`), without which one enqueued for the next frame could be one
that was due; and fences are inserted only while the tick is there (`TickUntilShutdown`).

**Dispatch.** The difficulty is arithmetic. That `i` groups of equal size, and the
remainder spread over the first ones, never run past the count is `PartitionInv`
(`GroupsSoFar`, `TasksSoFar`), with lemmas on products and division (`DivMod`,
`TimesMonotone`, `TimesSuccessor`); `AppendFollows` says what appending a group does to the
order. `DivisorPositive` holds because only the temporary of dispatch ever blocks the
caller's own worker and it is gone when workers are counted (`CallerCounted`).
For `GroupsApart`, `ApartInv` counts the draws since the workers were counted: each
worker is drawn once per round, blocked ones are passed over, and there are as many groups
as workers that accept one (`RemaindersDiffer`, `DrawnMore`, `AllDrawn`). `AssertionHolds`
assumes `Wrap % WorkersCount \in {0, 1}`, which is what makes every run of
`WorkersCount + 1` draws reach every worker even across the wrap (`AllCome`). The
assumption is not one the code establishes: see `EnqueueTarget` above for six workers.

**Queue.** The three promises are action properties over the history of all calls, and
all three follow from `QueueInvariant`: some ranking `r` of the nodes has `QueueInv(r)`,
and `EmptySeen`. The ranking stands for the induction along the list that the provers
cannot do: it gives each visible node its place in the order of linking, only a
successful CAS on `next` changes it (the new node is ranked one above `tail`), and
everything that would be said of paths is said of ranks. `QueueInv` has five parts:

* `TypeInv`: types, and that a thread working on a node has one.
* `ListInv`: a node is unused, or built by one producer, or visible, and the visible ones
  are retired or from `head` on (`NodesApart`); `head`, `tail` and whatever a thread holds
  are visible (`HeldVisible`); `next` goes up by one from `head` on, what is retired ranks
  below `head`, and at most one node is linked beyond `tail` (`InOrder`), by a producer
  that has yet to swing it (`HeldInOrder`).
* `SlotsClaimed`: items are only below `enqidx`; a slot below `deqidx` is taken, or its one
  claimer is about to take it; a retired node is drained.
* `ItemsApart`: an item is fresh, carried by one producer, in one slot of one visible
  node, or handed out. The producer that linked a node is apart (`Linking`): its item is in
  the node before its call ends, and may be handed out already.
* `FifoOrder(r)`: what was enqueued before `x` began is in a lower node or a lower slot
  than `x`, or not above the node in which the producer of `x` still looks for a slot.

`EmptySeen` keeps what a consumer learnt: who finds a drained node without a successor
saw the queue empty, at the comparison with `enqidx` or at its `fetch_add`; a node linked
later does no harm, since the consumer then reads a successor. The assumption is used at
one place, `AcquireList`: a node taken from the ring is in nobody's hands. It is what
`queue_mpmc` assumes, and the code does not establish it (`queue_reuse`): the theorems say
that this is all the model needs. They hold within its abstractions: publishing a hazard
pointer takes effect at once, the ring is an atomic FIFO, memory is sequentially
consistent and the indices of a node do not wrap.

**Hazard pointers.** `RecInv` follows each thread: what its record holds at each step
(`RecordOK`), which nodes it has (`NodesOK`), and that a record that is acquired was
free (`RecordOwned`). It assumes nothing about the other threads but what a step of
theirs may do to somebody else's record, which is little (`OtherRecord`): complete
`setHazardPtr` there.

`OneOwner` counts places; the invariant names them. `PlaceInv(own)` says that the
function `own` agrees with every place that holds a node: the list, a slot of the ring,
a deletion list, a thread that took it or is retiring it, the allocator. That there
always is such a function (`PlacesKept`) is proved by giving the next one for each step
that moves a node. The list needs `Chained` (nodes follow one another, none follows
two), also for a node about to be linked, and nothing about `tail`, which is why the
theorem needs no condition on reuse, collectors or overlapping calls. The index and the
count of the ring do not enter either: a slot is stored to and exchanged as a whole, so
that overlapping pushes and pops can lose a node but never give it to two.

`HeldNotDestroyed` rests on both and on two more parts. `TailInv` says how far `tail` lags:
it is the last node, or the one before, which is then in the record of the enqueuer that
has yet to move it; that fails when a protected node is constructed anew, because
its `next` is cleared. `NodesHeld` follows a node into a record. What a collector has
passed over does not name a node it will destroy (`ScannedUnnamed`). A node that is
loaded and not stored yet may be in a deletion list, so `LoadedUnscanned` says that the
collector has not come to the record it goes to, or is about to complete `setHazardPtr`
there, when only one of the two CASes succeeds. `NamedAtStore` is why the order of the
two stores matters: a record that names a node has its source set, or is being cleared,
so that a collector that found no pointer, and then no source, passes over nothing. The
three conditions come in one at a time: `CollectorAlone` (a helper's CAS is not that of
another collector), `TailInv` (reuse), and `MoverLoads`, where a thread loads `head` or
`tail`: it is in the list, or else three threads are involved. `TailLinked` is a
condition on the behaviour, one that holds of every behaviour in which `casTail` follows
`casNext` before the next node is unlinked. `HeldByTwoThreads` has no such condition and
covers the instance of the run `hazard`, whatever its bounds.

## Only model-checked

* Liveness, and refinement under fairness (`ShutdownEnds`, `SyncReturns`,
  `EnqueuedRuns`, `AwaitCompletes`, `MainJobsRun`, `ExitMainReturns`,
  `ImplementsFairLifecycle`, `ImplementsFairJoin`): TLAPS has no rule for fairness here.

Every safety invariant that a passing run checks is proved. Of `HeldNotDestroyed` that is
so under the conditions above; beyond them, with a second collector, with reuse of
protected nodes, or with three threads of which one is overtaken at `casTail`, it is false.

## Findings

Three violation runs, each against a comment or an assertion of the code:
the enqueue after the workers' exit (`JobSystem.cpp:1058`), reuse of held nodes
(`HazardPointers.hpp:352`), and a job destroyed between `done()` and its flag
(`JobSystemCoroutine.h:503`). `queue_reuse` needs a second producer: with one, TLC finds
nothing wrong with reuse at once. The sections on the modules name other
disagreements that have no run of their own.

## Not modelled, and the plan

All models but `SpecialThreads` are sequentially consistent; that `setHazardPtr` needs
a fence of the processor, not only of the compiler (`HazardPointers.hpp:64`), is a
hazard no run covers.

* `JobSystemPromiseBaseMC`: no coroutine can be compiled with it, because its
  `FinalSuspendAwaiter::await_suspend` (`JobSystemCoroutine.h:168`) takes a handle of
  the base promise, to which a handle of the derived promise does not convert.
* `JobSystemShareableTaskType`: no alias, test or other code names it; beside
  `JobSystemTaskType` it only counts references by `std::shared_ptr`.
* `initialize`: runs before any other thread, and gives each model its initial state.
* `SpinLock`, the dumps (`COPAT_DEBUG_JOBS`), platform calls, allocation, type traits:
  no state of their own, debugging aids, input and output, or compile time.
* Several queues that share one reuse ring: `HazardPointers` has one queue.
* What `shutdown` leaves behind: jobs enqueued to a worker after its last look or to
  the main thread after its last frame, and waiters whose coroutines are among them.
  The code promises nothing about these.

What is left to prove is what TLAPS cannot do, the liveness properties. What is left to
model is a weaker memory than sequential consistency in the other modules, several
queues around one ring, and indices of a node that wrap.
