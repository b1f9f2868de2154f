----------------------------- MODULE ThreadSync -----------------------------
(***************************************************************************)
(* JobSystem::waitForThreadSync for the worker threads, on top of the      *)
(* worker pool: a thread gives one coroutine to each worker (to each other *)
(* worker, if it is a worker itself), notifies all of them and blocks on a *)
(* latch that each of these coroutines counts down once.  The latch is on  *)
(* the stack of the waiting thread.                                        *)
(*                                                                         *)
(* Ordinary jobs, stealing and shutdown are those of WorkerPool.  A call   *)
(* that finds the workers redirected to the main thread waits for that one *)
(* instead; MainLoop models it.                                            *)
(***************************************************************************)
EXTENDS WorkerPool

CONSTANT Waiters    \* bound: the threads that call waitForThreadSync, once each

SyncJobs == Waiters \X Workers  \* the DummyCoroutine a call gives to each worker

PriorityLow == MaxPriority - 1

ASSUME SyncAssumption ==
    /\ Waiters \subseteq Threads
    /\ SyncJobs \subseteq Jobs
    /\ \A s \in SyncJobs : PriorityOf[s] = PriorityLow

VARIABLES
    sync,           \* where each waiter is in its call
    at,             \* threadIdx, the worker its loop is at
    allWorkerSync   \* the latch of its call

syncVars == <<sync, at, allWorkerSync>>

SyncTypeOK ==
    /\ sync \in [Waiters -> {"none", "push", "notify", "wait", "done"}]
    /\ at \in [Waiters -> Workers]
    /\ allWorkerSync \in [Waiters -> 0 .. WorkersCount]

SyncInit ==
    /\ Init
    /\ sync = [t \in Waiters |-> "none"]
    /\ at = [t \in Waiters |-> 0]
    /\ allWorkerSync = [t \in Waiters |-> 0]

\* All workers but skipThreadIdx.
Synced(t) == Workers \ {t}

InSync(t) == t \in Waiters /\ sync[t] \in {"push", "notify", "wait"}

-----------------------------------------------------------------------------
(* The waiting thread.                                                      *)

\* Mutant of CallSync: the caller is always taken for a worker.
CallSyncShort(t) ==
    /\ CanCall(t) /\ sync[t] = "none"
    /\ t \in Workers => cur[t] \notin SyncJobs
    /\ ~redirected
    /\ sync' = [sync EXCEPT ![t] = "push"]
    /\ allWorkerSync' = [allWorkerSync EXCEPT ![t] = WorkersCount - 1]
    /\ UNCHANGED <<vars, at>>

CallSync(t) ==
    /\ CanCall(t) /\ sync[t] = "none"
    /\ t \in Workers => cur[t] \notin SyncJobs
    /\ ~redirected
    /\ sync' = [sync EXCEPT ![t] = "push"]
    /\ allWorkerSync' = [allWorkerSync EXCEPT ![t] = Cardinality(Synced(t))]
    /\ UNCHANGED <<vars, at>>

\* The loop is done with this worker; after the last one comes the next loop.
NextThread(t, after) ==
    IF at[t] + 1 \in Workers
    THEN at' = [at EXCEPT ![t] = @ + 1] /\ UNCHANGED sync
    ELSE at' = [at EXCEPT ![t] = 0] /\ sync' = [sync EXCEPT ![t] = after]

\* Mutant of PushSync: skipThreadIdx is not skipped.
PushSyncToAll(t) ==
    /\ sync[t] = "push"
    /\ jobQ' = [jobQ EXCEPT ![at[t]][PriorityLow] = Append(@, <<t, at[t]>>)]
    /\ idle' = idle \ {<<t, at[t]>>}
    /\ NextThread(t, "notify")
    /\ UNCHANGED <<flag, workerVars, call, enqueues, toMain, latch, mainVars, allWorkerSync>>

PushSync(t) ==
    /\ sync[t] = "push"
    /\ IF at[t] \in Synced(t)
       THEN /\ jobQ' = [jobQ EXCEPT ![at[t]][PriorityLow] = Append(@, <<t, at[t]>>)]
            /\ idle' = idle \ {<<t, at[t]>>}
       ELSE UNCHANGED <<jobQ, idle>>
    /\ NextThread(t, "notify")
    /\ UNCHANGED <<flag, workerVars, call, enqueues, toMain, latch, mainVars, allWorkerSync>>

\* Mutant of NotifySync: the first notification is taken to be enough.
NotifySyncOnce(t) ==
    /\ sync[t] = "notify"
    /\ flag' = [flag EXCEPT ![at[t]] = TRUE]
    /\ sync' = [sync EXCEPT ![t] = "wait"]
    /\ UNCHANGED <<jobQ, workerVars, call, idle, enqueues, toMain, latch, mainVars, at, allWorkerSync>>

NotifySync(t) ==
    /\ sync[t] = "notify"
    /\ flag' = [flag EXCEPT ![at[t]] = TRUE]
    /\ NextThread(t, "wait")
    /\ UNCHANGED <<jobQ, workerVars, call, idle, enqueues, toMain, latch, mainVars, allWorkerSync>>

EndSync(t) ==
    /\ sync[t] = "wait" /\ allWorkerSync[t] = 0
    /\ sync' = [sync EXCEPT ![t] = "done"]
    /\ UNCHANGED <<vars, at, allWorkerSync>>

-----------------------------------------------------------------------------
(* The workers.                                                             *)

\* The coroutine counts the latch down and is destroyed at its end.
CountDown(w) ==
    /\ cur[w] \in SyncJobs
    /\ SuspendJob(w)
    /\ allWorkerSync' = [allWorkerSync EXCEPT ![cur[w][1]] = @ - 1]
    /\ UNCHANGED <<sync, at>>

\* A worker that blocks in waitForThreadSync does nothing else.
PoolWorker(w) ==
    /\ ~InSync(w) /\ cur[w] \notin SyncJobs
    /\ WorkerStep(w)
    /\ UNCHANGED syncVars

\* The worker resumes the coroutine of a call.
SyncWorker(w) == CountDown(w)

PoolCall(t, j) ==
    /\ ~InSync(t) /\ (t \in Workers => cur[t] \notin SyncJobs)
    /\ j \notin SyncJobs
    /\ EnqueueJob(t, j)
    /\ UNCHANGED syncVars

WaiterStep(t) == PushSync(t) \/ NotifySync(t) \/ EndSync(t)

SyncNext ==
    \/ \E t \in Threads, j \in Jobs : PoolCall(t, j)
    \/ \E t \in Threads : CallStep(t) /\ UNCHANGED syncVars
    \/ \E w \in Workers : PoolWorker(w) \/ SyncWorker(w)
    \/ \E t \in Waiters : CallSync(t) \/ WaiterStep(t)
    \/ (RedirectToMain \/ ShutdownStep \/ Stopped) /\ UNCHANGED syncVars

syncAllVars == <<vars, syncVars>>

SyncSpec == SyncInit /\ [][SyncNext]_syncAllVars

SyncFairness ==
    /\ \A w \in Workers : WF_syncAllVars(PoolWorker(w) \/ SyncWorker(w))
    /\ \A t \in Threads : WF_syncAllVars(CallStep(t) /\ UNCHANGED syncVars)
    /\ \A t \in Waiters : WF_syncAllVars(WaiterStep(t))
    /\ WF_syncAllVars(ShutdownStep /\ UNCHANGED syncVars)

-----------------------------------------------------------------------------
\* The coroutines of t's call that are still to count its latch down.
Outstanding(t) ==
    {w \in Synced(t) : \/ \E v \in Workers : cur[v] = <<t, w>>
                       \/ \E i \in 1 .. Len(jobQ[w][PriorityLow]) : jobQ[w][PriorityLow][i] = <<t, w>>
                       \/ sync[t] = "push" /\ w >= at[t]}

\* The latch stands at the number of coroutines that are still to count it
\* down, those not yet enqueued included, whoever steals them: the caller
\* neither returns while one of them can still touch its latch, which is on its
\* stack, nor waits for one that is gone.
LatchCountsOutstanding ==
    \A t \in Waiters : allWorkerSync[t] = Cardinality(Outstanding(t))

\* waitForThreadSync returns unless shutdown has begun, although workers may be
\* asleep, busy, stealing, or waiting in a call of their own.
SyncReturns == \A t \in Waiters : sync[t] = "push" ~> sync[t] = "done" \/ redirected
=============================================================================
