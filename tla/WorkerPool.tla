----------------------------- MODULE WorkerPool -----------------------------
(***************************************************************************)
(* The worker threads of a CoPaT job system: one queue per worker and      *)
(* priority, one JobReceivedEvent per worker, the doWorkerJobs loop with   *)
(* job stealing, WorkerThreadsPool::enqueueJob, and the part of            *)
(* JobSystem::shutdown that ends the workers.                              *)
(*                                                                         *)
(* A queue operation is one atomic step here; FAAArrayQueue models the     *)
(* queue itself step by step.  Which worker enqueueJob selects is left     *)
(* open here; EnqueueTarget models the selection.                          *)
(***************************************************************************)
EXTENDS Integers, Sequences, FiniteSets

CONSTANTS
    WorkersCount,   \* number of worker threads
    Callers,        \* threads other than workers that enqueue worker jobs
    Jobs,           \* coroutine handles
    MaxPriority,    \* Priority_MaxPriority, the number of priorities
    PriorityOf,     \* jobPriority of each coroutine's promise
    Stealing,       \* FALSE iff the NoJobStealing constraint is set
    MaxEnqueues,    \* bound: how many calls of enqueueJob are made
    NoJob           \* nullptr

Workers == 0 .. WorkersCount - 1
Priorities == 0 .. MaxPriority - 1      \* 0 is Priority_Critical
Threads == Workers \cup Callers

ASSUME PoolAssumption ==
    /\ WorkersCount \in Nat \ {0}
    /\ MaxPriority \in Nat \ {0}
    /\ MaxEnqueues \in Nat
    /\ Stealing \in BOOLEAN
    /\ PriorityOf \in [Jobs -> Priorities]
    /\ NoJob \notin Jobs
    /\ Callers \cap Workers = {}

VARIABLES
    jobQ,        \* workerQs: one FIFO per worker and priority
    flag,        \* workerJobEvents[i].flag
    pc,          \* where a worker is in doWorkerJobs
    loop,        \* whether it is in the own-queue or in the stealing loop
    from,        \* the worker whose queues that loop dequeues from
    prio,        \* the priority that loop dequeues next
    cur,         \* the coroutine a worker is resuming
    call,        \* the enqueueJob call a thread is in
    idle,        \* coroutines that nobody holds: not yet enqueued, or suspended
    enqueues,    \* how many calls of enqueueJob were made
    redirected,  \* enqIndirection[WorkerThreads] = MainThread
    toMain,      \* coroutines handed to the main thread's queues instead
    exitFlag,    \* bExitMain[1]
    latch,       \* allWorkersExitEvent
    main,        \* where the main thread is in shutdown
    mi           \* the worker tryShutdown notifies next

workerVars == <<pc, loop, from, prio, cur>>
mainVars == <<redirected, exitFlag, main, mi>>
vars == <<jobQ, flag, workerVars, call, idle, enqueues, toMain, latch, mainVars>>

NotCalling == [phase |-> "none", job |-> NoJob, target |-> 0]

Calls == [phase : {"none", "push", "notify"}, job : Jobs \cup {NoJob}, target : Workers]

TypeOK ==
    /\ jobQ \in [Workers -> [Priorities -> Seq(Jobs)]]
    /\ flag \in [Workers -> BOOLEAN]
    /\ pc \in [Workers -> {"scan", "run", "test", "wait", "clear", "exit", "gone"}]
    /\ loop \in [Workers -> {"drain", "steal"}]
    /\ from \in [Workers -> Workers]
    /\ prio \in [Workers -> Priorities]
    /\ cur \in [Workers -> Jobs \cup {NoJob}]
    /\ call \in [Threads -> Calls]
    /\ \A t \in Threads : call[t].phase = "push" => call[t].job \in Jobs
    /\ idle \in SUBSET Jobs
    /\ enqueues \in 0 .. MaxEnqueues
    /\ toMain \in SUBSET Jobs
    /\ redirected \in BOOLEAN
    /\ exitFlag \in BOOLEAN
    /\ latch \in Int
    /\ main \in {"up", "redirected", "notify", "tryWait", "down"}
    /\ mi \in Workers

Init ==
    /\ jobQ = [w \in Workers |-> [p \in Priorities |-> <<>>]]
    /\ flag = [w \in Workers |-> FALSE]
    /\ pc = [w \in Workers |-> "scan"]
    /\ loop = [w \in Workers |-> "drain"]
    /\ from = [w \in Workers |-> w]
    /\ prio = [w \in Workers |-> 0]
    /\ cur = [w \in Workers |-> NoJob]
    /\ call = [t \in Threads |-> NotCalling]
    /\ idle = Jobs
    /\ enqueues = 0
    /\ redirected = FALSE
    /\ toMain = {}
    /\ exitFlag = FALSE
    /\ latch = WorkersCount
    /\ main = "up"
    /\ mi = 0

-----------------------------------------------------------------------------
(* JobSystem::enqueueJob and WorkerThreadsPool::enqueueJob.                 *)

\* A thread can call while it runs code of the program: any time for a caller,
\* inside a resumed coroutine for a worker.
CanCall(t) ==
    /\ call[t].phase = "none"
    /\ t \in Workers => pc[t] = "run" /\ cur[t] # NoJob

\* The call reads enqIndirection once and then selects a worker, or, once
\* shutdown redirected the workers, enqueues to the main thread.
EnterEnqueue(t, j) ==
    /\ enqueues < MaxEnqueues
    /\ enqueues' = enqueues + 1
    /\ \/ /\ ~redirected
          /\ \E w \in Workers :
                call' = [call EXCEPT ![t] = [phase |-> "push", job |-> j, target |-> w]]
          /\ UNCHANGED toMain
       \/ /\ redirected
          /\ toMain' = toMain \cup {j}
          /\ UNCHANGED call
    /\ UNCHANGED <<jobQ, flag, latch, mainVars>>

\* Thread t enqueues a coroutine that nobody runs: a new task at its initial
\* suspend, or one that waited elsewhere.
EnqueueJob(t, j) ==
    /\ CanCall(t)
    /\ j \in idle
    /\ idle' = idle \ {j}
    /\ EnterEnqueue(t, j)
    /\ UNCHANGED workerVars

\* The coroutine that worker w resumed awaits SwitchJobThreadAwaiter or a
\* yield: it is suspended, and enqueues itself from inside await_suspend.
SwitchJobThread(w) ==
    /\ CanCall(w)
    /\ EnterEnqueue(w, cur[w])
    /\ cur' = [cur EXCEPT ![w] = NoJob]
    /\ UNCHANGED <<pc, loop, from, prio, idle>>

\* The coroutine is in its queue: another thread may resume it from here on.
PushJob(t) ==
    /\ call[t].phase = "push"
    /\ LET c == call[t]
       IN  /\ jobQ' = [jobQ EXCEPT ![c.target][PriorityOf[c.job]] = Append(@, c.job)]
           /\ call' = [call EXCEPT ![t] = [phase |-> "notify", job |-> NoJob, target |-> c.target]]
    /\ UNCHANGED <<flag, workerVars, idle, enqueues, toMain, latch, mainVars>>

\* JobReceivedEvent::notify.
NotifyTarget(t) ==
    /\ call[t].phase = "notify"
    /\ flag' = [flag EXCEPT ![call[t].target] = TRUE]
    /\ call' = [call EXCEPT ![t] = NotCalling]
    /\ UNCHANGED <<jobQ, workerVars, idle, enqueues, toMain, latch, mainVars>>

-----------------------------------------------------------------------------
(* JobSystem::doWorkerJobs.                                                 *)

\* Mutant of TakeJob: the slot is read but not exchanged for TAKEN.
PeekJob(w) ==
    /\ pc[w] = "scan"
    /\ jobQ[from[w]][prio[w]] # <<>>
    /\ cur' = [cur EXCEPT ![w] = Head(jobQ[from[w]][prio[w]])]
    /\ pc' = [pc EXCEPT ![w] = "run"]
    /\ UNCHANGED <<jobQ, flag, loop, from, prio, call, idle, enqueues, toMain, latch, mainVars>>

\* dequeueJob or stealJob returns a coroutine, which the worker resumes.
TakeJob(w) ==
    /\ pc[w] = "scan"
    /\ LET q == jobQ[from[w]][prio[w]]
       IN  /\ q # <<>>
           /\ cur' = [cur EXCEPT ![w] = Head(q)]
           /\ jobQ' = [jobQ EXCEPT ![from[w]][prio[w]] = Tail(q)]
    /\ pc' = [pc EXCEPT ![w] = "run"]
    /\ UNCHANGED <<flag, loop, from, prio, call, idle, enqueues, toMain, latch, mainVars>>

QueueIsEmpty(w) == pc[w] = "scan" /\ jobQ[from[w]][prio[w]] = <<>>

\* Nothing at this priority: look at the next lower one.
NextPriority(w) ==
    /\ QueueIsEmpty(w)
    /\ prio[w] + 1 \in Priorities
    /\ prio' = [prio EXCEPT ![w] = @ + 1]
    /\ UNCHANGED <<jobQ, flag, pc, loop, from, cur, call, idle, enqueues, toMain, latch, mainVars>>

\* The own queues are drained: pick one victim at random, itself included.
StartStealing(w) ==
    /\ QueueIsEmpty(w) /\ prio[w] + 1 \notin Priorities
    /\ loop[w] = "drain" /\ Stealing
    /\ loop' = [loop EXCEPT ![w] = "steal"]
    /\ \E victim \in Workers : from' = [from EXCEPT ![w] = victim]
    /\ prio' = [prio EXCEPT ![w] = 0]
    /\ UNCHANGED <<jobQ, flag, pc, cur, call, idle, enqueues, toMain, latch, mainVars>>

\* Mutant of NothingFound: the event is reset on the way to sleep, after the
\* queues were looked at.
NothingFoundClear(w) ==
    /\ QueueIsEmpty(w) /\ prio[w] + 1 \notin Priorities
    /\ loop[w] = "steal" \/ ~Stealing
    /\ pc' = [pc EXCEPT ![w] = "test"]
    /\ flag' = [flag EXCEPT ![w] = FALSE]
    /\ UNCHANGED <<jobQ, loop, from, prio, cur, call, idle, enqueues, toMain, latch, mainVars>>

\* Nothing left to run: go on to the exit test.
NothingFound(w) ==
    /\ QueueIsEmpty(w) /\ prio[w] + 1 \notin Priorities
    /\ loop[w] = "steal" \/ ~Stealing
    /\ pc' = [pc EXCEPT ![w] = "test"]
    /\ UNCHANGED <<jobQ, flag, loop, from, prio, cur, call, idle, enqueues, toMain, latch, mainVars>>

\* The coroutine finishes, or suspends to wait for something else.
SuspendJob(w) ==
    /\ pc[w] = "run" /\ cur[w] # NoJob
    /\ call[w].phase = "none"
    /\ idle' = idle \cup {cur[w]}
    /\ cur' = [cur EXCEPT ![w] = NoJob]
    /\ UNCHANGED <<jobQ, flag, pc, loop, from, prio, call, enqueues, toMain, latch, mainVars>>

\* Mutant of ResumeReturns: the loop goes on at the priority it was at.
ResumeReturnsInPlace(w) ==
    /\ pc[w] = "run" /\ cur[w] = NoJob
    /\ call[w].phase = "none"
    /\ pc' = [pc EXCEPT ![w] = "scan"]
    /\ UNCHANGED <<jobQ, flag, loop, from, prio, cur, call, idle, enqueues, toMain, latch, mainVars>>

\* resume() returns; the same loop starts again at the highest priority.
ResumeReturns(w) ==
    /\ pc[w] = "run" /\ cur[w] = NoJob
    /\ call[w].phase = "none"
    /\ pc' = [pc EXCEPT ![w] = "scan"]
    /\ prio' = [prio EXCEPT ![w] = 0]
    /\ UNCHANGED <<jobQ, flag, loop, from, cur, call, idle, enqueues, toMain, latch, mainVars>>

TestExit(w) ==
    /\ pc[w] = "test"
    /\ pc' = [pc EXCEPT ![w] = IF exitFlag THEN "exit" ELSE "wait"]
    /\ UNCHANGED <<jobQ, flag, loop, from, prio, cur, call, idle, enqueues, toMain, latch, mainVars>>

\* JobReceivedEvent::wait, its two atomic operations: block until the flag is
\* set, then clear it, whoever set it again in between.
WaitForJob(w) ==
    /\ pc[w] = "wait"
    /\ flag[w]
    /\ pc' = [pc EXCEPT ![w] = "clear"]
    /\ UNCHANGED <<jobQ, flag, loop, from, prio, cur, call, idle, enqueues, toMain, latch, mainVars>>

ClearFlag(w) ==
    /\ pc[w] = "clear"
    /\ flag' = [flag EXCEPT ![w] = FALSE]
    /\ pc' = [pc EXCEPT ![w] = "scan"]
    /\ loop' = [loop EXCEPT ![w] = "drain"]
    /\ from' = [from EXCEPT ![w] = w]
    /\ prio' = [prio EXCEPT ![w] = 0]
    /\ UNCHANGED <<jobQ, cur, call, idle, enqueues, toMain, latch, mainVars>>

\* onWorkerThreadExit.
ExitWorker(w) ==
    /\ pc[w] = "exit"
    /\ pc' = [pc EXCEPT ![w] = "gone"]
    /\ latch' = latch - 1
    /\ UNCHANGED <<jobQ, flag, loop, from, prio, cur, call, idle, enqueues, toMain, mainVars>>

-----------------------------------------------------------------------------
(* JobSystem::shutdown and WorkerThreadsPool::tryShutdown, on the main      *)
(* thread.                                                                  *)

RedirectToMain ==
    /\ main = "up"
    /\ main' = "redirected"
    /\ redirected' = TRUE
    /\ UNCHANGED <<jobQ, flag, workerVars, call, idle, enqueues, toMain, latch, exitFlag, mi>>

RequestExit ==
    /\ main = "redirected"
    /\ main' = "notify"
    /\ exitFlag' = TRUE
    /\ UNCHANGED <<jobQ, flag, workerVars, call, idle, enqueues, toMain, latch, redirected, mi>>

\* Mutant of NotifyWorker: one notification is taken to wake all workers.
NotifyFirstWorker ==
    /\ main = "notify"
    /\ flag' = [flag EXCEPT ![mi] = TRUE]
    /\ main' = "tryWait"
    /\ UNCHANGED <<jobQ, workerVars, call, idle, enqueues, toMain, latch, redirected, exitFlag, mi>>

\* Mutant of NotifyWorker: the loop runs up to and including workersCount.
NotifyWorkerTooFar ==
    /\ main = "notify"
    /\ flag' = [w \in Workers |-> flag[w] \/ w = mi]
    /\ IF mi < WorkersCount
       THEN mi' = mi + 1 /\ UNCHANGED main
       ELSE mi' = 0 /\ main' = "tryWait"
    /\ UNCHANGED <<jobQ, workerVars, call, idle, enqueues, toMain, latch, redirected, exitFlag>>

NotifyWorker ==
    /\ main = "notify"
    /\ flag' = [flag EXCEPT ![mi] = TRUE]
    /\ IF mi + 1 \in Workers
       THEN mi' = mi + 1 /\ UNCHANGED main
       ELSE mi' = 0 /\ main' = "tryWait"
    /\ UNCHANGED <<jobQ, workerVars, call, idle, enqueues, toMain, latch, redirected, exitFlag>>

\* The pool is destroyed once every worker counted the latch down; otherwise
\* the main thread runs its own jobs and tries again.
TryShutdown ==
    /\ main = "tryWait"
    /\ main' = IF latch = 0 THEN "down" ELSE "notify"
    /\ UNCHANGED <<jobQ, flag, workerVars, call, idle, enqueues, toMain, latch, redirected, exitFlag, mi>>

-----------------------------------------------------------------------------
WorkerStep(w) ==
    \/ TakeJob(w) \/ NextPriority(w) \/ StartStealing(w) \/ NothingFound(w)
    \/ SwitchJobThread(w) \/ SuspendJob(w) \/ ResumeReturns(w)
    \/ TestExit(w) \/ WaitForJob(w) \/ ClearFlag(w) \/ ExitWorker(w)

CallStep(t) == PushJob(t) \/ NotifyTarget(t)

ShutdownStep == RequestExit \/ NotifyWorker \/ TryShutdown

\* Nothing is left to do: the pool is down and no thread is in a call.
Stopped ==
    /\ main = "down"
    /\ \A t \in Threads : call[t].phase = "none"
    /\ UNCHANGED vars

Next ==
    \/ \E t \in Threads, j \in Jobs : EnqueueJob(t, j)
    \/ \E t \in Threads : CallStep(t)
    \/ \E w \in Workers : WorkerStep(w)
    \/ RedirectToMain
    \/ ShutdownStep
    \/ Stopped

Spec == Init /\ [][Next]_vars

\* Every thread that is inside the job system keeps running, and a coroutine
\* runs for a finite time.  Nobody has to enqueue, and shutdown may never be
\* called.
Fairness ==
    /\ \A w \in Workers : WF_vars(WorkerStep(w))
    /\ \A t \in Threads : WF_vars(CallStep(t))
    /\ WF_vars(ShutdownStep)

FairSpec == Spec /\ Fairness
-----------------------------------------------------------------------------
(* Properties.                                                              *)

\* Worker w will block in JobReceivedEvent::wait before it looks at its own
\* queue of priority p again.
Passed(w, p) ==
    \/ pc[w] = "scan" /\ loop[w] = "drain" /\ p < prio[w]
    \/ pc[w] \in {"scan", "run"} /\ loop[w] = "steal"
    \/ pc[w] \in {"test", "wait", "exit", "gone"}

\* Some thread enqueued to worker w and has not yet set its flag.
NotifyPending(w) == \E t \in Threads : call[t].phase = "notify" /\ call[t].target = w

\* A job that is put in a queue its worker has already looked at leaves a
\* wake-up behind: the flag is set, or the enqueuing thread is about to set it
\* (enqueue before notify in enqueueJob, clear before the next scan in the
\* loop).  Clearing a flag that was set twice loses nothing.
NoLostWakeup ==
    \A w \in Workers, p \in Priorities :
        Passed(w, p) /\ jobQ[w][p] # <<>> => flag[w] \/ NotifyPending(w)

\* A worker that missed bExitMain in its exit test is woken by the notify
\* loop of tryShutdown that comes after it.
ExitNotMissed ==
    \A w \in Workers :
        exitFlag /\ pc[w] = "wait" => flag[w] \/ (main = "notify" /\ mi <= w)

\* The threads and queue positions that hold coroutine j.
Holders(j) ==
    {<<"idle">> : x \in {j} \cap idle}
      \cup {<<"main">> : x \in {j} \cap toMain}
      \cup {<<"cur", w>> : w \in {v \in Workers : cur[v] = j}}
      \cup {<<"call", t>> : t \in {u \in Threads : call[u].job = j}}
      \cup UNION {{<<"queue", w, p, i>> : i \in {k \in 1 .. Len(jobQ[w][p]) : jobQ[w][p][k] = j}} :
                     w \in Workers, p \in Priorities}

\* A coroutine handle is held in exactly one place, so that it is neither lost
\* nor resumed by two threads, whatever enqueues, steals and self-enqueues
\* interleave.
OneHolder == \A j \in Jobs : Cardinality(Holders(j)) = 1

\* The worker pool implements the promise about single coroutines.
JobState(j) ==
    IF \E w \in Workers : cur[w] = j THEN "running"
    ELSE IF j \in idle THEN "idle"
    ELSE IF j \in toMain THEN "main"
    ELSE "queued"

Lifecycle == INSTANCE JobLifecycle
    WITH state <- [j \in Jobs |-> JobState(j)], closing <- redirected

\* Every step of the pool is a step of the life cycle of one coroutine, or
\* none: no second resume for one enqueue, no resume of a suspended coroutine.
ImplementsLifecycle == Lifecycle!Spec

\* Before shutdown, every enqueued coroutine is resumed, although its worker
\* may be asleep or about to sleep when it arrives: the fairness of the life
\* cycle.
ImplementsFairLifecycle == Lifecycle!FairSpec

\* shutdown terminates: every worker leaves its loop, whatever it was doing
\* when bExitMain was set, and the pool is destroyed.
ShutdownEnds == main = "redirected" ~> main = "down"

\* No enqueueJob of the pool is in progress once every worker counted down
\* allWorkersExitEvent, the assertion at the head of enqueueJob: what
\* redirecting the workers to the main thread before anything else in shutdown
\* is meant to ensure.
NoEnqueueAfterExit == \A t \in Threads : call[t].phase # "none" => latch > 0
=============================================================================
