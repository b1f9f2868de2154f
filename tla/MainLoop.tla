------------------------------ MODULE MainLoop ------------------------------
(***************************************************************************)
(* The main thread of a job system: JobSystem::runMain, which runs the     *)
(* jobs of mainThreadJobs frame by frame, and JobSystem::shutdown, which   *)
(* runs it again until the threads of all pools have ended.  While there   *)
(* is a mainThreadTick, a marker put into every queue at the beginning of  *)
(* a frame divides the jobs of this frame from those of the next.          *)
(*                                                                         *)
(* The pools are seen from the main thread: their threads enqueue jobs     *)
(* for it, wait for it in waitForThreadSync, and end (WorkerPool models a  *)
(* pool from inside).  A queue operation is one step.                      *)
(***************************************************************************)
EXTENDS Integers, Sequences

CONSTANTS
    PoolThreads,   \* the special and worker threads and the supervisor
    PoolOf,        \* the pool of each: 1 special, 2 worker, 3 the supervisor
    Jobs,          \* coroutine handles
    MaxPriority,   \* Priority_MaxPriority
    PriorityOf,    \* jobPriority of each coroutine's promise
    FrameFence,    \* FRAME_FENCE_MARKER
    NoJob,         \* nullptr
    MaxLate        \* bound: how many coroutines are enqueued once shutdown began

ASSUME MainAssumption ==
    /\ MaxPriority \in Nat \ {0} /\ MaxLate \in Nat
    /\ PriorityOf \in [Jobs -> 0 .. MaxPriority - 1]
    /\ Jobs \cap PoolThreads = {} /\ PoolOf \in [PoolThreads -> 1 .. 3]
    /\ FrameFence \notin Jobs \cup PoolThreads
    /\ NoJob \notin Jobs \cup PoolThreads \cup {FrameFence}

Priorities == 0 .. MaxPriority - 1

\* What is resumed: jobs, and for each thread the DummyCoroutine of its wait.
Coroutines == Jobs \cup PoolThreads

VARIABLES
    mainThreadJobs,  \* a FIFO for each priority
    mainThreadTick,  \* there is one; shutdown clears it
    pc,              \* where the main thread is in runMain and shutdown
    prio,            \* the priority its loop is at
    frameEnded,
    cur,             \* the coroutine it is resuming
    idle,            \* jobs that are in no queue and not being resumed
    thread,          \* is each thread of the pools up, waiting, or gone?
    bExitMain,       \* its two flags
    pool,            \* the pool whose end shutdown waits for
    late,            \* how many coroutines were enqueued once shutdown began
    due              \* history: the coroutines that were enqueued before the fence

exitVars == <<mainThreadTick, bExitMain, pool>>
vars == <<mainThreadJobs, pc, prio, frameEnded, cur, idle, thread, exitVars, late, due>>

TypeOK ==
    /\ mainThreadJobs \in [Priorities -> Seq(Coroutines \cup {FrameFence})]
    /\ mainThreadTick \in BOOLEAN
    /\ pc \in {"begin", "fence", "tick", "scan", "run", "test", "joined",
              "clearTick", "setExit0", "setExit1", "tryShutdown", "down"}
    /\ prio \in Priorities
    /\ frameEnded \in [Priorities -> BOOLEAN]
    /\ cur \in Coroutines \cup {NoJob}
    /\ idle \in SUBSET Jobs
    /\ thread \in [PoolThreads -> {"up", "waiting", "gone"}]
    /\ bExitMain \in [0 .. 1 -> BOOLEAN]
    /\ pool \in 1 .. 3
    /\ late \in 0 .. MaxLate
    /\ due \in SUBSET Coroutines

\* After initialize; joinMain is called, or it is ignored.
Init ==
    /\ mainThreadJobs = [p \in Priorities |-> <<>>]
    /\ mainThreadTick \in BOOLEAN
    /\ pc \in {"begin", "joined"}
    /\ prio = 0
    /\ frameEnded = [p \in Priorities |-> FALSE]
    /\ cur = NoJob
    /\ idle = Jobs
    /\ thread = [t \in PoolThreads |-> "up"]
    /\ bExitMain = [i \in 0 .. 1 |-> FALSE]
    /\ pool = 1
    /\ late = 0
    /\ due = {}

-----------------------------------------------------------------------------
(* Coroutines come into the queues of the main thread.                      *)

QueueOf(x) == IF x \in Jobs THEN PriorityOf[x] ELSE MaxPriority - 1

EnqueueToMain(x) ==
    /\ mainThreadJobs' = [mainThreadJobs EXCEPT ![QueueOf(x)] = Append(@, x)]
    /\ due' = due \ {x}
    /\ IF bExitMain[1] THEN late < MaxLate /\ late' = late + 1 ELSE UNCHANGED late

\* A thread of the pools, the tick or the coroutine that is resumed enqueues a job.
EnqueueJob(j) ==
    /\ j \in idle
    /\ pc = "tick" \/ cur \in Jobs \/ \E t \in PoolThreads : thread[t] = "up"
    /\ EnqueueToMain(j)
    /\ idle' = idle \ {j}
    /\ UNCHANGED <<pc, prio, frameEnded, cur, thread, exitVars>>

\* waitForThreadSync(MainThread) on another thread: a coroutine that sets
\* waitFlag goes into the queue of the lowest priority.
WaitForMain(t) ==
    /\ thread[t] = "up"
    /\ thread' = [thread EXCEPT ![t] = "waiting"]
    /\ EnqueueToMain(t)
    /\ UNCHANGED <<pc, prio, frameEnded, cur, idle, exitVars>>

\* The thread sees bExitMain[1] once its queues are empty, and ends.
EndThread(t) ==
    /\ thread[t] = "up" /\ bExitMain[1]
    /\ thread' = [thread EXCEPT ![t] = "gone"]
    /\ UNCHANGED <<mainThreadJobs, pc, prio, frameEnded, cur, idle, exitVars, late, due>>

\* exitMain, on any thread.
ExitMain ==
    /\ bExitMain' = [bExitMain EXCEPT ![0] = TRUE]
    /\ UNCHANGED <<mainThreadJobs, mainThreadTick, pool, pc, prio, frameEnded, cur, idle, thread, late, due>>

-----------------------------------------------------------------------------
(* JobSystem::runMain.                                                      *)

\* Mutant of BeginFrame: the tick is called without the fences.
BeginFrameUnfenced ==
    /\ pc = "begin"
    /\ frameEnded' = [p \in Priorities |-> FALSE]
    /\ pc' = IF mainThreadTick THEN "tick" ELSE "scan"
    /\ prio' = 0
    /\ due' = {}
    /\ UNCHANGED <<mainThreadJobs, cur, idle, thread, exitVars, late>>

BeginFrame ==
    /\ pc = "begin"
    /\ frameEnded' = [p \in Priorities |-> FALSE]
    /\ pc' = IF mainThreadTick THEN "fence" ELSE "scan"
    /\ prio' = 0
    /\ due' = {}
    /\ UNCHANGED <<mainThreadJobs, cur, idle, thread, exitVars, late>>

\* Mutant of NextPriority: the loop runs to Priority_MaxPriority inclusive.
NextPriorityTooFar(end) ==
    IF prio < MaxPriority
    THEN prio' = prio + 1 /\ UNCHANGED pc
    ELSE prio' = 0 /\ pc' = end

\* Go on at the next lower priority, or at label end after the lowest.
NextPriority(end) ==
    IF prio + 1 \in Priorities
    THEN prio' = prio + 1 /\ UNCHANGED pc
    ELSE prio' = 0 /\ pc' = end

InsertFence ==
    /\ pc = "fence"
    /\ mainThreadJobs' = [mainThreadJobs EXCEPT ![prio] = Append(@, FrameFence)]
    /\ due' = due \cup {mainThreadJobs[prio][i] : i \in DOMAIN mainThreadJobs[prio]}
    /\ NextPriority("tick")
    /\ UNCHANGED <<frameEnded, cur, idle, thread, exitVars, late>>

Tick ==
    /\ pc = "tick"
    /\ pc' = "scan"
    /\ UNCHANGED <<mainThreadJobs, prio, frameEnded, cur, idle, thread, exitVars, late, due>>

Dequeue ==
    /\ pc = "scan" /\ ~frameEnded[prio]
    /\ mainThreadJobs[prio] # <<>>
    /\ mainThreadJobs' = [mainThreadJobs EXCEPT ![prio] = Tail(@)]

ResumeJob ==
    /\ Dequeue
    /\ Head(mainThreadJobs[prio]) # FrameFence
    /\ cur' = Head(mainThreadJobs[prio])
    /\ pc' = "run"
    /\ UNCHANGED <<prio, frameEnded, idle, thread, exitVars, late, due>>

\* Mutant of ReachFence: that the fence was reached is not kept.
ReachFenceForgotten ==
    /\ Dequeue
    /\ Head(mainThreadJobs[prio]) = FrameFence
    /\ NextPriority("test")
    /\ UNCHANGED <<frameEnded, cur, idle, thread, exitVars, late, due>>

\* Mutant of ReachFence: the first fence ends the frame for all priorities.
ReachFenceForAll ==
    /\ Dequeue
    /\ Head(mainThreadJobs[prio]) = FrameFence
    /\ pc' = "test"
    /\ UNCHANGED <<prio, frameEnded, cur, idle, thread, exitVars, late, due>>

ReachFence ==
    /\ Dequeue
    /\ Head(mainThreadJobs[prio]) = FrameFence
    /\ frameEnded' = [frameEnded EXCEPT ![prio] = TRUE]
    /\ NextPriority("test")
    /\ UNCHANGED <<cur, idle, thread, exitVars, late, due>>

\* Nothing is left at this priority, or not in this frame.
NothingFound ==
    /\ pc = "scan"
    /\ frameEnded[prio] \/ mainThreadJobs[prio] = <<>>
    /\ NextPriority("test")
    /\ UNCHANGED <<mainThreadJobs, frameEnded, cur, idle, thread, exitVars, late, due>>

\* resume() returns, and the scan begins again.
JobReturns == pc' = "scan" /\ cur' = NoJob /\ prio' = 0

\* The coroutine ends, or suspends and waits for something else.
SuspendJob ==
    /\ cur \in Jobs
    /\ idle' = idle \cup {cur}
    /\ JobReturns
    /\ UNCHANGED <<mainThreadJobs, frameEnded, thread, exitVars, late, due>>

\* It enqueues itself to the main thread again: SwitchJobThreadAwaiter, or
\* YieldAwaiter, which does it only if hasJob.
RequeueJob ==
    /\ cur \in Jobs
    /\ EnqueueToMain(cur)
    /\ JobReturns
    /\ UNCHANGED <<frameEnded, idle, thread, exitVars>>

\* DummyCoroutine sets waitFlag, which ends the wait of its thread.
EndWait ==
    /\ cur \in PoolThreads
    /\ thread' = [thread EXCEPT ![cur] = "up"]
    /\ JobReturns
    /\ UNCHANGED <<mainThreadJobs, frameEnded, idle, exitVars, late, due>>

TestExit ==
    /\ pc = "test"
    /\ pc' = IF ~bExitMain[0] THEN "begin"
             ELSE IF ~bExitMain[1] THEN "joined" ELSE "tryShutdown"
    /\ UNCHANGED <<mainThreadJobs, prio, frameEnded, cur, idle, thread, exitVars, late, due>>

-----------------------------------------------------------------------------
(* JobSystem::shutdown.                                                     *)

\* enqIndirection sends what is for any thread to the main thread, whose queues
\* other threads use already.
Redirect ==
    /\ pc = "joined"
    /\ pc' = "clearTick"
    /\ UNCHANGED <<mainThreadJobs, prio, frameEnded, cur, idle, thread, exitVars, late, due>>

ClearTick ==
    /\ pc = "clearTick"
    /\ mainThreadTick' = FALSE
    /\ pc' = "setExit0"
    /\ UNCHANGED <<mainThreadJobs, bExitMain, pool, prio, frameEnded, cur, idle, thread, late, due>>

SetExit(i, at, then) ==
    /\ pc = at
    /\ bExitMain' = [bExitMain EXCEPT ![i] = TRUE]
    /\ pc' = then
    /\ UNCHANGED <<mainThreadJobs, mainThreadTick, pool, prio, frameEnded, cur, idle, thread, late, due>>

PoolIsDown == \A t \in PoolThreads : PoolOf[t] = pool => thread[t] = "gone"

\* Go on with the next pool.
NextPool == IF pool < 3 THEN pool' = pool + 1 /\ UNCHANGED pc ELSE pc' = "down" /\ UNCHANGED pool

\* Mutant of TryShutdown: it tries again without runMain.
TryShutdownOnly ==
    /\ pc = "tryShutdown"
    /\ PoolIsDown /\ NextPool
    /\ UNCHANGED <<mainThreadJobs, mainThreadTick, bExitMain, prio, frameEnded, cur, idle, thread, late, due>>

\* tryShutdown of the special threads, the workers and the supervisor in turn,
\* again after a runMain while threads of that pool are left.
TryShutdown ==
    /\ pc = "tryShutdown"
    /\ IF PoolIsDown THEN NextPool ELSE pc' = "begin" /\ UNCHANGED pool
    /\ UNCHANGED <<mainThreadJobs, mainThreadTick, bExitMain, prio, frameEnded, cur, idle, thread, late, due>>

Shutdown ==
    \/ ClearTick \/ TryShutdown
    \/ SetExit(0, "setExit0", "setExit1") \/ SetExit(1, "setExit1", "tryShutdown")

-----------------------------------------------------------------------------
RunMain ==
    \/ BeginFrame \/ InsertFence \/ Tick \/ ResumeJob \/ ReachFence \/ NothingFound
    \/ SuspendJob \/ RequeueJob \/ EndWait \/ TestExit

Next ==
    \/ RunMain \/ Redirect \/ Shutdown \/ ExitMain
    \/ \E j \in Jobs : EnqueueJob(j)
    \/ \E t \in PoolThreads : WaitForMain(t) \/ EndThread(t)

Spec == Init /\ [][Next]_vars

\* The main thread keeps running; shutdown and exitMain need not be called.  A
\* thread that may sleep sees bExitMain once tryShutdown of its pool notifies it.
FairSpec ==
    /\ Spec
    /\ WF_vars(RunMain) /\ WF_vars(Shutdown)
    /\ \A t \in PoolThreads : WF_vars(PoolOf[t] <= pool /\ EndThread(t))

-----------------------------------------------------------------------------
\* "enqueue to main Queue from within another job in main Queue to always end
\* up in next frame" (runMain): in a frame with a tick only coroutines are
\* resumed that were enqueued before the fence of their priority, whoever
\* enqueues during the frame, and however often.
NextFrame == mainThreadTick /\ pc = "run" => cur \in due

Queued(x) == \E i \in DOMAIN mainThreadJobs[QueueOf(x)] : mainThreadJobs[QueueOf(x)][i] = x

\* A frame with a tick ends when all that was enqueued before its fences has
\* been resumed, at every priority, and no fence is left to cut a later frame,
\* or a run of the queues in shutdown, short.
FrameEndsClean ==
    mainThreadTick /\ pc = "test" =>
        /\ \A x \in due : ~Queued(x)
        /\ \A p \in Priorities : \A i \in DOMAIN mainThreadJobs[p] : mainThreadJobs[p][i] # FrameFence

\* While joinMain runs the main loop with a tick, no coroutine of a low priority
\* starves behind jobs that enqueue themselves over and over.
MainJobsRun ==
    \A x \in Coroutines :
        (mainThreadTick /\ pc \notin {"joined", "clearTick"} /\ Queued(x)) ~> (cur = x \/ bExitMain[0])

\* joinMain returns once exitMain was called, whatever jobs do meanwhile.
ExitMainReturns == (bExitMain[0] /\ mainThreadTick /\ pc # "clearTick") ~> (pc = "joined")

\* shutdown ends although a thread it waits for may itself wait for the main
\* thread: "Needs repeated draining of main thread queue to avoid dead lock".
ShutdownEnds == (pc = "clearTick") ~> (pc = "down")
=============================================================================
