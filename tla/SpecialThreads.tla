--------------------------- MODULE SpecialThreads ---------------------------
(***************************************************************************)
(* The threads of a job system that run the jobs of their own queues only: *)
(* the special threads of SpecialThreadsPool, and the supervisor           *)
(* (JobSystemThread), which has the same loop, event and queues.  Each has *)
(* one FIFO per priority that any thread enqueues to and only it dequeues  *)
(* from.  enqueueJob, waitForThreadSync and the shutdown of these threads  *)
(* are modelled, a queue operation being one step.                         *)
(*                                                                         *)
(* JobReceivedEvent::wait clears its flag by a relaxed store.  A processor *)
(* may keep such a store in its buffer while the thread goes on, until the *)
(* next locked instruction of the thread at the latest; a dequeue from an  *)
(* empty FAAArrayMPSCQueue has none.                                       *)
(***************************************************************************)
EXTENDS Integers, Sequences, FiniteSets

CONSTANTS
    Count,          \* number of these threads
    Callers,        \* other threads
    Jobs,           \* coroutine handles
    Waiters,        \* bound: threads that call waitForThreadSync, once each; a
                    \* waiter also names the DummyCoroutine of its call
    WaitsFor,       \* bound: the thread each of them waits for
    MaxPriority,
    PriorityOf,     \* jobPriority of each coroutine's promise
    EnqueueInThread,    \* of its promise
    MaxEnqueues,    \* bound: how many calls of enqueueJob are made
    NoJob           \* nullptr

Specials == 0 .. Count - 1
Threads == Specials \cup Callers
Priorities == 0 .. MaxPriority - 1
PriorityLow == MaxPriority - 1
Coroutines == Jobs \cup Waiters

ASSUME SpecialAssumption ==
    /\ Count \in Nat \ {0} /\ MaxPriority \in Nat \ {0} /\ MaxEnqueues \in Nat
    /\ PriorityOf \in [Jobs -> Priorities] /\ EnqueueInThread \in [Jobs -> Specials]
    /\ Waiters \subseteq Threads
    /\ WaitsFor \in [Waiters -> Specials] /\ \A t \in Waiters : WaitsFor[t] # t
    /\ Callers \cap Specials = {} /\ Jobs \cap Threads = {}
    /\ NoJob \notin Coroutines

VARIABLES
    buffering,   \* does the processor delay relaxed stores?
    jobQ,        \* specialQueues
    flag,        \* specialJobEvents[i].flag
    clearing,    \* the thread's store to its flag is still in its buffer
    pc,          \* where the thread is in doSpecialThreadJobs
    prio,        \* the priority it dequeues next
    cur,         \* the coroutine it is resuming
    call,        \* the call of enqueueJob or waitForThreadSync a thread is in
    waitFlag,    \* per waiter, on its stack
    waited,      \* waiters that made their call
    idle,        \* jobs that nobody holds: not yet enqueued, or suspended
    enqueues,    \* how many calls of enqueueJob were made
    redirected,  \* enqIndirection names the main thread
    toMain,      \* jobs handed to the main thread's queues instead
    exitFlag,    \* bExitMain[1]
    latch,       \* allSpecialsExitEvent
    main,        \* where the main thread is in shutdown
    mi           \* the thread tryShutdown notifies next

loopVars == <<pc, prio, cur>>
syncVars == <<waitFlag, waited>>
mainVars == <<redirected, exitFlag, main, mi>>
vars == <<buffering, jobQ, flag, clearing, loopVars, call, syncVars, idle, enqueues, toMain, latch, mainVars>>

NotCalling == [phase |-> "none", coro |-> NoJob, target |-> 0]

Calls == [phase : {"none", "push", "notify", "wait"}, coro : Coroutines \cup {NoJob}, target : Specials]

TypeOK ==
    /\ buffering \in BOOLEAN
    /\ jobQ \in [Specials -> [Priorities -> Seq(Coroutines)]]
    /\ flag \in [Specials -> BOOLEAN] /\ clearing \in [Specials -> BOOLEAN]
    /\ pc \in [Specials -> {"scan", "run", "test", "wait", "clear", "exit", "gone"}]
    /\ prio \in [Specials -> Priorities]
    /\ cur \in [Specials -> Coroutines \cup {NoJob}]
    /\ call \in [Threads -> Calls]
    /\ waitFlag \in [Waiters -> BOOLEAN] /\ waited \in SUBSET Waiters
    /\ idle \in SUBSET Jobs /\ toMain \in SUBSET Jobs
    /\ enqueues \in 0 .. MaxEnqueues
    /\ redirected \in BOOLEAN /\ exitFlag \in BOOLEAN
    /\ latch \in Int
    /\ main \in {"up", "redirected", "notify", "tryWait", "down"}
    /\ mi \in Specials

Init ==
    /\ buffering \in BOOLEAN
    /\ jobQ = [s \in Specials |-> [p \in Priorities |-> <<>>]]
    /\ flag = [s \in Specials |-> FALSE] /\ clearing = [s \in Specials |-> FALSE]
    /\ pc = [s \in Specials |-> "scan"]
    /\ prio = [s \in Specials |-> 0]
    /\ cur = [s \in Specials |-> NoJob]
    /\ call = [t \in Threads |-> NotCalling]
    /\ waitFlag = [t \in Waiters |-> FALSE] /\ waited = {}
    /\ idle = Jobs /\ toMain = {}
    /\ enqueues = 0
    /\ redirected = FALSE /\ exitFlag = FALSE
    /\ latch = Count
    /\ main = "up" /\ mi = 0

-----------------------------------------------------------------------------
(* enqueueJob and waitForThreadSync.                                        *)

\* A thread can call while it runs code of the program.
CanCall(t) ==
    /\ call[t].phase = "none"
    /\ t \in Specials => pc[t] = "run" /\ cur[t] \in Jobs

\* The call reads enqIndirection once.
Enter(t, j, targets) ==
    /\ enqueues < MaxEnqueues
    /\ enqueues' = enqueues + 1
    /\ \/ /\ ~redirected
          /\ \E s \in targets : call' = [call EXCEPT ![t] = [phase |-> "push", coro |-> j, target |-> s]]
          /\ UNCHANGED toMain
       \/ /\ redirected
          /\ toMain' = toMain \cup {j}
          /\ UNCHANGED call
    /\ UNCHANGED <<buffering, jobQ, flag, clearing, syncVars, latch, mainVars>>

EnqueueJob(t, j) ==
    /\ CanCall(t) /\ j \in idle
    /\ idle' = idle \ {j}
    /\ Enter(t, j, {EnqueueInThread[j]})
    /\ UNCHANGED loopVars

\* The running coroutine awaits SwitchJobThreadAwaiter or a yield.
SwitchJobThread(s) ==
    /\ s \in Specials /\ CanCall(s)
    /\ Enter(s, cur[s], Specials)
    /\ cur' = [cur EXCEPT ![s] = NoJob]
    /\ UNCHANGED <<pc, prio, idle>>

\* A thread does not wait for itself (isInThread).
CallSync(t) ==
    /\ CanCall(t) /\ t \notin waited
    /\ ~redirected
    /\ waited' = waited \cup {t}
    /\ call' = [call EXCEPT ![t] = [phase |-> "push", coro |-> t, target |-> WaitsFor[t]]]
    /\ UNCHANGED <<buffering, jobQ, flag, clearing, loopVars, waitFlag, idle, enqueues, toMain, latch, mainVars>>

\* Mutant of QueueOf: the coroutine of waitForThreadSync is critical.
QueueOfCritical(c) == IF c \in Jobs THEN PriorityOf[c] ELSE 0

QueueOf(c) == IF c \in Jobs THEN PriorityOf[c] ELSE PriorityLow

Push(t) ==
    /\ call[t].phase = "push"
    /\ LET c == call[t]
       IN  jobQ' = [jobQ EXCEPT ![c.target][QueueOf(c.coro)] = Append(@, c.coro)]
    /\ call' = [call EXCEPT ![t].phase = "notify"]
    /\ UNCHANGED <<buffering, flag, clearing, loopVars, syncVars, idle, enqueues, toMain, latch, mainVars>>

\* Mutant of Notify: a thread that waits relies on the thread being awake.
NotifyJobsOnly(t) ==
    /\ call[t].phase = "notify"
    /\ flag' = [flag EXCEPT ![call[t].target] = @ \/ call[t].coro \in Jobs]
    /\ call' = [call EXCEPT ![t] = IF call[t].coro = t THEN [@ EXCEPT !.phase = "wait"] ELSE NotCalling]
    /\ UNCHANGED <<buffering, jobQ, clearing, loopVars, syncVars, idle, enqueues, toMain, latch, mainVars>>

\* JobReceivedEvent::notify; enqueueJob returns, waitForThreadSync waits.
Notify(t) ==
    /\ call[t].phase = "notify"
    /\ flag' = [flag EXCEPT ![call[t].target] = TRUE]
    /\ call' = [call EXCEPT ![t] = IF call[t].coro = t THEN [@ EXCEPT !.phase = "wait"] ELSE NotCalling]
    /\ UNCHANGED <<buffering, jobQ, clearing, loopVars, syncVars, idle, enqueues, toMain, latch, mainVars>>

SyncReturned(t) ==
    /\ call[t].phase = "wait" /\ waitFlag[t]
    /\ call' = [call EXCEPT ![t] = NotCalling]
    /\ UNCHANGED <<buffering, jobQ, flag, clearing, loopVars, syncVars, idle, enqueues, toMain, latch, mainVars>>

-----------------------------------------------------------------------------
(* doSpecialThreadJobs and doJobSysThreadJobs.                              *)

\* Mutant of TakeJob: the slot is read but not exchanged for TAKEN.
PeekJob(s) ==
    /\ pc[s] = "scan" /\ ~clearing[s]
    /\ jobQ[s][prio[s]] # <<>>
    /\ cur' = [cur EXCEPT ![s] = Head(jobQ[s][prio[s]])]
    /\ pc' = [pc EXCEPT ![s] = "run"]
    /\ UNCHANGED <<buffering, jobQ, flag, clearing, prio, call, syncVars, idle, enqueues, toMain, latch, mainVars>>

\* A dequeue that returns a coroutine has locked instructions.
TakeJob(s) ==
    /\ pc[s] = "scan" /\ ~clearing[s]
    /\ LET q == jobQ[s][prio[s]]
       IN  /\ q # <<>>
           /\ cur' = [cur EXCEPT ![s] = Head(q)]
           /\ jobQ' = [jobQ EXCEPT ![s][prio[s]] = Tail(q)]
    /\ pc' = [pc EXCEPT ![s] = "run"]
    /\ UNCHANGED <<buffering, flag, clearing, prio, call, syncVars, idle, enqueues, toMain, latch, mainVars>>

NextPriority(s) ==
    /\ pc[s] = "scan" /\ jobQ[s][prio[s]] = <<>>
    /\ IF prio[s] + 1 \in Priorities
       THEN prio' = [prio EXCEPT ![s] = @ + 1] /\ UNCHANGED pc
       ELSE pc' = [pc EXCEPT ![s] = "test"] /\ UNCHANGED prio
    /\ UNCHANGED <<buffering, jobQ, flag, clearing, cur, call, syncVars, idle, enqueues, toMain, latch, mainVars>>

\* resume() returns, and the loop begins again at the highest priority.
NextJob(s) ==
    /\ cur' = [cur EXCEPT ![s] = NoJob]
    /\ pc' = [pc EXCEPT ![s] = "scan"]
    /\ prio' = [prio EXCEPT ![s] = 0]

\* The coroutine finishes, or suspends to wait for something else.
SuspendJob(s) ==
    /\ pc[s] = "run" /\ cur[s] \in Jobs /\ call[s].phase = "none"
    /\ idle' = idle \cup {cur[s]}
    /\ NextJob(s)
    /\ UNCHANGED <<buffering, jobQ, flag, clearing, call, syncVars, enqueues, toMain, latch, mainVars>>

\* The coroutine of waitForThreadSync sets the caller's flag, and ends.
SetWaitFlag(s) ==
    /\ pc[s] = "run" /\ cur[s] \in Waiters
    /\ waitFlag' = [waitFlag EXCEPT ![cur[s]] = TRUE]
    /\ NextJob(s)
    /\ UNCHANGED <<buffering, jobQ, flag, clearing, call, waited, idle, enqueues, toMain, latch, mainVars>>

\* Once the coroutine that moves on is enqueued.
ResumeReturns(s) ==
    /\ pc[s] = "run" /\ cur[s] = NoJob /\ call[s].phase = "none"
    /\ NextJob(s)
    /\ UNCHANGED <<buffering, jobQ, flag, clearing, call, syncVars, idle, enqueues, toMain, latch, mainVars>>

\* Mutant of TestExit: the event is reset on the way to sleep.
TestExitClear(s) ==
    /\ pc[s] = "test"
    /\ pc' = [pc EXCEPT ![s] = IF exitFlag THEN "exit" ELSE "wait"]
    /\ flag' = [flag EXCEPT ![s] = FALSE]
    /\ UNCHANGED <<buffering, jobQ, clearing, prio, cur, call, syncVars, idle, enqueues, toMain, latch, mainVars>>

TestExit(s) ==
    /\ pc[s] = "test"
    /\ pc' = [pc EXCEPT ![s] = IF exitFlag THEN "exit" ELSE "wait"]
    /\ UNCHANGED <<buffering, jobQ, flag, clearing, prio, cur, call, syncVars, idle, enqueues, toMain, latch, mainVars>>

\* The thread reads its own store from the buffer.
WaitForJob(s) ==
    /\ pc[s] = "wait" /\ flag[s] /\ ~clearing[s]
    /\ pc' = [pc EXCEPT ![s] = "clear"]
    /\ UNCHANGED <<buffering, jobQ, flag, clearing, prio, cur, call, syncVars, idle, enqueues, toMain, latch, mainVars>>

ClearFlag(s) ==
    /\ pc[s] = "clear"
    /\ IF buffering
       THEN clearing' = [clearing EXCEPT ![s] = TRUE] /\ UNCHANGED flag
       ELSE flag' = [flag EXCEPT ![s] = FALSE] /\ UNCHANGED clearing
    /\ pc' = [pc EXCEPT ![s] = "scan"]
    /\ prio' = [prio EXCEPT ![s] = 0]
    /\ UNCHANGED <<buffering, jobQ, cur, call, syncVars, idle, enqueues, toMain, latch, mainVars>>

\* The delayed store reaches the flag, and overwrites what was set meanwhile.
Drain(s) ==
    /\ clearing[s]
    /\ clearing' = [clearing EXCEPT ![s] = FALSE]
    /\ flag' = [flag EXCEPT ![s] = FALSE]
    /\ UNCHANGED <<buffering, jobQ, loopVars, call, syncVars, idle, enqueues, toMain, latch, mainVars>>

\* onSpecialThreadExit
ExitSpecial(s) ==
    /\ pc[s] = "exit" /\ ~clearing[s]
    /\ pc' = [pc EXCEPT ![s] = "gone"]
    /\ latch' = latch - 1
    /\ UNCHANGED <<buffering, jobQ, flag, clearing, prio, cur, call, syncVars, idle, enqueues, toMain, mainVars>>

-----------------------------------------------------------------------------
(* JobSystem::shutdown and tryShutdown, on the main thread.                 *)

RedirectToMain ==
    /\ main = "up"
    /\ main' = "redirected"
    /\ redirected' = TRUE
    /\ UNCHANGED <<buffering, jobQ, flag, clearing, loopVars, call, syncVars, idle, enqueues, toMain, latch, exitFlag, mi>>

RequestExit ==
    /\ main = "redirected"
    /\ main' = "notify"
    /\ exitFlag' = TRUE
    /\ UNCHANGED <<buffering, jobQ, flag, clearing, loopVars, call, syncVars, idle, enqueues, toMain, latch, redirected, mi>>

NotifySpecial ==
    /\ main = "notify"
    /\ flag' = [flag EXCEPT ![mi] = TRUE]
    /\ IF mi + 1 \in Specials
       THEN mi' = mi + 1 /\ UNCHANGED main
       ELSE mi' = 0 /\ main' = "tryWait"
    /\ UNCHANGED <<buffering, jobQ, clearing, loopVars, call, syncVars, idle, enqueues, toMain, latch, redirected, exitFlag>>

\* Mutant of TryShutdown: the threads were notified, it remains to wait.
TryWaitOnly ==
    /\ main = "tryWait"
    /\ main' = IF latch = 0 THEN "down" ELSE "tryWait"
    /\ UNCHANGED <<buffering, jobQ, flag, clearing, loopVars, call, syncVars, idle, enqueues, toMain, latch, redirected, exitFlag, mi>>

TryShutdown ==
    /\ main = "tryWait"
    /\ main' = IF latch = 0 THEN "down" ELSE "notify"
    /\ UNCHANGED <<buffering, jobQ, flag, clearing, loopVars, call, syncVars, idle, enqueues, toMain, latch, redirected, exitFlag, mi>>

-----------------------------------------------------------------------------
SpecialStep(s) ==
    \/ TakeJob(s) \/ NextPriority(s) \/ SwitchJobThread(s) \/ SuspendJob(s) \/ SetWaitFlag(s)
    \/ ResumeReturns(s) \/ TestExit(s) \/ WaitForJob(s) \/ ClearFlag(s) \/ ExitSpecial(s)

CallStep(t) == Push(t) \/ Notify(t) \/ SyncReturned(t)

ShutdownStep == RequestExit \/ NotifySpecial \/ TryShutdown

\* Calls that read enqIndirection late may be left behind.
Stopped == main = "down" /\ UNCHANGED vars

Next ==
    \/ \E t \in Threads, j \in Jobs : EnqueueJob(t, j)
    \/ \E t \in Waiters : CallSync(t)
    \/ \E t \in Threads : CallStep(t)
    \/ \E s \in Specials : SpecialStep(s) \/ Drain(s)
    \/ RedirectToMain \/ ShutdownStep \/ Stopped

Spec == Init /\ [][Next]_vars

\* As in WorkerPool; a store buffer drains by itself.
Fairness ==
    /\ \A s \in Specials : WF_vars(SpecialStep(s) \/ CallStep(s)) /\ WF_vars(Drain(s))
    /\ \A t \in Callers : WF_vars(CallStep(t))
    /\ WF_vars(ShutdownStep)

FairSpec == Spec /\ Fairness

-----------------------------------------------------------------------------
(* Properties.                                                              *)

\* The thread will block in JobReceivedEvent::wait before it looks at its queue
\* of priority p again.
Passed(s, p) ==
    \/ pc[s] = "scan" /\ p < prio[s]
    \/ pc[s] \in {"test", "wait", "exit", "gone"}

NotifyPending(s) == \E t \in Threads : call[t].phase = "notify" /\ call[t].target = s

\* On a processor that does not delay the clear, a coroutine that is put in a
\* queue the thread has already looked at leaves a wake-up behind.
NoLostWakeup ==
    ~buffering =>
        \A s \in Specials, p \in Priorities :
            Passed(s, p) /\ jobQ[s][p] # <<>> => flag[s] \/ NotifyPending(s)

InQueue(s, c) == \E p \in Priorities : \E i \in 1 .. Len(jobQ[s][p]) : jobQ[s][p][i] = c

JobState(j) ==
    IF \E s \in Specials : cur[s] = j THEN "running"
    ELSE IF j \in idle THEN "idle"
    ELSE IF j \in toMain THEN "main"
    ELSE "queued"

Lifecycle == INSTANCE JobLifecycle
    WITH state <- [j \in Jobs |-> JobState(j)], closing <- redirected

\* Every enqueue of a coroutine is followed by at most one resume, on the thread
\* it was enqueued to, also when the coroutine moves on to another thread and
\* that one resumes it before it returned from its own await_suspend.
ImplementsLifecycle == Lifecycle!Spec

\* Before shutdown every enqueued coroutine is resumed, as long as the clear is
\* not delayed.
EnqueuedRuns ==
    \A j \in Jobs : ~buffering /\ JobState(j) = "queued" ~> JobState(j) # "queued" \/ redirected

\* waitForThreadSync returns, although the thread it waits for may itself be
\* waiting for another one, as long as they do not wait in a circle.  Each
\* waiter calls once, so that this is to say that all calls are over some time.
SyncReturns ==
    ~buffering /\ (\E t \in Waiters : call[t].phase = "wait")
        ~> (\A t \in Waiters : call[t].phase # "wait") \/ redirected

\* shutdown ends also on a processor that delays the clear: a wake-up that is
\* overwritten is repeated by the next tryShutdown.  One thing keeps it from
\* ending: a special thread that waits for another one which left its loop
\* before the coroutine of the call arrived.
ShutdownEnds ==
    main = "redirected" ~>
        main = "down" \/ \E s \in Specials : call[s].phase = "wait" /\ pc[call[s].target] = "gone"
=============================================================================
