------------------------------ MODULE AwaitAll ------------------------------
(***************************************************************************)
(* awaitAllTasks: a parent coroutine awaits several jobs.  Each job is     *)
(* awaited by a wrapper coroutine of its own (AwaitOneTask); the starter,  *)
(* the thread on which the parent suspends, resumes the wrappers one after *)
(* another, and the last wrapper to end resumes the parent from whichever  *)
(* thread it runs on.  A job and its wrapper meet in the promise of the    *)
(* job (JobSystemPromiseBase), by one atomic flag.                         *)
(*                                                                         *)
(* If blocking, the parent is the coroutine of waitOnAwaitable: the        *)
(* starter then blocks on a semaphore and destroys everything when it gets *)
(* it.  Otherwise the parent itself destroys everything when it goes on.   *)
(***************************************************************************)
EXTENDS Naturals

CONSTANTS
    ChildrenCount,  \* AWAITABLES_COUNT, allAwaits.size()
    JobsMoved       \* the jobs were moved into the wrappers and die with them,
                    \* or their owner keeps them until their threads are done

ASSUME JoinAssumption ==
    /\ ChildrenCount \in Nat \ {0}
    /\ JobsMoved \in BOOLEAN

Children == 1 .. ChildrenCount

VARIABLES
    blocking,   \* waitOnAwaitable(awaitAllTasks(...)), or a co_await of it
    job,        \* where each job is; "final": it is done(), not yet flagged
    flag,       \* bBlockContinuation of each job
    cont,       \* has each job its continuation?
    wrap,       \* where each wrapper is
    by,         \* on which thread a wrapper runs
    counter, awaiting,  \* AwaitAllTasksCounter: counter, awaitingCoroutine
    starter,    \* where the starter is
    next,       \* the wrapper the starter resumes next
    parent,     \* where the parent is
    semaphore,  \* waitOnAwaitable's
    alive       \* the AwaitAllTasks object and the wrappers are not destroyed

jobVars == <<job, flag, cont>>
wrapVars == <<wrap, by>>
countVars == <<counter, awaiting>>
vars == <<blocking, jobVars, wrapVars, countVars, starter, next, parent, semaphore, alive>>

TypeOK ==
    /\ blocking \in BOOLEAN
    /\ job \in [Children -> {"queued", "running", "final", "ended"}]
    /\ flag \in [Children -> BOOLEAN] /\ cont \in [Children -> BOOLEAN]
    /\ wrap \in [Children -> {"initial", "testDone", "setCont", "testFlag", "awaiting", "release", "resumeParent", "ended"}]
    /\ by \in [Children -> {"starter", "runner"}]
    /\ counter \in 0 .. ChildrenCount /\ awaiting \in BOOLEAN
    /\ starter \in {"begin", "loop", "child", "acquire", "returned"}
    /\ next \in 1 .. ChildrenCount + 1
    /\ parent \in {"suspended", "running", "ended"}
    /\ semaphore \in 0 .. 1
    /\ alive \in BOOLEAN

\* Mutant of InitialCount: one awaitable is not counted.
InitialCountLess == ChildrenCount - 1

\* The count the constructor of AwaitAllTasks gives its counter.
InitialCount == ChildrenCount

\* The jobs were enqueued when they were created; the wrappers ran up to their
\* suspend_always.
Init ==
    /\ blocking \in BOOLEAN
    /\ job = [c \in Children |-> "queued"]
    /\ flag = [c \in Children |-> FALSE]
    /\ cont = [c \in Children |-> FALSE]
    /\ wrap = [c \in Children |-> "initial"]
    /\ by = [c \in Children |-> "starter"]
    /\ counter = InitialCount
    /\ awaiting = FALSE
    /\ starter = "begin"
    /\ next = 1
    /\ parent = "suspended"
    /\ semaphore = 0
    /\ alive = TRUE

-----------------------------------------------------------------------------
(* A job, on the thread that runs it.                                       *)

RunJob(c) ==
    /\ job[c] = "queued"
    /\ job' = [job EXCEPT ![c] = "running"]
    /\ UNCHANGED <<blocking, flag, cont, wrapVars, countVars, starter, next, parent, semaphore, alive>>

\* The body ends and the coroutine is suspended at its final suspend point:
\* from here on done() holds.
FinishBody(c) ==
    /\ job[c] = "running"
    /\ job' = [job EXCEPT ![c] = "final"]
    /\ UNCHANGED <<blocking, flag, cont, wrapVars, countVars, starter, next, parent, semaphore, alive>>

\* FinalSuspendAwaiter::await_suspend: go on in the continuation if the flag
\* was set already.
FinalSuspend(c) ==
    /\ job[c] = "final"
    /\ job' = [job EXCEPT ![c] = "ended"]
    /\ flag' = [flag EXCEPT ![c] = TRUE]
    /\ IF flag[c]
       THEN /\ wrap' = [wrap EXCEPT ![c] = "release"]
            /\ by' = [by EXCEPT ![c] = "runner"]
       ELSE UNCHANGED wrapVars
    /\ UNCHANGED <<blocking, cont, countVars, starter, next, parent, semaphore, alive>>

-----------------------------------------------------------------------------
(* The starter: AwaitAllTasks::await_suspend, waitOnAwaitable.              *)

\* Mutant of BeginAwait: awaitingCoroutine is not set before the wrappers run.
BeginAwaitUnset ==
    /\ starter = "begin"
    /\ starter' = "loop"
    /\ UNCHANGED <<blocking, jobVars, wrapVars, countVars, next, parent, semaphore, alive>>

BeginAwait ==
    /\ starter = "begin"
    /\ awaiting' = TRUE
    /\ starter' = "loop"
    /\ UNCHANGED <<blocking, jobVars, wrapVars, counter, next, parent, semaphore, alive>>

\* setWaitCounter: the wrapper goes on to co_await its job.
StartChild ==
    /\ starter = "loop" /\ next \in Children
    /\ wrap' = [wrap EXCEPT ![next] = "testDone"]
    /\ starter' = "child"
    /\ UNCHANGED <<blocking, jobVars, by, countVars, next, parent, semaphore, alive>>

\* The loop is over; startWait returns and the thread waits.
EndLoop ==
    /\ starter = "loop" /\ next \notin Children
    /\ starter' = IF blocking THEN "acquire" ELSE "returned"
    /\ UNCHANGED <<blocking, jobVars, wrapVars, countVars, next, parent, semaphore, alive>>

\* semaphore.acquire(); the scope is left and all it owns is destroyed.
Acquire ==
    /\ starter = "acquire" /\ semaphore > 0
    /\ semaphore' = semaphore - 1
    /\ alive' = FALSE
    /\ starter' = "returned"
    /\ UNCHANGED <<blocking, jobVars, wrapVars, countVars, next, parent>>

-----------------------------------------------------------------------------
(* A wrapper, on the starter or on the thread of its job.                   *)

\* The thread leaves wrapper c, which is suspended or at its end.
LeaveChild(c) ==
    IF by[c] = "starter"
    THEN starter' = "loop" /\ next' = next + 1
    ELSE UNCHANGED <<starter, next>>

\* JobSystemTaskType::await_ready
TestDone(c) ==
    /\ wrap[c] = "testDone"
    /\ wrap' = [wrap EXCEPT ![c] = IF job[c] \in {"final", "ended"} THEN "release" ELSE "setCont"]
    /\ UNCHANGED <<blocking, jobVars, by, countVars, starter, next, parent, semaphore, alive>>

\* Mutant of SetContinuation: the flag is set before anything is written.
SetContinuationMissing(c) ==
    /\ wrap[c] = "setCont"
    /\ wrap' = [wrap EXCEPT ![c] = "testFlag"]
    /\ UNCHANGED <<blocking, jobVars, by, countVars, starter, next, parent, semaphore, alive>>

\* trySetContinuation writes the continuation and then sets the flag.
SetContinuation(c) ==
    /\ wrap[c] = "setCont"
    /\ cont' = [cont EXCEPT ![c] = TRUE]
    /\ wrap' = [wrap EXCEPT ![c] = "testFlag"]
    /\ UNCHANGED <<blocking, job, flag, by, countVars, starter, next, parent, semaphore, alive>>

\* Mutant of TestFlag: the wrapper goes on although the flag was its own.
TestFlagContinues(c) ==
    /\ wrap[c] = "testFlag"
    /\ flag' = [flag EXCEPT ![c] = TRUE]
    /\ wrap' = [wrap EXCEPT ![c] = "release"]
    /\ UNCHANGED <<blocking, job, cont, by, countVars, starter, next, parent, semaphore, alive>>

\* Mutant of TestFlag: the wrapper suspends although the job was first.
TestFlagSuspends(c) ==
    /\ wrap[c] = "testFlag"
    /\ flag' = [flag EXCEPT ![c] = TRUE]
    /\ wrap' = [wrap EXCEPT ![c] = "awaiting"]
    /\ LeaveChild(c)
    /\ UNCHANGED <<blocking, job, cont, by, countVars, parent, semaphore, alive>>

\* If the job was first, the wrapper takes its continuation back and goes on.
TestFlag(c) ==
    /\ wrap[c] = "testFlag"
    /\ flag' = [flag EXCEPT ![c] = TRUE]
    /\ IF flag[c]
       THEN /\ cont' = [cont EXCEPT ![c] = FALSE]
            /\ wrap' = [wrap EXCEPT ![c] = "release"]
            /\ UNCHANGED <<starter, next>>
       ELSE /\ wrap' = [wrap EXCEPT ![c] = "awaiting"]
            /\ LeaveChild(c)
            /\ UNCHANGED cont
    /\ UNCHANGED <<blocking, job, by, countVars, parent, semaphore, alive>>

\* The wrapper stores the result and ends: AwaitAllTasksCounter::release.
Release(c) ==
    /\ wrap[c] = "release"
    /\ counter' = counter - 1
    /\ IF counter = 1
       THEN wrap' = [wrap EXCEPT ![c] = "resumeParent"] /\ UNCHANGED <<starter, next>>
       ELSE wrap' = [wrap EXCEPT ![c] = "ended"] /\ LeaveChild(c)
    /\ UNCHANGED <<blocking, jobVars, by, awaiting, parent, semaphore, alive>>

ResumeParent(c) ==
    /\ wrap[c] = "resumeParent"
    /\ IF awaiting
       THEN parent' = "running" /\ UNCHANGED <<wrap, starter, next>>
       ELSE wrap' = [wrap EXCEPT ![c] = "ended"] /\ LeaveChild(c) /\ UNCHANGED parent
    /\ parent = "suspended"
    /\ UNCHANGED <<blocking, jobVars, by, countVars, semaphore, alive>>

\* The parent, inside the wrapper that resumed it: it reads the results and
\* ends, releasing the semaphore or destroying what it awaited.
FinishParent(c) ==
    /\ wrap[c] = "resumeParent" /\ parent = "running"
    /\ parent' = "ended"
    /\ wrap' = [wrap EXCEPT ![c] = "ended"]
    /\ LeaveChild(c)
    /\ IF blocking
       THEN semaphore' = semaphore + 1 /\ UNCHANGED alive
       ELSE alive' = FALSE /\ UNCHANGED semaphore
    /\ UNCHANGED <<blocking, jobVars, by, countVars>>

-----------------------------------------------------------------------------
Starter == BeginAwait \/ StartChild \/ EndLoop \/ Acquire
Job(c) == RunJob(c) \/ FinishBody(c) \/ FinalSuspend(c)
Wrapper(c) ==
    \/ TestDone(c) \/ SetContinuation(c) \/ TestFlag(c)
    \/ Release(c) \/ ResumeParent(c) \/ FinishParent(c)

Next == Starter \/ \E c \in Children : Job(c) \/ Wrapper(c)

Spec == Init /\ [][Next]_vars

\* Every thread keeps running, and the pool runs every job (MCWorkerPool_live).
FairSpec == Spec /\ WF_vars(Starter) /\ \A c \in Children : WF_vars(Job(c)) /\ WF_vars(Wrapper(c))

-----------------------------------------------------------------------------
\* Whenever a job finds its flag set at final suspend, its wrapper has written
\* the continuation and is suspended in it (assertion in FinalSuspendAwaiter):
\* no order of the two test_and_set loses the wrapper or runs it twice.
HandshakeComplete == \A c \in Children : job[c] = "final" /\ flag[c] => cont[c] /\ wrap[c] = "awaiting"

\* When the AwaitAllTasks object and the wrappers are destroyed, no thread is
\* still to use them: not the starter in its loop over the wrappers, not a
\* wrapper that releases the counter.
FramesOutliveUse == ~alive => starter # "begin" /\ next \notin Children /\ \A c \in Children : wrap[c] = "ended"

\* A job that dies with its wrapper has left its promise for good: no thread
\* is still to set the flag in it.
JobsOutliveTheirThreads == ~alive /\ JobsMoved => \A c \in Children : job[c] = "ended"

J == INSTANCE Join WITH
        finished <- {c \in Children : job[c] \in {"final", "ended"}},
        resumed <- parent # "suspended"

\* The parent goes on once, and only after every job has finished, however
\* the jobs, the starter and the wrappers interleave; and it does go on: no
\* continuation and no count is lost.
ImplementsFairJoin == J!FairSpec

\* What awaited the jobs comes to its end: the blocked thread of
\* waitOnAwaitable returns, and everything is destroyed.
AwaitCompletes == <>(starter = "returned" /\ parent = "ended" /\ ~alive)
=============================================================================
