---------------------------- MODULE EnqueueTarget ----------------------------
(***************************************************************************)
(* WorkerThreadsPool::enqueueJob chooses the worker whose queue gets the   *)
(* job: round robin over a counter all threads share, passing over workers *)
(* that BlockWorkerEnq has blocked because they are about to wait for what *)
(* they dispatch.  One action per atomic access.                           *)
(***************************************************************************)
EXTENDS Integers

CONSTANTS
    WorkersCount,
    Enqueuers,     \* threads that enqueue jobs to workers, whose calls are followed
    Wrap,          \* the counter is unsigned: 2^32 in the code
    MaxDrift       \* bound: no guard is made on a worker whose count is that far below 0

\* Stated as an assumption by the modules that instantiate this one.
TargetAssumption ==
    /\ WorkersCount \in Nat \ {0}
    /\ Wrap \in Nat /\ Wrap >= WorkersCount
    /\ MaxDrift \in Nat \ {0}

Workers == 0 .. WorkersCount - 1

VARIABLES
    nextEnqToQ,
    blockedEnqCounter,
    guard,     \* the BlockWorkerEnq of each worker
    call,      \* where a thread is in enqueueJob: step, threadIdx, checked
    due        \* history: the workers a call is bound to come to: free all the time
               \* of the call and not come to another's call meanwhile; none once
               \* the counter wrapped, which may skip some

vars == <<nextEnqToQ, blockedEnqCounter, guard, call, due>>

Steps == {"idle", "test", "next", "push", "force"}

TypeOK ==
    /\ nextEnqToQ \in 0 .. Wrap - 1
    /\ blockedEnqCounter \in [Workers -> -MaxDrift .. 1]
    /\ guard \in [Workers -> {"none", "temporary", "held"}]
    /\ call \in [Enqueuers -> [step : Steps, threadIdx : Workers, checked : 0 .. WorkersCount]]
    /\ due \in [Enqueuers -> SUBSET Workers]

Idle == [step |-> "idle", threadIdx |-> 0, checked |-> 0]

Init ==
    /\ nextEnqToQ = 0
    /\ blockedEnqCounter = [w \in Workers |-> 0]
    /\ guard = [w \in Workers |-> "none"]
    /\ call = [t \in Enqueuers |-> Idle]
    /\ due = [t \in Enqueuers |-> {}]

\* Mutant of FetchNext: the counter wraps at the number of workers less one.
FetchNextShort == nextEnqToQ' = (nextEnqToQ + 1) % (WorkersCount - 1)

\* nextEnqToQ.fetch_add(1)
FetchNext == nextEnqToQ' = (nextEnqToQ + 1) % Wrap

\* The worker that the draw comes to.
Drawn == nextEnqToQ % WorkersCount

\* Thread t draws from the counter; before, the workers of mine were due to its call.
Draw(t, mine) ==
    /\ FetchNext
    /\ due' = [u \in Enqueuers |-> IF nextEnqToQ = Wrap - 1 THEN {}
                                  ELSE IF u = t THEN mine ELSE due[u] \ {Drawn}]

\* A call that is not followed begins, or passes over a worker: that it draws is all
\* that the other calls see of it.
DrawElsewhere ==
    /\ FetchNext
    /\ due' = [u \in Enqueuers |-> IF nextEnqToQ = Wrap - 1 THEN {} ELSE due[u] \ {Drawn}]
    /\ UNCHANGED <<blockedEnqCounter, guard, call>>

BeginEnqueue(t) ==
    /\ call[t].step = "idle"
    /\ Draw(t, {w \in Workers : blockedEnqCounter[w] = 0})
    /\ call' = [call EXCEPT ![t] = [step |-> "test", threadIdx |-> Drawn, checked |-> 0]]
    /\ UNCHANGED <<blockedEnqCounter, guard>>

\* After the test of a worker.
AfterTest(t) ==
    IF blockedEnqCounter[call[t].threadIdx] = 0 THEN "push"
    ELSE IF call[t].checked < WorkersCount THEN "next" ELSE "force"

\* The condition of the loop: a blocked worker is passed over unless all have
\* been looked at, and then the job is forced upon it.
TestWorker(t) ==
    /\ call[t].step = "test"
    /\ call' = [call EXCEPT ![t].step = AfterTest(t)]
    /\ UNCHANGED <<nextEnqToQ, blockedEnqCounter, guard, due>>

NextWorker(t) ==
    /\ call[t].step = "next"
    /\ Draw(t, due[t])
    /\ call' = [call EXCEPT ![t] = [step |-> "test", threadIdx |-> Drawn, checked |-> @.checked + 1]]
    /\ UNCHANGED <<blockedEnqCounter, guard>>

\* The job goes into the queue of worker threadIdx (EnqueueJob of WorkerPool).
Push(t) ==
    /\ call[t].step \in {"push", "force"}
    /\ call' = [call EXCEPT ![t] = Idle]
    /\ due' = [due EXCEPT ![t] = {}]
    /\ UNCHANGED <<nextEnqToQ, blockedEnqCounter, guard>>

Changed(w, d) ==
    /\ blockedEnqCounter' = [blockedEnqCounter EXCEPT ![w] = @ + d]
    /\ due' = [t \in Enqueuers |-> {v \in due[t] : blockedEnqCounter'[v] = 0}]

\* BlockWorkerEnq{jobSys} on worker w: declared, so that it is held, or a
\* temporary that is then assigned to the guard, as in dispatch.
Block(w, made) ==
    /\ guard[w] = "none" /\ blockedEnqCounter[w] > -MaxDrift
    /\ Changed(w, 1)
    /\ guard' = [guard EXCEPT ![w] = made]
    /\ UNCHANGED <<nextEnqToQ, call>>

\* The copy keeps its job system, and so does the temporary it was copied
\* from, whose destructor unblocks the worker.
DestroyTemporary(w) ==
    /\ guard[w] = "temporary"
    /\ Changed(w, -1)
    /\ guard' = [guard EXCEPT ![w] = "held"]
    /\ UNCHANGED <<nextEnqToQ, call>>

\* ~BlockWorkerEnq
Unblock(w) ==
    /\ guard[w] = "held"
    /\ Changed(w, -1)
    /\ guard' = [guard EXCEPT ![w] = "none"]
    /\ UNCHANGED <<nextEnqToQ, call>>

Next ==
    \/ DrawElsewhere
    \/ \E t \in Enqueuers : BeginEnqueue(t) \/ TestWorker(t) \/ NextWorker(t) \/ Push(t)
    \/ \E w \in Workers : Block(w, "held") \/ Block(w, "temporary") \/ DestroyTemporary(w) \/ Unblock(w)

Spec == Init /\ [][Next]_vars

-----------------------------------------------------------------------------
\* A job is forced upon a blocked worker only if every worker that was free all the
\* time of the call came to another thread's call meanwhile, or the counter wrapped
\* and may have skipped it.  The assertion of enqueueJob says more, "no worker
\* available to accept new job", and fails in these two cases.
PrefersAvailable == \A t \in Enqueuers : call[t].step = "force" => due[t] = {}
=============================================================================
