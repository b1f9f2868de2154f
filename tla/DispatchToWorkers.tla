-------------------------- MODULE DispatchToWorkers --------------------------
(***************************************************************************)
(* A call of dispatch, diverge or parallelFor with what it meets at run    *)
(* time: DispatchPartition cuts the indices by the number of workers that  *)
(* are available when it asks, each group is enqueued as it is made, to    *)
(* the worker EnqueueTarget selects, and meanwhile other threads enqueue   *)
(* jobs, and other workers block and unblock themselves for calls of their *)
(* own.                                                                    *)
(***************************************************************************)
EXTENDS DispatchPartition, FiniteSets

CONSTANTS Wrap, MaxDrift    \* as in EnqueueTarget

VARIABLES
    caller,         \* the worker that calls, or WorkersCount: a thread that is none
    bSafeDispatch,
    counted, availabeWorkersCount,                    \* locals of getAvailableWorkersCount
    nextEnqToQ, blockedEnqCounter, guard, call, due,  \* EnqueueTarget
    received,       \* history: how many groups each worker got while undisturbed
    undisturbed     \* history: no one else interfered since the count of the workers began

Dispatcher == "dispatcher"

Target == INSTANCE EnqueueTarget WITH Enqueuers <- {Dispatcher}

ASSUME CallAssumption == Target!TargetAssumption

Workers == Target!Workers

targetVars == <<nextEnqToQ, blockedEnqCounter, guard, call, due>>
countVars == <<counted, availabeWorkersCount>>
callVars == <<caller, bSafeDispatch>>
historyVars == <<received, undisturbed>>
allVars == <<vars, targetVars, countVars, callVars, historyVars>>

\* parallelFor and parallelForReturn dispatch safely.  A safe call the caller
\* made before this one has left its mark on its counter.
CallInit ==
    /\ Init
    /\ caller \in 0 .. WorkersCount
    /\ nextEnqToQ = 0
    /\ \E unblocked \in SUBSET ({caller} \cap Workers) :
          blockedEnqCounter = [w \in Workers |-> IF w \in unblocked THEN -1 ELSE 0]
    /\ guard = [w \in Workers |-> "none"]
    /\ call = [t \in {Dispatcher} |-> Target!Idle]
    /\ due = [t \in {Dispatcher} |-> {}]
    /\ counted = 0 /\ availabeWorkersCount = 0
    /\ bSafeDispatch \in BOOLEAN /\ (step = "parallelFor" => bSafeDispatch)
    /\ received = [w \in Workers |-> 0]
    /\ undisturbed = FALSE

\* dispatch is about to make groups, and BlockWorkerEnq does something.
Groups == step = "dispatch" /\ count > 0 /\ returning /\ hasWorkers
Guarded == bSafeDispatch /\ caller \in Workers

\* Where the number of workers is asked for: in parallelFor, and in dispatch when the
\* caller's guard is made.
Counting == step = "parallelFor" \/ (Groups /\ (Guarded => guard[caller] = "held"))

\* Mutant of Available: a worker that was unblocked too often is left out.
AvailableExactly(w) == blockedEnqCounter[w] = 0

\* Mutant of Available: getWorkersCount in place of getAvailableWorkersCount.
AvailableAll(w) == TRUE

Available(w) == blockedEnqCounter[w] <= 0

\* One round of the loop of getAvailableWorkersCount: the counters are loaded one by
\* one.
CountWorker ==
    /\ Counting /\ counted < WorkersCount
    /\ availabeWorkersCount' = availabeWorkersCount + (IF Available(counted) THEN 1 ELSE 0)
    /\ counted' = counted + 1
    /\ undisturbed' = IF counted = 0 THEN Groups /\ \A w \in Workers : blockedEnqCounter[w] >= 0
                      ELSE undisturbed
    /\ UNCHANGED <<vars, targetVars, callVars, received>>

\* It returns, and its caller divides by what it returns.
CountReturns ==
    /\ Counting
    /\ counted = WorkersCount /\ counted' = 0
    /\ availabeWorkersCount # 0 /\ availabeWorkersCount' = 0
    /\ UNCHANGED <<targetVars, callVars, historyVars>>

CountForCaller ==
    /\ ParallelFor /\ CountReturns
    /\ count' = total - CallerShare(availabeWorkersCount)

DispatchElsewhere ==
    /\ DispatchNothing \/ DispatchSerially \/ DispatchOneGroup
    /\ UNCHANGED <<targetVars, countVars, callVars, historyVars>>

\* safetyBlock = BlockWorkerEnq{ jobSys }
MakeGuard ==
    /\ Groups /\ Guarded
    /\ Target!Block(caller, "temporary")
    /\ UNCHANGED <<vars, countVars, callVars, historyVars>>

CountForGroups ==
    /\ DispatchGroups /\ CountReturns
    /\ grpCount' = availabeWorkersCount

\* A group is made and its coroutine enqueues itself at its initial suspend.
MakeGroup ==
    /\ OneTask \/ GroupMore \/ GroupRest
    /\ groups' # groups
    /\ Target!BeginEnqueue(Dispatcher)
    /\ undisturbed' = (undisturbed /\ nextEnqToQ' > nextEnqToQ)
    /\ UNCHANGED <<countVars, callVars, received>>

\* The loops over the groups end, after the last group was enqueued.
EndGroups ==
    /\ call[Dispatcher].step = "idle"
    /\ OneTask \/ GroupMore \/ GroupRest
    /\ groups' = groups
    /\ UNCHANGED <<targetVars, countVars, callVars, historyVars>>

SelectWorker ==
    /\ Target!TestWorker(Dispatcher) \/ Target!NextWorker(Dispatcher)
    /\ undisturbed' = (undisturbed /\ nextEnqToQ' >= nextEnqToQ)
    /\ UNCHANGED <<vars, countVars, callVars, received>>

PushGroup ==
    /\ Target!Push(Dispatcher)
    /\ received' = IF undisturbed THEN [received EXCEPT ![call[Dispatcher].threadIdx] = @ + 1] ELSE received
    /\ UNCHANGED <<vars, countVars, callVars, undisturbed>>

\* The caller's guard: the temporary goes at once, the copy when dispatch ends.
EndGuard ==
    /\ caller \in Workers
    /\ \/ Target!DestroyTemporary(caller)
       \/ step = "done" /\ Target!Unblock(caller)
    /\ UNCHANGED <<vars, countVars, callVars, historyVars>>

\* Other workers dispatch, or hold a guard of their own.  Bounds: while the workers
\* are counted or a group is enqueued (in between it makes no difference when), and one
\* other worker at most dispatches, once, and makes no other guard after it.
OtherGuard(w) ==
    /\ w # caller /\ (Counting \/ call[Dispatcher].step # "idle")
    /\ \/ blockedEnqCounter[w] = 0 /\ Target!Block(w, "held")
       \/ /\ \A v \in Workers \ {caller} : <<guard[v], blockedEnqCounter[v]>> \in {<<"none", 0>>, <<"held", 1>>}
          /\ Target!Block(w, "temporary")
       \/ Target!DestroyTemporary(w) \/ Target!Unblock(w)
    /\ undisturbed' = FALSE
    /\ UNCHANGED <<vars, countVars, callVars, received>>

\* Other threads enqueue jobs.  Bound: while a group is enqueued.
OtherEnqueue ==
    /\ call[Dispatcher].step # "idle"
    /\ Target!DrawElsewhere
    /\ undisturbed' = FALSE
    /\ UNCHANGED <<vars, countVars, callVars, received>>

CallNext ==
    \/ CountWorker \/ CountForCaller \/ DispatchElsewhere \/ MakeGuard \/ CountForGroups
    \/ MakeGroup \/ EndGroups \/ SelectWorker \/ PushGroup \/ EndGuard
    \/ OtherEnqueue
    \/ \E w \in Workers : OtherGuard(w)

CallSpec == CallInit /\ [][CallNext]_allVars

-----------------------------------------------------------------------------
\* A job is forced upon a blocked worker only if every worker that was free all the
\* time of the call of enqueueJob came to another thread's call meanwhile, or the
\* counter wrapped and may have skipped it (what its assertion can rely on).
PrefersAvailable == Target!PrefersAvailable

\* A worker that dispatches never divides by zero, whatever the others block, also
\* between two loads of its count, unless it holds a guard of its own besides: it
\* counts itself.
DivisorPositive ==
    caller \in Workers /\ Counting /\ counted = WorkersCount => availabeWorkersCount > 0

\* If no one else changes a guard or enqueues a job while the workers are counted and
\* the groups made, no worker was unblocked too often before and the counter does not
\* wrap, then no worker gets two groups, although blocked workers are passed over:
\* there are as many groups as workers that accept one.
GroupsApart == undisturbed => \A w \in Workers : received[w] <= 1
=============================================================================
