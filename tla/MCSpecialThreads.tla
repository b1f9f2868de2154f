-------------------------- MODULE MCSpecialThreads --------------------------
(***************************************************************************)
(* Instances of SpecialThreads, with a history variable for the jobs that  *)
(* a call of waitForThreadSync found on the thread it waits for.  No step  *)
(* of the model reads it.                                                  *)
(***************************************************************************)
EXTENDS SpecialThreads

CONSTANTS c1, j1

MCWaiters == {c1, 1}
MCWaitsFor == [t \in Waiters |-> IF t = c1 THEN 1 ELSE 0]
MCEnqueueInThread == [j \in Jobs |-> 1]
MCPriorityOf == [j \in Jobs |-> PriorityLow]

VARIABLE earlier    \* per waiter

\* The jobs of lowest priority that thread s has queued or resumed.
LowJobs(s) == {j \in Jobs : /\ PriorityOf[j] = PriorityLow
                            /\ InQueue(s, j) \/ cur[s] = j}

MCInit == Init /\ earlier = [t \in Waiters |-> {}]

MCNext ==
    /\ Next
    /\ earlier' = [t \in Waiters |->
                     IF t \in waited' \ waited THEN LowJobs(WaitsFor[t])
                     ELSE earlier[t] \cap LowJobs(WaitsFor[t])']

MCSpec == MCInit /\ [][MCNext]_<<vars, earlier>>

MCFairSpec == MCSpec /\ Fairness

\* When waitForThreadSync returns, the jobs of lowest priority that the thread
\* had queued, or was running, when the call was made are behind it: each was
\* resumed and has finished, suspended or moved on.
EarlierJobsRan == \A t \in Waiters : call[t].phase = "wait" /\ waitFlag[t] => earlier[t] = {}
=============================================================================
