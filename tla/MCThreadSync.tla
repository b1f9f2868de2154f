---------------------------- MODULE MCThreadSync ----------------------------
(***************************************************************************)
(* Instances of ThreadSync, with a history variable for the jobs that were *)
(* enqueued before a call.  No step of the pool reads it.                  *)
(***************************************************************************)
EXTENDS ThreadSync

CONSTANTS c1, job1

MCWaiters == {c1, 0}
MCJobs == {job1} \cup SyncJobs
SyncPriorityOf == [j \in Jobs |-> PriorityLow]

VARIABLE earlier    \* per waiter: jobs of lowest priority that were queued when it called

\* The ordinary jobs in the queue of lowest priority of worker w.
QueuedLow(w) == {jobQ[w][PriorityLow][i] : i \in 1 .. Len(jobQ[w][PriorityLow])} \ SyncJobs

MCInit == SyncInit /\ earlier = [t \in Waiters |-> {}]

MCNext ==
    /\ SyncNext
    /\ earlier' = [t \in Waiters |->
                     IF sync[t] = "none" /\ sync'[t] = "push"
                     THEN UNION {QueuedLow(w) : w \in Synced(t)}
                     ELSE earlier[t] \cap (UNION {QueuedLow(w) : w \in Workers})']

MCSpec == MCInit /\ [][MCNext]_<<syncAllVars, earlier>>

MCFairSpec == MCSpec /\ SyncFairness

\* When waitForThreadSync returns, no job of the lowest priority that was
\* queued to a worker when it was called is still in its queue: the coroutines
\* of the call are behind it, and a stealing worker dequeues in the same order.
EarlierJobsTaken == \A t \in Waiters : sync[t] = "done" => earlier[t] = {}
=============================================================================
