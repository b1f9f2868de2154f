-------------------------- MODULE MCWorkerPriority --------------------------
(***************************************************************************)
(* The order in which a worker takes jobs of different priorities, stated  *)
(* with a history variable that the pool's own steps never read.           *)
(***************************************************************************)
EXTENDS MCWorkerPool

VARIABLE late   \* per worker: the jobs enqueued where it looks, since it began to look

\* Worker w does not look at queues, or begins to look at the highest priority.
StartsAfresh(w) == pc'[w] # "scan" \/ pc[w] # "scan" \/ loop'[w] # loop[w]

\* The jobs this step puts into a queue of worker v.
Pushed(v) ==
    {call[t].job : t \in {u \in Threads :
        call[u].phase = "push" /\ call'[u].phase # "push" /\ call[u].target = v}}

PrioritySpec ==
    /\ Init /\ late = [w \in Workers |-> {}]
    /\ [][ /\ Next
           /\ late' = [w \in Workers |->
                         IF StartsAfresh(w) THEN {} ELSE late[w] \cup Pushed(from[w])]
         ]_<<vars, late>>

\* A worker takes a job of a lower priority only when every job of a higher
\* priority in the same worker's queues arrived after it began to look: the
\* loops over EJobPriority in doWorkerJobs start again at Priority_Critical
\* after each job, in its own queues and in its victim's.
PriorityOrder ==
    \A w \in Workers :
        pc[w] = "scan" /\ jobQ[from[w]][prio[w]] # <<>> =>
            \A p \in 0 .. prio[w] - 1 :
                \A i \in 1 .. Len(jobQ[from[w]][p]) : jobQ[from[w]][p][i] \in late[w]
=============================================================================
