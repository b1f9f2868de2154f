----------------------------- MODULE MCMainLoop -----------------------------
(* An instance of MainLoop for TLC.                                          *)
EXTENDS MainLoop

CONSTANTS j1, j2, j3, t1, t2, t3

\* One critical job, and the others of the lowest priority.
MCPriorityOf == [j \in Jobs |-> IF j = j1 THEN 0 ELSE MaxPriority - 1]

\* A special thread, a worker and the supervisor.
MCPoolOf == [t \in PoolThreads |-> IF t = t1 THEN 1 ELSE IF t = t2 THEN 2 ELSE 3]
=============================================================================
