---------------------------- MODULE MCWorkerPool ----------------------------
(***************************************************************************)
(* Instances of WorkerPool for TLC.                                        *)
(***************************************************************************)
EXTENDS WorkerPool

CONSTANTS j1, j2, j3

\* One critical job, the others are of the lowest priority of the instance.
MCPriorityOf == [j \in Jobs |-> IF j = j1 THEN 0 ELSE MaxPriority - 1]
=============================================================================
