---------------------------- MODULE MCFAAArrayQueue ----------------------------
(* Values for TLC.  The number of nodes bounds how often the threads may burn  *)
(* the slots of a node and go on to the next one.                              *)
EXTENDS QueueHistory, TLC

CONSTANTS p1, p2, c1, c2

\* Threads, items and nodes are interchangeable.
Symmetries == Permutations(Producers) \cup Permutations(Consumers)
              \cup Permutations(Items) \cup Permutations(Nodes)

\* Bound: after a node in a hazard record was constructed anew the list may have a
\* circle, and the indices of its nodes grow for ever.
IndicesBounded == heldReused => \A n \in Nodes : node[n].enqidx <= 4 /\ node[n].deqidx <= 4
=============================================================================
