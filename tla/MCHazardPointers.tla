-------------------------- MODULE MCHazardPointers --------------------------
(* HazardPointers for TLC.  Nothing distinguishes the addresses of nodes.    *)
EXTENDS HazardHistory, TLC

NodesAlike == Permutations(Nodes)

\* Bound: no step beyond the one that sets lapsed, which stays set: nothing that
\* HeldNotDestroyed says lies beyond it.
UntilLapsed == ~lapsed

\* Bound: the token has the first record.  With two records a collector finds nothing in
\* the one that is its own, so that the order of the two makes no difference.
TokenFirst == \A t \in Threads \ Tokenless : rec[t] = 1
=============================================================================
