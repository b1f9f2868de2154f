--------------------------- MODULE HazardHistory ---------------------------
(***************************************************************************)
(* HazardPointers with a history variable that only observes: whether one  *)
(* of the three things has happened after which the records of the code no *)
(* longer protect what they name.                                          *)
(***************************************************************************)
EXTENDS HazardPointers

VARIABLE lapsed

\* The nodes that a record names, or that a thread is about to store in one.
Protected == {hazardPtr[r] : r \in Records} \cup {loaded[t] : t \in Threads}

\* dequeueDelete hands out a protected node, and it is constructed anew.
ReusesProtected == \E t \in Threads : At(t, "construct") /\ pc'[t] = "casNext" /\ new'[t] \in Protected

\* Two threads are in gcCollect at the same time.
CollectTogether == \E s, t \in Threads : s # t /\ pc[s] \in GcSteps /\ pc[t] \in GcSteps

\* setHazardPtr loads tail when head has overtaken it (the node was unlinked and
\* retired before tail was moved on), while another thread collects.
LoadsUnlinked ==
    \E c, t \in Threads :
        pc[c] \in GcSteps /\ pc[t] = "loadSource" /\ pc'[t] = "casPtr" /\ loaded'[t] \notin Linked

HistoryInit == Init /\ lapsed = FALSE

HistoryNext ==
    /\ Next
    /\ lapsed' = (lapsed \/ ReusesProtected \/ CollectTogether' \/ LoadsUnlinked)

HistorySpec == HistoryInit /\ [][HistoryNext]_<<vars, lapsed>>

-----------------------------------------------------------------------------
\* A thread works with the node setHazardPtr returned.
Using(t) == pc[t] \in {"use", "construct", "casNext", "casTail"} \/ (pc[t] \in RingSteps /\ goal[t] = "reuse")

UsedAreAllocated == \A t \in Threads : Using(t) => held[t] \notin heap

\* A node that setHazardPtr returned is not destroyed while it is used, whatever
\* state the collector found the record in (the pointer not loaded yet, loaded but
\* not stored, stored by the collector, or left over in a record that is used anew),
\* until one of three things happened, none of which the code prevents: a protected
\* node was constructed anew, two threads collected at once, or tail was loaded
\* after head had overtaken it, while another thread collected.
HeldNotDestroyed == ~lapsed => UsedAreAllocated

\* "Memory Reclamation: Hazard Pointers" (FAAArrayQueue.hpp): no thread works with
\* a node that is destroyed, whatever happened before.
NeverDestroyedInUse == UsedAreAllocated
=============================================================================
