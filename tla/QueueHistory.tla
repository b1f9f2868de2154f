---------------------------- MODULE QueueHistory ----------------------------
(***************************************************************************)
(* FAAArrayQueue with history variables that only observe: which enqueues  *)
(* ended before which began, and what a dequeue could know when it began.  *)
(* From them the promises of a linearizable FIFO queue are stated.  (The   *)
(* order of two overlapping enqueues is settled only by later dequeues, so *)
(* no refinement mapping to an abstract queue exists without prophecy.)    *)
(***************************************************************************)
EXTENDS FAAArrayQueue

VARIABLES
    ended,     \* items whose enqueue returned
    before,    \* per item, those whose enqueue had returned when its own began
    out,       \* items that a dequeue returned
    sawEmpty,  \* per consumer: did its current dequeue live through a moment
               \* with nothing left in the queue for it?
    heldReused \* was a node constructed anew that a hazard record held?

history == <<ended, before, out, sawEmpty, heldReused>>

HistoryInit ==
    /\ Init
    /\ ended = {} /\ out = {}
    /\ before = [x \in Items |-> {}]
    /\ sawEmpty = [t \in Consumers |-> FALSE]
    /\ heldReused = FALSE

\* Items in a slot that some consumer has claimed and not yet emptied.
Claimed == {node[ptr[t]].items[idx[t]] : t \in {c \in Consumers : At(c, "take")}}

\* Every item enqueued for good has a consumer.
NothingLeft == ended \subseteq out \cup Claimed

HazardHeld(n) == \E t \in Threads : ptr[t] = n

\* The ring hands out a node that a thread holds a hazard pointer to.
ReusesHeld == \E t \in Threads : At(t, "newNode") /\ pc'[t] = "casNext" /\ ring # <<>> /\ HazardHeld(ring[1])

Begins(t) == At(t, "idle") /\ pc'[t] # "idle"
Ends(t) == ~At(t, "idle") /\ pc'[t] = "idle"

Observe ==
    /\ ended' = ended \cup {arg[t] : t \in {p \in Producers : Ends(p)}}
    /\ out' = out \cup ({arg'[t] : t \in {c \in Consumers : Ends(c)}} \ {Null, Taken})
    /\ before' = [x \in Items |-> IF x \in fresh \ fresh' THEN ended ELSE before[x]]
    /\ sawEmpty' = [t \in Consumers |-> pc'[t] # "idle" /\ (NothingLeft' \/ (~Begins(t) /\ sawEmpty[t]))]
    /\ heldReused' = (heldReused \/ ReusesHeld)

HistoryNext == Next /\ Observe

HistorySpec == HistoryInit /\ [][HistoryNext]_<<vars, history>>

-----------------------------------------------------------------------------
\* The dequeue of t returns x, or nothing.
Returns(t, x) == Ends(t) /\ arg'[t] = x

\* What is in the queue is handed out once: no interleaving of consumers, of
\* slots taken back and of nodes constructed anew gives one job to two of them,
\* until a node is constructed anew that a hazard record holds.
ReturnedOnce ==
    [][\A t \in Consumers, x \in Items : ~heldReused /\ Returns(t, x) => x \notin out]_<<vars, history>>

\* First in, first out: when x is handed out, every item whose enqueue had
\* returned before that of x began is handed out already or claimed by a
\* consumer; none is overtaken or left behind in a slot or a node, until a node
\* is constructed anew that a hazard record holds.
FirstInFirstOut ==
    [][\A t \in Consumers, x \in Items :
           ~heldReused /\ Returns(t, x) => before[x] \subseteq out \cup Claimed]_<<vars, history>>

\* A dequeue comes back empty-handed only if at some moment of the call every
\* item whose enqueue had returned was handed out or claimed: nothing enqueued
\* is overlooked, which is what a worker relies on before it goes to sleep; until
\* a node is constructed anew that a hazard record holds.
EmptyIsHonest ==
    [][\A t \in Consumers : ~heldReused /\ Returns(t, Null) => sawEmpty[t]]_<<vars, history>>

\* "Consistency: Linearizable" (FAAArrayQueue.hpp): nothing enqueued is overlooked,
\* whatever nodes are reused.
NothingOverlooked == [][\A t \in Consumers : Returns(t, Null) => sawEmpty[t]]_<<vars, history>>
=============================================================================
