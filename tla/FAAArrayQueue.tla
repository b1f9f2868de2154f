---------------------------- MODULE FAAArrayQueue ----------------------------
(***************************************************************************)
(* FAAArrayQueue and FAAArrayMPSCQueue, one atomic access per step: a      *)
(* linked list of array nodes in which enqueuers and dequeuers claim slots *)
(* by fetch-and-add.  The MPSC queue is the instance with one consumer:    *)
(* its dequeue makes the same accesses, its plain increment and its plain  *)
(* store of head have the effect of the fetch_add and of casHead when no   *)
(* other thread dequeues.                                                  *)
(*                                                                         *)
(* A drained node is put in the reuse ring that all queues share, from     *)
(* which the next enqueuer that needs a node takes it.  The ring is an     *)
(* atomic FIFO here, and setHazardPtr publishes the pointer it loads in    *)
(* one step.                                                               *)
(***************************************************************************)
EXTENDS Integers, Sequences, FiniteSets

CONSTANTS
    Producers, Consumers,   \* threads that enqueue, threads that dequeue
    Items,                  \* each is enqueued at most once
    NodeSize,               \* QUEUE_NODE_BUFFER_SIZE
    Nodes,                  \* addresses of nodes
    Null,                   \* nullptr
    Taken                   \* TAKEN_PTR

Slots == 0 .. NodeSize - 1
Threads == Producers \cup Consumers

ASSUME QueueAssumption ==
    /\ NodeSize \in Nat \ {0}
    /\ Nodes # {}
    /\ Producers \cap Consumers = {}
    /\ Null \notin Items \cup Nodes
    /\ Taken \notin Items \cup {Null}

VARIABLES
    node,    \* the memory of every node: items, enqidx, deqidx and next
    head, tail,
    ring,    \* sharedReuseBuffer
    unused,  \* nodes that are not allocated
    fresh,   \* items that no thread began to enqueue
    pc,      \* the access a thread makes next; "idle" outside an operation
    ptr,     \* ltail or lhead, which the thread's hazard record protects
    idx,     \* the slot the thread claimed, or the deqidx it loaded
    arg,     \* the item being enqueued; the result of the last dequeue
    aux      \* newNode or lnext

shared == <<node, head, tail, ring, unused>>
vars == <<shared, fresh, pc, ptr, idx, arg, aux>>

EnqueueSteps == {"loadTail", "claimEnq", "reloadTail", "loadNext", "newNode", "casNext", "casTail", "helpTail", "put"}
DequeueSteps == {"loadHead", "loadDeqidx", "loadEnqidx", "testNext", "claimDeq", "nextHead", "casHead", "retire", "take"}

TypeOK ==
    /\ node \in [Nodes -> [items : [Slots -> Items \cup {Null, Taken}],
                           enqidx : Nat, deqidx : Nat, next : Nodes \cup {Null}]]
    /\ head \in Nodes /\ tail \in Nodes
    /\ ring \in Seq(Nodes)
    /\ unused \in SUBSET Nodes
    /\ fresh \in SUBSET Items
    /\ \A t \in Producers : pc[t] \in EnqueueSteps \cup {"idle"}
    /\ \A t \in Consumers : pc[t] \in DequeueSteps \cup {"idle"}
    /\ ptr \in [Threads -> Nodes \cup {Null}]
    /\ idx \in [Threads -> Nat]
    /\ arg \in [Threads -> Items \cup {Null, Taken}] /\ \A t \in Producers : arg[t] # Taken
    /\ aux \in [Threads -> Nodes \cup {Null}]

\* FAAArrayQueueNode(item): the first slot is filled at construction.
NewNode(item) ==
    [items |-> [s \in Slots |-> IF s = 0 THEN item ELSE Null], enqidx |-> 1, deqidx |-> 0, next |-> Null]

Init ==
    /\ \E sentinel \in Nodes :
          /\ head = sentinel /\ tail = sentinel
          /\ unused = Nodes \ {sentinel}
    /\ node = [n \in Nodes |-> [NewNode(Null) EXCEPT !.enqidx = 0]]
    /\ ring = <<>>
    /\ fresh = Items
    /\ pc = [t \in Threads |-> "idle"]
    /\ ptr = [t \in Threads |-> Null]
    /\ idx = [t \in Threads |-> 0]
    /\ arg = [t \in Threads |-> Null]
    /\ aux = [t \in Threads |-> Null]

At(t, step) == pc[t] = step
Goto(t, step) == pc' = [pc EXCEPT ![t] = step]

\* The operation returns: hazardRecord.record->reset(), and nothing local is
\* left.
Return(t) ==
    /\ pc' = [pc EXCEPT ![t] = "idle"]
    /\ ptr' = [ptr EXCEPT ![t] = Null]
    /\ idx' = [idx EXCEPT ![t] = 0]
    /\ aux' = [aux EXCEPT ![t] = Null]

-----------------------------------------------------------------------------
(* enqueue                                                                  *)

\* setHazardPtr(tail), or setHazardPtr(head)
Protect(t, n, step) ==
    /\ ptr' = [ptr EXCEPT ![t] = n]
    /\ Goto(t, step)

\* A call begins with its first access to the queue.
BeginEnqueue(t, x) ==
    /\ At(t, "idle") /\ x \in fresh
    /\ fresh' = fresh \ {x}
    /\ arg' = [arg EXCEPT ![t] = x]
    /\ Protect(t, tail, "claimEnq")
    /\ UNCHANGED <<shared, idx, aux>>

LoadTail(t) ==
    /\ At(t, "loadTail")
    /\ Protect(t, tail, "claimEnq")
    /\ UNCHANGED <<shared, fresh, idx, arg, aux>>

\* enqidx.fetch_add
ClaimEnq(t) ==
    /\ At(t, "claimEnq")
    /\ idx' = [idx EXCEPT ![t] = node[ptr[t]].enqidx]
    /\ node' = [node EXCEPT ![ptr[t]].enqidx = @ + 1]
    /\ Goto(t, IF idx'[t] \in Slots THEN "put" ELSE "reloadTail")
    /\ UNCHANGED <<head, tail, ring, unused, fresh, ptr, arg, aux>>

\* The node is full; is it still the tail?
ReloadTail(t) ==
    /\ At(t, "reloadTail")
    /\ Goto(t, IF ptr[t] = tail THEN "loadNext" ELSE "loadTail")
    /\ UNCHANGED <<shared, fresh, ptr, idx, arg, aux>>

LoadNext(t) ==
    /\ At(t, "loadNext")
    /\ aux' = [aux EXCEPT ![t] = node[ptr[t]].next]
    /\ Goto(t, IF aux'[t] = Null THEN "newNode" ELSE "helpTail")
    /\ UNCHANGED <<shared, fresh, ptr, idx, arg>>

\* dequeueDelete: the oldest node of the ring, whoever has it in a hazard record,
\* or else a newly allocated one is constructed around the item.
AcquireNode(t) ==
    /\ At(t, "newNode")
    /\ \E n \in IF ring # <<>> THEN {ring[1]} ELSE unused :
          /\ ring' = IF ring # <<>> THEN Tail(ring) ELSE ring
          /\ unused' = unused \ {n}
          /\ node' = [node EXCEPT ![n] = NewNode(arg[t])]
          /\ aux' = [aux EXCEPT ![t] = n]
    /\ Goto(t, "casNext")
    /\ UNCHANGED <<head, tail, fresh, ptr, idx, arg>>

\* casNext(nullptr, newNode), or delete the node and start again.
LinkNode(t) ==
    /\ At(t, "casNext")
    /\ \/ /\ node[ptr[t]].next = Null
          /\ node' = [node EXCEPT ![ptr[t]].next = aux[t]]
          /\ Goto(t, "casTail")
          /\ UNCHANGED unused
       \/ /\ node[ptr[t]].next # Null
          /\ unused' = unused \cup {aux[t]}
          /\ Goto(t, "loadTail")
          /\ UNCHANGED node
    /\ UNCHANGED <<head, tail, ring, fresh, ptr, idx, arg, aux>>

SwingTail(t) == tail' = IF tail = ptr[t] THEN aux[t] ELSE tail

\* Mutant of FinishLink: the enqueuer does not return once its node is linked.
FinishLinkAgain(t) ==
    /\ At(t, "casTail")
    /\ SwingTail(t)
    /\ Goto(t, "loadTail")
    /\ UNCHANGED <<node, head, ring, unused, fresh, ptr, idx, arg, aux>>

\* casTail(ltail, newNode), and the item is in the queue.
FinishLink(t) ==
    /\ At(t, "casTail")
    /\ SwingTail(t)
    /\ arg' = [arg EXCEPT ![t] = Null]
    /\ Return(t)
    /\ UNCHANGED <<node, head, ring, unused, fresh>>

\* casTail(ltail, lnext) on behalf of the enqueuer that linked lnext.
HelpTail(t) ==
    /\ At(t, "helpTail")
    /\ SwingTail(t)
    /\ Goto(t, "loadTail")
    /\ UNCHANGED <<node, head, ring, unused, fresh, ptr, idx, arg, aux>>

\* Mutant of Put: a plain store, also into a slot that a dequeuer took.
PutAnyway(t) ==
    /\ At(t, "put")
    /\ node' = [node EXCEPT ![ptr[t]].items[idx[t]] = arg[t]]
    /\ arg' = [arg EXCEPT ![t] = Null]
    /\ Return(t)
    /\ UNCHANGED <<head, tail, ring, unused, fresh>>

\* The item goes into the claimed slot unless a dequeuer took the slot first.
Put(t) ==
    /\ At(t, "put")
    /\ \/ /\ node[ptr[t]].items[idx[t]] = Null
          /\ node' = [node EXCEPT ![ptr[t]].items[idx[t]] = arg[t]]
          /\ arg' = [arg EXCEPT ![t] = Null]
          /\ Return(t)
       \/ /\ node[ptr[t]].items[idx[t]] # Null
          /\ Goto(t, "loadTail")
          /\ UNCHANGED <<node, arg, ptr, idx, aux>>
    /\ UNCHANGED <<head, tail, ring, unused, fresh>>

-----------------------------------------------------------------------------
(* dequeue                                                                  *)

BeginDequeue(t) ==
    /\ At(t, "idle")
    /\ arg' = [arg EXCEPT ![t] = Null]
    /\ Protect(t, head, "loadDeqidx")
    /\ UNCHANGED <<shared, fresh, idx, aux>>

LoadHead(t) ==
    /\ At(t, "loadHead")
    /\ Protect(t, head, "loadDeqidx")
    /\ UNCHANGED <<shared, fresh, idx, arg, aux>>

LoadDeqidx(t) ==
    /\ At(t, "loadDeqidx")
    /\ idx' = [idx EXCEPT ![t] = node[ptr[t]].deqidx]
    /\ Goto(t, "loadEnqidx")
    /\ UNCHANGED <<shared, fresh, ptr, arg, aux>>

LoadEnqidx(t) ==
    /\ At(t, "loadEnqidx")
    /\ Goto(t, IF idx[t] >= node[ptr[t]].enqidx THEN "testNext" ELSE "claimDeq")
    /\ UNCHANGED <<shared, fresh, ptr, idx, arg, aux>>

\* The node is drained; the queue is empty if it is also the last one.
TestNext(t) ==
    /\ At(t, "testNext")
    /\ \/ node[ptr[t]].next = Null /\ Return(t)
       \/ node[ptr[t]].next # Null /\ Goto(t, "claimDeq") /\ UNCHANGED <<ptr, idx, aux>>
    /\ UNCHANGED <<shared, fresh, arg>>

\* deqidx.fetch_add
ClaimDeq(t) ==
    /\ At(t, "claimDeq")
    /\ idx' = [idx EXCEPT ![t] = node[ptr[t]].deqidx]
    /\ node' = [node EXCEPT ![ptr[t]].deqidx = @ + 1]
    /\ Goto(t, IF idx'[t] \in Slots THEN "take" ELSE "nextHead")
    /\ UNCHANGED <<head, tail, ring, unused, fresh, ptr, arg, aux>>

\* Mutant of NextHead: next is not compared with nullptr.
NextHeadUnchecked(t) ==
    /\ At(t, "nextHead")
    /\ aux' = [aux EXCEPT ![t] = node[ptr[t]].next]
    /\ Goto(t, "casHead")
    /\ UNCHANGED <<shared, fresh, ptr, idx, arg>>

\* All slots of the node are claimed: go on to the next node, if any.
NextHead(t) ==
    /\ At(t, "nextHead")
    /\ \/ node[ptr[t]].next = Null /\ Return(t)
       \/ /\ node[ptr[t]].next # Null
          /\ aux' = [aux EXCEPT ![t] = node[ptr[t]].next]
          /\ Goto(t, "casHead")
          /\ UNCHANGED <<ptr, idx>>
    /\ UNCHANGED <<shared, fresh, arg>>

\* casHead(lhead, lnext): the thread that wins resets its hazard record and
\* retires the node.
SwingHead(t) ==
    /\ At(t, "casHead")
    /\ \/ /\ head = ptr[t]
          /\ head' = aux[t]
          /\ aux' = [aux EXCEPT ![t] = ptr[t]]
          /\ ptr' = [ptr EXCEPT ![t] = Null]
          /\ Goto(t, "retire")
       \/ /\ head # ptr[t]
          /\ Goto(t, "loadHead")
          /\ UNCHANGED <<head, aux, ptr>>
    /\ UNCHANGED <<node, tail, ring, unused, fresh, idx, arg>>

\* enqueueDelete
Retire(t) ==
    /\ At(t, "retire")
    /\ ring' = Append(ring, aux[t])
    /\ Goto(t, "loadHead")
    /\ UNCHANGED <<node, head, tail, unused, fresh, ptr, idx, arg, aux>>

\* Mutant of Take: an empty slot is passed over and stays open for its enqueuer.
TakeUnmarked(t) ==
    /\ At(t, "take")
    /\ LET x == node[ptr[t]].items[idx[t]]
       IN  \/ /\ x # Null
              /\ node' = [node EXCEPT ![ptr[t]].items[idx[t]] = Taken]
              /\ arg' = [arg EXCEPT ![t] = x]
              /\ Return(t)
           \/ /\ x = Null
              /\ Goto(t, "loadHead")
              /\ UNCHANGED <<node, arg, ptr, idx, aux>>
    /\ UNCHANGED <<head, tail, ring, unused, fresh>>

\* items[idx].exchange(TAKEN): an empty slot is lost to its enqueuer.  Whatever else
\* is in it is returned, TAKEN too.
Take(t) ==
    /\ At(t, "take")
    /\ node' = [node EXCEPT ![ptr[t]].items[idx[t]] = Taken]
    /\ LET x == node[ptr[t]].items[idx[t]]
       IN  \/ /\ x # Null
              /\ arg' = [arg EXCEPT ![t] = x]
              /\ Return(t)
           \/ /\ x = Null
              /\ Goto(t, "loadHead")
              /\ UNCHANGED <<arg, ptr, idx, aux>>
    /\ UNCHANGED <<head, tail, ring, unused, fresh>>

-----------------------------------------------------------------------------
Produce(t) ==
    \/ \E x \in Items : BeginEnqueue(t, x)
    \/ LoadTail(t) \/ ClaimEnq(t) \/ ReloadTail(t) \/ LoadNext(t) \/ AcquireNode(t)
    \/ LinkNode(t) \/ FinishLink(t) \/ HelpTail(t) \/ Put(t)

Consume(t) ==
    \/ BeginDequeue(t) \/ LoadHead(t) \/ LoadDeqidx(t) \/ LoadEnqidx(t) \/ TestNext(t)
    \/ ClaimDeq(t) \/ NextHead(t) \/ SwingHead(t) \/ Retire(t) \/ Take(t)

Next == (\E t \in Producers : Produce(t)) \/ (\E t \in Consumers : Consume(t))

Spec == Init /\ [][Next]_vars
=============================================================================
