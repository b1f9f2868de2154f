------------------------- MODULE FAAArrayQueueProofs -------------------------
(***************************************************************************)
(* Proofs about FAAArrayQueue and its history, for every number of         *)
(* producers, consumers, nodes, slots and items: an item is handed out     *)
(* once, in the order of the enqueues, and a dequeue that returns nothing  *)
(* saw the queue empty.  The invariant says of the nodes which are in the  *)
(* list and in which order, of their slots which were claimed, and of the  *)
(* items where each one is.                                                *)
(*                                                                         *)
(* The invariant holds until a node that some thread holds a hazard        *)
(* pointer to is taken from the ring for a new one, which heldReused       *)
(* records; nothing is assumed, and what breaks then is shown by the run   *)
(* queue_reuse.  The type invariant holds in any case.                     *)
(***************************************************************************)
EXTENDS QueueHistory, SequenceTheorems, TLAPS

(***************************************************************************)
(* Type correctness: a thread that uses a node has one.                    *)
(***************************************************************************)
HoldsNode ==
    \A t \in Threads :
        /\ pc[t] \notin {"idle", "loadTail", "loadHead", "retire"} => ptr[t] \in Nodes
        /\ pc[t] \in {"casNext", "casTail", "helpTail", "casHead", "retire"} => aux[t] \in Nodes
        /\ pc[t] \in {"put", "take"} => idx[t] \in Slots

TypeInv ==
    /\ TypeOK
    /\ pc \in [Threads -> EnqueueSteps \cup DequeueSteps \cup {"idle"}]
    /\ HoldsNode

NodeRecords == [items : [Slots -> Items \cup {Null, Taken}],
                enqidx : Nat, deqidx : Nat, next : Nodes \cup {Null}]

\* What the assumptions on the constants say of slots, threads and items.
LEMMA QueueFacts ==
  /\ NodeSize \in Nat \ {0} /\ 0 \in Slots /\ Slots \subseteq Nat
  /\ \A s \in Nat : s \in Slots <=> s < NodeSize
  /\ \A t \in Producers : t \in Threads /\ t \notin Consumers
  /\ \A t \in Consumers : t \in Threads /\ t \notin Producers
  /\ Null \notin Items /\ Null \notin Nodes /\ Taken \notin Items /\ Taken # Null
  BY QueueAssumption DEF Slots, Threads

\* A node made for an item is a node with that item in slot 0 and nothing else.
LEMMA NewNodeType ==
  ASSUME NEW x \in Items \cup {Null}
  PROVE  /\ NewNode(x) \in NodeRecords
         /\ NewNode(x).next = Null /\ NewNode(x).enqidx = 1 /\ NewNode(x).deqidx = 0
         /\ \A s \in Slots : NewNode(x).items[s] = IF s = 0 THEN x ELSE Null
  BY QueueFacts DEF NewNode, NodeRecords

\* A thread leaves alone what is local to the others.
Local(t) ==
    \A u \in Threads : u # t =>
        pc'[u] = pc[u] /\ ptr'[u] = ptr[u] /\ idx'[u] = idx[u] /\ aux'[u] = aux[u] /\ arg'[u] = arg[u]

\* The type invariant at the start.
LEMMA InitType == Init => TypeInv
  <1> SUFFICES ASSUME Init PROVE TypeInv
    OBVIOUS
  <1>1. node \in [Nodes -> NodeRecords]
    <2>1. [NewNode(Null) EXCEPT !.enqidx = 0] \in NodeRecords
      BY NewNodeType DEF NodeRecords
    <2>2. QED
      BY <2>1 DEF Init
  <1>2. head \in Nodes /\ tail \in Nodes /\ ring \in Seq(Nodes) /\ unused \in SUBSET Nodes
        /\ fresh \in SUBSET Items
    BY DEF Init
  <1>3. /\ ptr \in [Threads -> Nodes \cup {Null}] /\ idx \in [Threads -> Nat]
        /\ arg \in [Threads -> Items \cup {Null, Taken}] /\ aux \in [Threads -> Nodes \cup {Null}]
        /\ pc \in [Threads -> {"idle"}]
        /\ \A t \in Producers : arg[t] # Taken
    BY QueueFacts DEF Init
  <1>4. HoldsNode
    BY <1>3 DEF HoldsNode
  <1>5. /\ \A t \in Producers : pc[t] \in EnqueueSteps \cup {"idle"}
        /\ \A t \in Consumers : pc[t] \in DequeueSteps \cup {"idle"}
        /\ pc \in [Threads -> EnqueueSteps \cup DequeueSteps \cup {"idle"}]
    BY <1>3, QueueFacts
  <1>6. QED
    BY <1>1, <1>2, <1>3, <1>4, <1>5 DEF TypeInv, TypeOK, NodeRecords

(***************************************************************************)
(* The effect of each step on what is local to its thread and on the nodes.*)
(***************************************************************************)
IsFunction(f) == f = [t \in Threads |-> f[t]]
AreFunctions == IsFunction(pc) /\ IsFunction(ptr) /\ IsFunction(idx) /\ IsFunction(aux) /\ IsFunction(arg)

NodesTyped == node \in [Nodes -> NodeRecords]

\* The type invariant, for one thread.
LEMMA Typed ==
  ASSUME TypeInv, NEW t \in Threads
  PROVE  /\ NodesTyped
         /\ pc[t] \in EnqueueSteps \cup DequeueSteps \cup {"idle"}
         /\ ptr[t] \in Nodes \cup {Null} /\ idx[t] \in Nat
         /\ arg[t] \in Items \cup {Null, Taken} /\ aux[t] \in Nodes \cup {Null}
         /\ t \in Producers => arg[t] \in Items \cup {Null}
  BY DEF TypeInv, TypeOK, NodesTyped, NodeRecords

\* The indices of a node are natural numbers, its slots hold items or a mark.
LEMMA NodeTyped ==
  ASSUME NodesTyped, NEW n \in Nodes
  PROVE  /\ node[n] \in NodeRecords
         /\ node[n].enqidx \in Nat /\ node[n].deqidx \in Nat /\ node[n].next \in Nodes \cup {Null}
         /\ \A s \in Slots : node[n].items[s] \in Items \cup {Null, Taken}
  BY DEF NodesTyped, NodeRecords

\* What a step of enqueue or dequeue reads and writes, step by step: enqueue is called.
LEMMA BeginEnqueueEffect ==
  ASSUME TypeInv, NEW t \in Threads, NEW x \in Items, BeginEnqueue(t, x)
  PROVE  /\ Local(t) /\ AreFunctions'
         /\ pc[t] = "idle" /\ pc'[t] = "claimEnq"
         /\ ptr'[t] = tail /\ idx'[t] = idx[t] /\ aux'[t] = aux[t] /\ arg'[t] = x
         /\ x \in fresh /\ fresh' = fresh \ {x} /\ UNCHANGED shared
  BY DEF BeginEnqueue, Protect, At, Goto, Local, AreFunctions, IsFunction, TypeInv, TypeOK

\* The producer protects what tail points to.
LEMMA LoadTailEffect ==
  ASSUME TypeInv, NEW t \in Threads, LoadTail(t)
  PROVE  /\ Local(t) /\ AreFunctions'
         /\ pc[t] = "loadTail" /\ pc'[t] = "claimEnq"
         /\ ptr'[t] = tail /\ idx'[t] = idx[t] /\ aux'[t] = aux[t] /\ arg'[t] = arg[t]
         /\ UNCHANGED <<shared, fresh>>
  BY DEF LoadTail, Protect, At, Goto, Local, AreFunctions, IsFunction, TypeInv, TypeOK

\* A producer that got no slot tests whether its node is still tail.
LEMMA ReloadTailEffect ==
  ASSUME TypeInv, NEW t \in Threads, ReloadTail(t)
  PROVE  /\ Local(t) /\ AreFunctions'
         /\ pc[t] = "reloadTail" /\ pc'[t] \in {"loadNext", "loadTail"}
         /\ ptr'[t] = ptr[t] /\ idx'[t] = idx[t] /\ aux'[t] = aux[t] /\ arg'[t] = arg[t]
         /\ UNCHANGED <<shared, fresh>>
  BY DEF ReloadTail, At, Goto, Local, AreFunctions, IsFunction, TypeInv, TypeOK

\* It reads the successor of its node: none, or one to help in.
LEMMA LoadNextEffect ==
  ASSUME TypeInv, NEW t \in Threads, LoadNext(t)
  PROVE  /\ Local(t) /\ AreFunctions'
         /\ pc[t] = "loadNext"
         /\ pc'[t] = IF node[ptr[t]].next = Null THEN "newNode" ELSE "helpTail"
         /\ ptr'[t] = ptr[t] /\ idx'[t] = idx[t] /\ aux'[t] = node[ptr[t]].next /\ arg'[t] = arg[t]
         /\ UNCHANGED <<shared, fresh>>
  BY DEF LoadNext, At, Goto, Local, AreFunctions, IsFunction, TypeInv, TypeOK

\* dequeue is called.
LEMMA BeginDequeueEffect ==
  ASSUME TypeInv, NEW t \in Threads, BeginDequeue(t)
  PROVE  /\ Local(t) /\ AreFunctions'
         /\ pc[t] = "idle" /\ pc'[t] = "loadDeqidx"
         /\ ptr'[t] = head /\ idx'[t] = idx[t] /\ aux'[t] = aux[t] /\ arg'[t] = Null
         /\ UNCHANGED <<shared, fresh>>
  BY DEF BeginDequeue, Protect, At, Goto, Local, AreFunctions, IsFunction, TypeInv, TypeOK

\* The consumer protects what head points to.
LEMMA LoadHeadEffect ==
  ASSUME TypeInv, NEW t \in Threads, LoadHead(t)
  PROVE  /\ Local(t) /\ AreFunctions'
         /\ pc[t] = "loadHead" /\ pc'[t] = "loadDeqidx"
         /\ ptr'[t] = head /\ idx'[t] = idx[t] /\ aux'[t] = aux[t] /\ arg'[t] = arg[t]
         /\ UNCHANGED <<shared, fresh>>
  BY DEF LoadHead, Protect, At, Goto, Local, AreFunctions, IsFunction, TypeInv, TypeOK

\* It reads deqidx of its node.
LEMMA LoadDeqidxEffect ==
  ASSUME TypeInv, NEW t \in Threads, LoadDeqidx(t)
  PROVE  /\ Local(t) /\ AreFunctions'
         /\ pc[t] = "loadDeqidx" /\ pc'[t] = "loadEnqidx"
         /\ ptr'[t] = ptr[t] /\ idx'[t] = node[ptr[t]].deqidx /\ aux'[t] = aux[t] /\ arg'[t] = arg[t]
         /\ UNCHANGED <<shared, fresh>>
  BY DEF LoadDeqidx, At, Goto, Local, AreFunctions, IsFunction, TypeInv, TypeOK

\* It compares what it read with enqidx: there may be an item, or it looks for a next node.
LEMMA LoadEnqidxEffect ==
  ASSUME TypeInv, NEW t \in Threads, LoadEnqidx(t)
  PROVE  /\ Local(t) /\ AreFunctions'
         /\ pc[t] = "loadEnqidx"
         /\ pc'[t] = IF idx[t] >= node[ptr[t]].enqidx THEN "testNext" ELSE "claimDeq"
         /\ ptr'[t] = ptr[t] /\ idx'[t] = idx[t] /\ aux'[t] = aux[t] /\ arg'[t] = arg[t]
         /\ UNCHANGED <<shared, fresh>>
  BY DEF LoadEnqidx, At, Goto, Local, AreFunctions, IsFunction, TypeInv, TypeOK

\* Without a next node dequeue returns nothing.
LEMMA TestNextEffect ==
  ASSUME TypeInv, NEW t \in Threads, TestNext(t)
  PROVE  /\ Local(t) /\ AreFunctions'
         /\ pc[t] = "testNext" /\ arg'[t] = arg[t]
         /\ \/ pc'[t] = "idle" /\ node[ptr[t]].next = Null /\ ptr'[t] = Null /\ idx'[t] = 0 /\ aux'[t] = Null
            \/ pc'[t] = "claimDeq" /\ ptr'[t] = ptr[t] /\ idx'[t] = idx[t] /\ aux'[t] = aux[t]
         /\ UNCHANGED <<shared, fresh>>
  BY DEF TestNext, Return, At, Goto, Local, AreFunctions, IsFunction, TypeInv, TypeOK

\* A consumer that drew no slot reads the next node: dequeue returns nothing when there is none.
LEMMA NextHeadEffect ==
  ASSUME TypeInv, NEW t \in Threads, NextHead(t)
  PROVE  /\ Local(t) /\ AreFunctions'
         /\ pc[t] = "nextHead" /\ arg'[t] = arg[t]
         /\ \/ pc'[t] = "idle" /\ node[ptr[t]].next = Null /\ ptr'[t] = Null /\ idx'[t] = 0 /\ aux'[t] = Null
            \/ /\ pc'[t] = "casHead" /\ node[ptr[t]].next # Null /\ aux'[t] = node[ptr[t]].next
               /\ ptr'[t] = ptr[t] /\ idx'[t] = idx[t]
         /\ UNCHANGED <<shared, fresh>>
  BY DEF NextHead, Return, At, Goto, Local, AreFunctions, IsFunction, TypeInv, TypeOK

OthersKept(m) == \A n \in Nodes : n # m => node'[n] = node[n]

\* A claim of a slot by fetch_add.
LEMMA EnqidxAdded ==
  ASSUME NodesTyped, NEW m \in Nodes, node' = [node EXCEPT ![m].enqidx = @ + 1]
  PROVE  /\ NodesTyped' /\ OthersKept(m)
         /\ node'[m].enqidx = node[m].enqidx + 1 /\ node'[m].deqidx = node[m].deqidx
         /\ node'[m].items = node[m].items /\ node'[m].next = node[m].next
  <1>1. node'[m] = [node[m] EXCEPT !.enqidx = @ + 1] /\ node[m] \in NodeRecords
    BY DEF NodesTyped
  <1>2. [node[m] EXCEPT !.enqidx = @ + 1] \in NodeRecords
    BY <1>1 DEF NodeRecords
  <1>3. NodesTyped' /\ OthersKept(m)
    BY <1>1, <1>2 DEF NodesTyped, OthersKept
  <1> QED
    BY <1>1, <1>3 DEF NodeRecords

\* The same for deqidx.
LEMMA DeqidxAdded ==
  ASSUME NodesTyped, NEW m \in Nodes, node' = [node EXCEPT ![m].deqidx = @ + 1]
  PROVE  /\ NodesTyped' /\ OthersKept(m)
         /\ node'[m].enqidx = node[m].enqidx /\ node'[m].deqidx = node[m].deqidx + 1
         /\ node'[m].items = node[m].items /\ node'[m].next = node[m].next
  <1>1. node'[m] = [node[m] EXCEPT !.deqidx = @ + 1] /\ node[m] \in NodeRecords
    BY DEF NodesTyped
  <1>2. [node[m] EXCEPT !.deqidx = @ + 1] \in NodeRecords
    BY <1>1 DEF NodeRecords
  <1>3. NodesTyped' /\ OthersKept(m)
    BY <1>1, <1>2 DEF NodesTyped, OthersKept
  <1> QED
    BY <1>1, <1>3 DEF NodeRecords

\* A node is linked behind m.
LEMMA NextSet ==
  ASSUME NodesTyped, NEW m \in Nodes, NEW a \in Nodes, node' = [node EXCEPT ![m].next = a]
  PROVE  /\ NodesTyped' /\ OthersKept(m)
         /\ node'[m].enqidx = node[m].enqidx /\ node'[m].deqidx = node[m].deqidx
         /\ node'[m].items = node[m].items /\ node'[m].next = a
  <1>1. node'[m] = [node[m] EXCEPT !.next = a] /\ node[m] \in NodeRecords
    BY DEF NodesTyped
  <1>2. [node[m] EXCEPT !.next = a] \in NodeRecords
    BY <1>1 DEF NodeRecords
  <1>3. NodesTyped' /\ OthersKept(m)
    BY <1>1, <1>2 DEF NodesTyped, OthersKept
  <1> QED
    BY <1>1, <1>3 DEF NodeRecords

\* A slot of m is written.
LEMMA ItemSet ==
  ASSUME NodesTyped, NEW m \in Nodes, NEW i \in Slots, NEW x \in Items \cup {Null, Taken},
         node' = [node EXCEPT ![m].items[i] = x]
  PROVE  /\ NodesTyped' /\ OthersKept(m)
         /\ node'[m].enqidx = node[m].enqidx /\ node'[m].deqidx = node[m].deqidx
         /\ node'[m].next = node[m].next
         /\ \A s \in Slots : node'[m].items[s] = IF s = i THEN x ELSE node[m].items[s]
  <1>1. node'[m] = [node[m] EXCEPT !.items[i] = x] /\ node[m] \in NodeRecords
    BY DEF NodesTyped
  <1>2. [node[m] EXCEPT !.items[i] = x] \in NodeRecords
    BY <1>1 DEF NodeRecords
  <1>3. NodesTyped' /\ OthersKept(m)
    BY <1>1, <1>2 DEF NodesTyped, OthersKept
  <1> QED
    BY <1>1, <1>3 DEF NodeRecords

\* A node is made anew.
LEMMA NodeMade ==
  ASSUME NodesTyped, NEW m \in Nodes, NEW x \in Items \cup {Null}, node' = [node EXCEPT ![m] = NewNode(x)]
  PROVE  NodesTyped' /\ OthersKept(m) /\ node'[m] = NewNode(x)
  BY NewNodeType DEF NodesTyped, OthersKept

\* fetch_add on enqidx claims a slot, or none is left.
LEMMA ClaimEnqEffect ==
  ASSUME TypeInv, NEW t \in Threads, ClaimEnq(t)
  PROVE  /\ Local(t) /\ AreFunctions'
         /\ pc[t] = "claimEnq" /\ ptr[t] \in Nodes
         /\ pc'[t] = IF idx'[t] \in Slots THEN "put" ELSE "reloadTail"
         /\ ptr'[t] = ptr[t] /\ idx'[t] = node[ptr[t]].enqidx /\ aux'[t] = aux[t] /\ arg'[t] = arg[t]
         /\ NodesTyped' /\ OthersKept(ptr[t])
         /\ node'[ptr[t]].enqidx = node[ptr[t]].enqidx + 1 /\ node'[ptr[t]].deqidx = node[ptr[t]].deqidx
         /\ node'[ptr[t]].items = node[ptr[t]].items /\ node'[ptr[t]].next = node[ptr[t]].next
         /\ UNCHANGED <<head, tail, ring, unused, fresh>>
  <1>1. /\ Local(t) /\ AreFunctions'
        /\ pc[t] = "claimEnq" /\ ptr[t] \in Nodes
        /\ pc'[t] = IF idx'[t] \in Slots THEN "put" ELSE "reloadTail"
        /\ ptr'[t] = ptr[t] /\ idx'[t] = node[ptr[t]].enqidx /\ aux'[t] = aux[t] /\ arg'[t] = arg[t]
        /\ UNCHANGED <<head, tail, ring, unused, fresh>>
    BY DEF ClaimEnq, Local, AreFunctions, IsFunction, TypeInv, TypeOK, HoldsNode, At, Goto
  <1>2. PICK m \in Nodes : m = ptr[t]
    BY <1>1
  <1>3. node' = [node EXCEPT ![m].enqidx = @ + 1]
    BY <1>2 DEF ClaimEnq
  <1> QED
    BY <1>1, <1>2, <1>3, Typed, EnqidxAdded

\* fetch_add on deqidx claims a slot, or none is left.
LEMMA ClaimDeqEffect ==
  ASSUME TypeInv, NEW t \in Threads, ClaimDeq(t)
  PROVE  /\ Local(t) /\ AreFunctions'
         /\ pc[t] = "claimDeq" /\ ptr[t] \in Nodes
         /\ pc'[t] = IF idx'[t] \in Slots THEN "take" ELSE "nextHead"
         /\ ptr'[t] = ptr[t] /\ idx'[t] = node[ptr[t]].deqidx /\ aux'[t] = aux[t] /\ arg'[t] = arg[t]
         /\ NodesTyped' /\ OthersKept(ptr[t])
         /\ node'[ptr[t]].enqidx = node[ptr[t]].enqidx /\ node'[ptr[t]].deqidx = node[ptr[t]].deqidx + 1
         /\ node'[ptr[t]].items = node[ptr[t]].items /\ node'[ptr[t]].next = node[ptr[t]].next
         /\ UNCHANGED <<head, tail, ring, unused, fresh>>
  <1>1. /\ Local(t) /\ AreFunctions'
        /\ pc[t] = "claimDeq" /\ ptr[t] \in Nodes
        /\ pc'[t] = IF idx'[t] \in Slots THEN "take" ELSE "nextHead"
        /\ ptr'[t] = ptr[t] /\ idx'[t] = node[ptr[t]].deqidx /\ aux'[t] = aux[t] /\ arg'[t] = arg[t]
        /\ UNCHANGED <<head, tail, ring, unused, fresh>>
    BY DEF ClaimDeq, Local, AreFunctions, IsFunction, TypeInv, TypeOK, HoldsNode, At, Goto
  <1>2. PICK m \in Nodes : m = ptr[t]
    BY <1>1
  <1>3. node' = [node EXCEPT ![m].deqidx = @ + 1]
    BY <1>2 DEF ClaimDeq
  <1> QED
    BY <1>1, <1>2, <1>3, Typed, DeqidxAdded

\* A producer makes a node: of an unused one or of the oldest of the ring.
LEMMA AcquireNodeEffect ==
  ASSUME TypeInv, NEW t \in Threads, t \in Producers, AcquireNode(t)
  PROVE  \E n \in Nodes :
            /\ Local(t) /\ AreFunctions'
            /\ pc[t] = "newNode" /\ pc'[t] = "casNext"
            /\ ptr'[t] = ptr[t] /\ idx'[t] = idx[t] /\ aux'[t] = n /\ arg'[t] = arg[t]
            /\ NodesTyped' /\ OthersKept(n) /\ node'[n] = NewNode(arg[t])
            /\ UNCHANGED <<head, tail, fresh>> /\ unused' = unused \ {n}
            /\ \/ n \in unused /\ ring' = ring
               \/ ring # <<>> /\ n = ring[1] /\ ring' = Tail(ring)
  <1>1. PICK n \in IF ring # <<>> THEN {ring[1]} ELSE unused :
          /\ ring' = IF ring # <<>> THEN Tail(ring) ELSE ring
          /\ unused' = unused \ {n}
          /\ node' = [node EXCEPT ![n] = NewNode(arg[t])]
          /\ aux' = [aux EXCEPT ![t] = n]
    BY DEF AcquireNode
  <1>2. n \in Nodes
    BY <1>1 DEF TypeInv, TypeOK
  <1>3. /\ Local(t) /\ AreFunctions'
        /\ pc[t] = "newNode" /\ pc'[t] = "casNext"
        /\ ptr'[t] = ptr[t] /\ idx'[t] = idx[t] /\ aux'[t] = n /\ arg'[t] = arg[t]
        /\ UNCHANGED <<head, tail, fresh>>
    BY <1>1 DEF AcquireNode, Local, AreFunctions, IsFunction, TypeInv, TypeOK, HoldsNode, At, Goto
  <1>4. \/ n \in unused /\ ring' = ring
        \/ ring # <<>> /\ n = ring[1] /\ ring' = Tail(ring)
    BY <1>1
  <1> QED
    BY <1>1, <1>2, <1>3, <1>4, Typed, NodeMade

\* The CAS on next links the node of the producer, or the node is deleted.
LEMMA LinkNodeEffect ==
  ASSUME TypeInv, NEW t \in Threads, LinkNode(t)
  PROVE  /\ Local(t) /\ AreFunctions'
         /\ pc[t] = "casNext" /\ ptr[t] \in Nodes /\ aux[t] \in Nodes
         /\ ptr'[t] = ptr[t] /\ idx'[t] = idx[t] /\ aux'[t] = aux[t] /\ arg'[t] = arg[t]
         /\ UNCHANGED <<head, tail, ring, fresh>>
         /\ \/ /\ node[ptr[t]].next = Null /\ pc'[t] = "casTail" /\ UNCHANGED unused
               /\ NodesTyped' /\ OthersKept(ptr[t])
               /\ node'[ptr[t]].enqidx = node[ptr[t]].enqidx /\ node'[ptr[t]].deqidx = node[ptr[t]].deqidx
               /\ node'[ptr[t]].items = node[ptr[t]].items /\ node'[ptr[t]].next = aux[t]
            \/ /\ node[ptr[t]].next # Null /\ pc'[t] = "loadTail"
               /\ unused' = unused \cup {aux[t]} /\ UNCHANGED node
  <1>1. /\ Local(t) /\ AreFunctions'
        /\ pc[t] = "casNext" /\ ptr[t] \in Nodes /\ aux[t] \in Nodes
        /\ ptr'[t] = ptr[t] /\ idx'[t] = idx[t] /\ aux'[t] = aux[t] /\ arg'[t] = arg[t]
        /\ UNCHANGED <<head, tail, ring, fresh>>
    BY DEF LinkNode, Local, AreFunctions, IsFunction, TypeInv, TypeOK, HoldsNode, At, Goto
  <1>2. PICK m \in Nodes, n \in Nodes : m = ptr[t] /\ n = aux[t]
    BY <1>1
  <1>3. CASE node[m].next = Null
    <2>1. node' = [node EXCEPT ![m].next = n] /\ pc'[t] = "casTail" /\ UNCHANGED unused
      BY <1>2, <1>3 DEF LinkNode, Local, AreFunctions, IsFunction, TypeInv, TypeOK, HoldsNode, At, Goto
    <2> QED
      BY <1>1, <1>2, <1>3, <2>1, Typed, NextSet
  <1>4. CASE node[m].next # Null
    <2>1. /\ Goto(t, "loadTail") /\ unused' = unused \cup {aux[t]} /\ UNCHANGED node
      BY <1>2, <1>4 DEF LinkNode
    <2>2. pc'[t] = "loadTail"
      BY <2>1 DEF Goto, TypeInv, TypeOK
    <2> QED
      BY <1>1, <1>2, <1>4, <2>1, <2>2
  <1> QED
    BY <1>3, <1>4

\* The CAS on the slot stores the item, or a consumer marked the slot before.
LEMMA PutEffect ==
  ASSUME TypeInv, NEW t \in Threads, Put(t)
  PROVE  /\ Local(t) /\ AreFunctions'
         /\ pc[t] = "put" /\ ptr[t] \in Nodes /\ idx[t] \in Slots
         /\ UNCHANGED <<head, tail, ring, unused, fresh>>
         /\ \/ /\ node[ptr[t]].items[idx[t]] = Null
               /\ pc'[t] = "idle" /\ ptr'[t] = Null /\ idx'[t] = 0 /\ aux'[t] = Null /\ arg'[t] = Null
               /\ NodesTyped' /\ OthersKept(ptr[t])
               /\ node'[ptr[t]].enqidx = node[ptr[t]].enqidx /\ node'[ptr[t]].deqidx = node[ptr[t]].deqidx
               /\ node'[ptr[t]].next = node[ptr[t]].next
               /\ \A s \in Slots : node'[ptr[t]].items[s] = IF s = idx[t] THEN arg[t] ELSE node[ptr[t]].items[s]
            \/ /\ pc'[t] = "loadTail" /\ UNCHANGED node
               /\ ptr'[t] = ptr[t] /\ idx'[t] = idx[t] /\ aux'[t] = aux[t] /\ arg'[t] = arg[t]
  <1>1. /\ Local(t) /\ AreFunctions'
        /\ pc[t] = "put" /\ ptr[t] \in Nodes /\ idx[t] \in Slots
        /\ UNCHANGED <<head, tail, ring, unused, fresh>>
    BY DEF Put, Return, Local, AreFunctions, IsFunction, TypeInv, TypeOK, HoldsNode, At, Goto
  <1>2. PICK m \in Nodes, i \in Slots : m = ptr[t] /\ i = idx[t]
    BY <1>1
  <1>3. CASE node[m].items[i] = Null
    <2>1. /\ node' = [node EXCEPT ![m].items[i] = arg[t]]
          /\ pc'[t] = "idle" /\ ptr'[t] = Null /\ idx'[t] = 0 /\ aux'[t] = Null /\ arg'[t] = Null
      BY <1>2, <1>3 DEF Put, Return, Local, AreFunctions, IsFunction, TypeInv, TypeOK, HoldsNode, At, Goto
    <2>2. arg[t] \in Items \cup {Null, Taken} /\ NodesTyped
      BY Typed
    <2> QED
      BY <1>1, <1>2, <1>3, <2>1, <2>2, ItemSet
  <1>4. CASE node[m].items[i] # Null
    BY <1>1, <1>2, <1>4 DEF Put, Local, AreFunctions, IsFunction, TypeInv, TypeOK, HoldsNode, At, Goto
  <1> QED
    BY <1>3, <1>4

\* The exchange on the slot takes the item, or marks a slot that is not filled yet.
LEMMA TakeEffect ==
  ASSUME TypeInv, NEW t \in Threads, Take(t)
  PROVE  /\ Local(t) /\ AreFunctions'
         /\ pc[t] = "take" /\ ptr[t] \in Nodes /\ idx[t] \in Slots
         /\ UNCHANGED <<head, tail, ring, unused, fresh>>
         /\ NodesTyped' /\ OthersKept(ptr[t])
         /\ node'[ptr[t]].enqidx = node[ptr[t]].enqidx /\ node'[ptr[t]].deqidx = node[ptr[t]].deqidx
         /\ node'[ptr[t]].next = node[ptr[t]].next
         /\ \A s \in Slots : node'[ptr[t]].items[s] = IF s = idx[t] THEN Taken ELSE node[ptr[t]].items[s]
         /\ \/ /\ node[ptr[t]].items[idx[t]] \in Items \cup {Taken} /\ arg'[t] = node[ptr[t]].items[idx[t]]
               /\ pc'[t] = "idle" /\ ptr'[t] = Null /\ idx'[t] = 0 /\ aux'[t] = Null
            \/ /\ node[ptr[t]].items[idx[t]] = Null /\ pc'[t] = "loadHead"
               /\ ptr'[t] = ptr[t] /\ idx'[t] = idx[t] /\ aux'[t] = aux[t] /\ arg'[t] = arg[t]
  <1>1. /\ Local(t) /\ AreFunctions'
        /\ pc[t] = "take" /\ ptr[t] \in Nodes /\ idx[t] \in Slots
        /\ UNCHANGED <<head, tail, ring, unused, fresh>>
    BY DEF Take, Return, Local, AreFunctions, IsFunction, TypeInv, TypeOK, HoldsNode, At, Goto
  <1>2. PICK m \in Nodes, i \in Slots : m = ptr[t] /\ i = idx[t]
    BY <1>1
  <1>3. node' = [node EXCEPT ![m].items[i] = Taken]
    BY <1>2 DEF Take
  <1>4. \/ /\ node[m].items[i] \in Items \cup {Taken} /\ arg'[t] = node[m].items[i]
           /\ pc'[t] = "idle" /\ ptr'[t] = Null /\ idx'[t] = 0 /\ aux'[t] = Null
        \/ /\ node[m].items[i] = Null /\ pc'[t] = "loadHead"
           /\ ptr'[t] = ptr[t] /\ idx'[t] = idx[t] /\ aux'[t] = aux[t] /\ arg'[t] = arg[t]
    BY <1>2 DEF Take, Return, Local, AreFunctions, IsFunction, TypeInv, TypeOK, HoldsNode, At, Goto
  <1>5. /\ NodesTyped' /\ OthersKept(m)
        /\ node'[m].enqidx = node[m].enqidx /\ node'[m].deqidx = node[m].deqidx
        /\ node'[m].next = node[m].next
        /\ \A s \in Slots : node'[m].items[s] = IF s = i THEN Taken ELSE node[m].items[s]
    <2>1. NodesTyped /\ Taken \in Items \cup {Null, Taken}
      BY Typed
    <2> QED
      BY <1>3, <2>1, ItemSet
  <1> QED
    BY <1>1, <1>2, <1>4, <1>5

\* The CAS on tail, of the producer that linked a node or of one that helps.
LEMMA SwingTailEffect ==
  ASSUME TypeInv, NEW t \in Threads, FinishLink(t) \/ HelpTail(t)
  PROVE  /\ Local(t) /\ AreFunctions'
         /\ ptr[t] \in Nodes /\ aux[t] \in Nodes
         /\ \/ /\ pc[t] = "casTail" /\ pc'[t] = "idle"
               /\ ptr'[t] = Null /\ idx'[t] = 0 /\ aux'[t] = Null /\ arg'[t] = Null
            \/ /\ pc[t] = "helpTail" /\ pc'[t] = "loadTail"
               /\ ptr'[t] = ptr[t] /\ idx'[t] = idx[t] /\ aux'[t] = aux[t] /\ arg'[t] = arg[t]
         /\ tail' = IF tail = ptr[t] THEN aux[t] ELSE tail
         /\ UNCHANGED <<node, head, ring, unused, fresh>>
  BY DEF FinishLink, HelpTail, SwingTail, Return, Local, AreFunctions, IsFunction, TypeInv, TypeOK, HoldsNode, At, Goto

\* The CAS on head, after which the node that was head is retired.
LEMMA SwingHeadEffect ==
  ASSUME TypeInv, NEW t \in Threads, SwingHead(t)
  PROVE  /\ Local(t) /\ AreFunctions'
         /\ pc[t] = "casHead" /\ ptr[t] \in Nodes /\ aux[t] \in Nodes
         /\ idx'[t] = idx[t] /\ arg'[t] = arg[t]
         /\ \/ /\ head = ptr[t] /\ head' = aux[t] /\ aux'[t] = ptr[t] /\ ptr'[t] = Null /\ pc'[t] = "retire"
            \/ /\ head # ptr[t] /\ head' = head /\ aux'[t] = aux[t] /\ ptr'[t] = ptr[t] /\ pc'[t] = "loadHead"
         /\ UNCHANGED <<node, tail, ring, unused, fresh>>
  BY DEF SwingHead, Local, AreFunctions, IsFunction, TypeInv, TypeOK, HoldsNode, At, Goto

\* A retired node goes to the end of the ring.
LEMMA RetireEffect ==
  ASSUME TypeInv, NEW t \in Threads, Retire(t)
  PROVE  /\ Local(t) /\ AreFunctions'
         /\ pc[t] = "retire" /\ pc'[t] = "loadHead" /\ aux[t] \in Nodes
         /\ ptr'[t] = ptr[t] /\ idx'[t] = idx[t] /\ aux'[t] = aux[t] /\ arg'[t] = arg[t]
         /\ ring' = Append(ring, aux[t])
         /\ UNCHANGED <<node, head, tail, unused, fresh>>
  BY DEF Retire, Local, AreFunctions, IsFunction, TypeInv, TypeOK, HoldsNode, At, Goto

(***************************************************************************)
(* TypeInv, thread by thread, and its preservation.                        *)
(***************************************************************************)
SharedTyped ==
    /\ NodesTyped /\ head \in Nodes /\ tail \in Nodes
    /\ ring \in Seq(Nodes) /\ unused \in SUBSET Nodes /\ fresh \in SUBSET Items

ThreadTyped(t) ==
    /\ t \in Producers => pc[t] \in EnqueueSteps \cup {"idle"}
    /\ t \in Consumers => pc[t] \in DequeueSteps \cup {"idle"}
    /\ ptr[t] \in Nodes \cup {Null} /\ idx[t] \in Nat
    /\ arg[t] \in Items \cup {Null, Taken} /\ (t \in Producers => arg[t] # Taken)
    /\ aux[t] \in Nodes \cup {Null}
    /\ pc[t] \notin {"idle", "loadTail", "loadHead", "retire"} => ptr[t] \in Nodes
    /\ pc[t] \in {"casNext", "casTail", "helpTail", "casHead", "retire"} => aux[t] \in Nodes
    /\ pc[t] \in {"put", "take"} => idx[t] \in Slots

ThreadsTyped == \A t \in Threads : ThreadTyped(t)

\* The type invariant is what it says of each thread and of what they share.
LEMMA TypeSplit == TypeInv <=> SharedTyped /\ AreFunctions /\ ThreadsTyped
  <1>1. ASSUME TypeInv PROVE SharedTyped /\ AreFunctions /\ ThreadsTyped
    BY <1>1 DEF ThreadsTyped, TypeInv, TypeOK, HoldsNode, SharedTyped, NodesTyped, NodeRecords, AreFunctions, IsFunction, ThreadTyped
  <1>2. ASSUME SharedTyped, AreFunctions, ThreadsTyped PROVE TypeInv
    <2>1. \A t \in Threads : t \in Producers \/ t \in Consumers
      BY DEF Threads
    <2>2. \A t \in Producers \cup Consumers : t \in Threads
      BY DEF Threads
    <2>3. HoldsNode
      BY <1>2 DEF ThreadsTyped, ThreadTyped, HoldsNode
    <2>4. pc \in [Threads -> EnqueueSteps \cup DequeueSteps \cup {"idle"}]
      <3>1. \A t \in Threads : pc[t] \in EnqueueSteps \cup DequeueSteps \cup {"idle"}
        BY <1>2, <2>1 DEF ThreadsTyped, ThreadTyped
      <3> QED
        BY <1>2, <3>1 DEF AreFunctions, IsFunction
    <2>5. /\ ptr \in [Threads -> Nodes \cup {Null}] /\ idx \in [Threads -> Nat]
          /\ arg \in [Threads -> Items \cup {Null, Taken}] /\ aux \in [Threads -> Nodes \cup {Null}]
      BY <1>2 DEF AreFunctions, IsFunction, ThreadsTyped, ThreadTyped
    <2>6. /\ \A t \in Producers : pc[t] \in EnqueueSteps \cup {"idle"} /\ arg[t] # Taken
          /\ \A t \in Consumers : pc[t] \in DequeueSteps \cup {"idle"}
      BY <1>2, <2>2 DEF ThreadsTyped, ThreadTyped
    <2> QED
      BY <1>2, <2>3, <2>4, <2>5, <2>6 DEF TypeInv, TypeOK, SharedTyped, NodesTyped, NodeRecords
  <1> QED
    BY <1>1, <1>2

\* One thread makes a step: what is to be shown for TypeInv'.
StepTyped(t) == Local(t) /\ AreFunctions' /\ SharedTyped' /\ ThreadTyped(t)'

\* A step of one thread keeps the type invariant when it does so for that thread.
LEMMA TypeKept ==
  ASSUME TypeInv, NEW t \in Threads, StepTyped(t)
  PROVE  TypeInv'
  <1>1. \A u \in Threads : ThreadTyped(u)
    BY TypeSplit DEF ThreadsTyped
  <1>2. ASSUME NEW u \in Threads PROVE ThreadTyped(u)'
    <2>1. CASE u = t
      BY <2>1 DEF StepTyped
    <2>2. CASE u # t
      BY <1>1, <2>2 DEF StepTyped, ThreadTyped, Local
    <2> QED
      BY <2>1, <2>2
  <1>3. ThreadsTyped'
    BY <1>2 DEF ThreadsTyped
  <1>4. (TypeInv <=> SharedTyped /\ AreFunctions /\ ThreadsTyped)'
    BY TypeSplit, PTL
  <1> QED
    BY <1>3, <1>4 DEF StepTyped

\* The ring without its oldest node.
LEMMA TailOfRing ==
  ASSUME NEW q \in Seq(Nodes), q # <<>>
  PROVE  /\ Tail(q) \in Seq(Nodes) /\ 1 \in DOMAIN q
         /\ \A i \in DOMAIN Tail(q) : i + 1 \in DOMAIN q /\ Tail(q)[i] = q[i + 1]
         /\ \A i \in DOMAIN q : i # 1 => i - 1 \in DOMAIN Tail(q) /\ Tail(q)[i - 1] = q[i]
  <1>1. /\ Tail(q) \in Seq(Nodes) /\ Len(Tail(q)) = Len(q) - 1
        /\ \A i \in 1 .. Len(Tail(q)) : Tail(q)[i] = q[i + 1]
    BY HeadTailProperties
  <1>2. Len(q) \in Nat \ {0} /\ DOMAIN q = 1 .. Len(q) /\ DOMAIN Tail(q) = 1 .. Len(q) - 1
    BY <1>1, EmptySeq, LenProperties
  <1> QED
    BY <1>1, <1>2

\* The ring with one more node.
LEMMA RingAppended ==
  ASSUME NEW q \in Seq(Nodes), NEW n \in Nodes
  PROVE  /\ Append(q, n) \in Seq(Nodes)
         /\ \A i \in DOMAIN q : i \in DOMAIN Append(q, n) /\ Append(q, n)[i] = q[i]
         /\ \E k \in DOMAIN Append(q, n) : /\ Append(q, n)[k] = n
                                          /\ \A i \in DOMAIN Append(q, n) : i = k \/ i \in DOMAIN q
  <1>1. /\ Append(q, n) \in Seq(Nodes) /\ Len(Append(q, n)) = Len(q) + 1
        /\ \A i \in 1 .. Len(q) : Append(q, n)[i] = q[i]
        /\ Append(q, n)[Len(q) + 1] = n
    BY AppendProperties
  <1>2. Len(q) \in Nat /\ DOMAIN q = 1 .. Len(q) /\ DOMAIN Append(q, n) = 1 .. Len(q) + 1
    BY <1>1, LenProperties
  <1>3. Len(q) + 1 \in DOMAIN Append(q, n) /\ \A i \in DOMAIN Append(q, n) : i = Len(q) + 1 \/ i \in DOMAIN q
    BY <1>2
  <1> QED
    BY <1>1, <1>2, <1>3

\* The steps of a producer keep the type invariant.
LEMMA ProduceType ==
  ASSUME TypeInv, NEW t \in Producers, Produce(t)
  PROVE  TypeInv'
  <1>1. t \in Threads /\ t \notin Consumers
    BY QueueFacts
  <1>2. SharedTyped /\ ThreadTyped(t)
    BY <1>1, TypeSplit DEF ThreadsTyped
  <1>3. CASE \E x \in Items : BeginEnqueue(t, x)
    <2>1. StepTyped(t)
      BY <1>1, <1>2, <1>3, BeginEnqueueEffect, QueueFacts
         DEF StepTyped, ThreadTyped, EnqueueSteps, DequeueSteps, SharedTyped, shared, NodesTyped
    <2> QED
      BY <1>1, <2>1, TypeKept
  <1>4. CASE LoadTail(t)
    <2>1. StepTyped(t)
      BY <1>1, <1>2, <1>4, LoadTailEffect
         DEF StepTyped, ThreadTyped, EnqueueSteps, DequeueSteps, SharedTyped, shared, NodesTyped
    <2> QED
      BY <1>1, <2>1, TypeKept
  <1>5. CASE ReloadTail(t)
    <2>1. StepTyped(t)
      BY <1>1, <1>2, <1>5, ReloadTailEffect
         DEF StepTyped, ThreadTyped, EnqueueSteps, DequeueSteps, SharedTyped, shared, NodesTyped
    <2> QED
      BY <1>1, <2>1, TypeKept
  <1>6. CASE LoadNext(t)
    <2>1. StepTyped(t)
      BY <1>1, <1>2, <1>6, LoadNextEffect, NodeTyped
         DEF StepTyped, ThreadTyped, EnqueueSteps, DequeueSteps, SharedTyped, shared, NodesTyped
    <2> QED
      BY <1>1, <2>1, TypeKept
  <1>7. CASE ClaimEnq(t)
    <2>1. StepTyped(t)
      BY <1>1, <1>2, <1>7, ClaimEnqEffect, NodeTyped
         DEF StepTyped, ThreadTyped, EnqueueSteps, DequeueSteps, SharedTyped
    <2> QED
      BY <1>1, <2>1, TypeKept
  <1>8. CASE AcquireNode(t)
    <2>1. ring' \in Seq(Nodes)
      BY <1>1, <1>2, <1>8, AcquireNodeEffect, TailOfRing DEF SharedTyped
    <2>2. StepTyped(t)
      BY <1>1, <1>2, <1>8, <2>1, AcquireNodeEffect
         DEF StepTyped, ThreadTyped, EnqueueSteps, DequeueSteps, SharedTyped
    <2> QED
      BY <1>1, <2>2, TypeKept
  <1>9. CASE LinkNode(t)
    <2>1. StepTyped(t)
      BY <1>1, <1>2, <1>9, LinkNodeEffect
         DEF StepTyped, ThreadTyped, EnqueueSteps, DequeueSteps, SharedTyped, NodesTyped
    <2> QED
      BY <1>1, <2>1, TypeKept
  <1>10. CASE FinishLink(t) \/ HelpTail(t)
    <2>1. StepTyped(t)
      BY <1>1, <1>2, <1>10, SwingTailEffect, QueueFacts
         DEF StepTyped, ThreadTyped, EnqueueSteps, DequeueSteps, SharedTyped, NodesTyped
    <2> QED
      BY <1>1, <2>1, TypeKept
  <1>11. CASE Put(t)
    <2>1. StepTyped(t)
      BY <1>1, <1>2, <1>11, PutEffect, QueueFacts
         DEF StepTyped, ThreadTyped, EnqueueSteps, DequeueSteps, SharedTyped, NodesTyped
    <2> QED
      BY <1>1, <2>1, TypeKept
  <1> QED
    BY <1>3, <1>4, <1>5, <1>6, <1>7, <1>8, <1>9, <1>10, <1>11 DEF Produce

\* The steps of a consumer keep the type invariant.
LEMMA ConsumeType ==
  ASSUME TypeInv, NEW t \in Consumers, Consume(t)
  PROVE  TypeInv'
  <1>1. t \in Threads /\ t \notin Producers
    BY QueueFacts
  <1>2. SharedTyped /\ ThreadTyped(t)
    BY <1>1, TypeSplit DEF ThreadsTyped
  <1>3. CASE BeginDequeue(t)
    <2>1. StepTyped(t)
      BY <1>1, <1>2, <1>3, BeginDequeueEffect
         DEF StepTyped, ThreadTyped, EnqueueSteps, DequeueSteps, SharedTyped, shared, NodesTyped
    <2> QED
      BY <1>1, <2>1, TypeKept
  <1>4. CASE LoadHead(t)
    <2>1. StepTyped(t)
      BY <1>1, <1>2, <1>4, LoadHeadEffect
         DEF StepTyped, ThreadTyped, EnqueueSteps, DequeueSteps, SharedTyped, shared, NodesTyped
    <2> QED
      BY <1>1, <2>1, TypeKept
  <1>5. CASE LoadDeqidx(t)
    <2>1. StepTyped(t)
      BY <1>1, <1>2, <1>5, LoadDeqidxEffect, NodeTyped
         DEF StepTyped, ThreadTyped, EnqueueSteps, DequeueSteps, SharedTyped, shared, NodesTyped
    <2> QED
      BY <1>1, <2>1, TypeKept
  <1>6. CASE LoadEnqidx(t)
    <2>1. StepTyped(t)
      BY <1>1, <1>2, <1>6, LoadEnqidxEffect
         DEF StepTyped, ThreadTyped, EnqueueSteps, DequeueSteps, SharedTyped, shared, NodesTyped
    <2> QED
      BY <1>1, <2>1, TypeKept
  <1>7. CASE TestNext(t)
    <2>1. StepTyped(t)
      BY <1>1, <1>2, <1>7, TestNextEffect
         DEF StepTyped, ThreadTyped, EnqueueSteps, DequeueSteps, SharedTyped, shared, NodesTyped
    <2> QED
      BY <1>1, <2>1, TypeKept
  <1>8. CASE ClaimDeq(t)
    <2>1. StepTyped(t)
      BY <1>1, <1>2, <1>8, ClaimDeqEffect, NodeTyped
         DEF StepTyped, ThreadTyped, EnqueueSteps, DequeueSteps, SharedTyped
    <2> QED
      BY <1>1, <2>1, TypeKept
  <1>9. CASE NextHead(t)
    <2>1. StepTyped(t)
      BY <1>1, <1>2, <1>9, NextHeadEffect, NodeTyped
         DEF StepTyped, ThreadTyped, EnqueueSteps, DequeueSteps, SharedTyped, shared, NodesTyped
    <2> QED
      BY <1>1, <2>1, TypeKept
  <1>10. CASE SwingHead(t)
    <2>1. StepTyped(t)
      BY <1>1, <1>2, <1>10, SwingHeadEffect
         DEF StepTyped, ThreadTyped, EnqueueSteps, DequeueSteps, SharedTyped, NodesTyped
    <2> QED
      BY <1>1, <2>1, TypeKept
  <1>11. CASE Retire(t)
    <2>1. ring' \in Seq(Nodes)
      BY <1>1, <1>2, <1>11, RetireEffect DEF SharedTyped
    <2>2. StepTyped(t)
      BY <1>1, <1>2, <1>11, <2>1, RetireEffect
         DEF StepTyped, ThreadTyped, EnqueueSteps, DequeueSteps, SharedTyped, NodesTyped
    <2> QED
      BY <1>1, <2>2, TypeKept
  <1>12. CASE Take(t)
    <2>1. StepTyped(t)
      BY <1>1, <1>2, <1>12, TakeEffect
         DEF StepTyped, ThreadTyped, EnqueueSteps, DequeueSteps, SharedTyped, NodesTyped
    <2> QED
      BY <1>1, <2>1, TypeKept
  <1> QED
    BY <1>3, <1>4, <1>5, <1>6, <1>7, <1>8, <1>9, <1>10, <1>11, <1>12 DEF Consume

\* Every step keeps the type invariant.
LEMMA NextType == TypeInv /\ [Next]_vars => TypeInv'
  <1>1. ASSUME TypeInv, UNCHANGED vars PROVE TypeInv'
    BY <1>1 DEF vars, shared, TypeInv, TypeOK, HoldsNode
  <1> QED
    BY <1>1, ProduceType, ConsumeType DEF Next

(* Type correctness of the queue, whatever nodes are reused and however     *)
(* often a slot is taken: the loads, the CASes and the fetch_adds of        *)
(* enqueue and dequeue leave each thread a node while it works on one, and  *)
(* a slot of the node while it writes one.                                  *)
THEOREM TypeCorrect == Spec => []TypeOK
  <1>1. TypeInv => TypeOK
    BY DEF TypeInv
  <1> QED
    BY <1>1, InitType, NextType, PTL DEF Spec

(***************************************************************************)
(* The nodes.  A node is unused, or built by one producer, or visible; a   *)
(* visible node is retired (in the ring, or on its way to it) or in the    *)
(* list from head on.  r ranks the visible nodes in the order in which     *)
(* they were linked: next goes up by one, what is retired is below head,   *)
(* and at most one node is linked beyond tail.                             *)
(***************************************************************************)
InRing(n) == \E i \in DOMAIN ring : ring[i] = n
Builds(t, n) == pc[t] = "casNext" /\ aux[t] = n
Retires(t, n) == pc[t] = "retire" /\ aux[t] = n
Retired(n) == InRing(n) \/ \E t \in Consumers : Retires(t, n)
Visible(n) == n \in Nodes /\ n \notin unused /\ \A t \in Producers : ~Builds(t, n)

NodesApart ==
    /\ \A i, j \in DOMAIN ring : ring[i] = ring[j] => i = j
    /\ \A n \in Nodes : Retired(n) => Visible(n)
    /\ \A n \in Nodes, t \in Consumers : Retires(t, n) =>
          ~InRing(n) /\ \A u \in Consumers : Retires(u, n) => u = t
    /\ \A n \in Nodes, t \in Producers : Builds(t, n) =>
          n \notin unused /\ \A u \in Producers : Builds(u, n) => u = t
    /\ \A t \in Producers : pc[t] = "casNext" => node[aux[t]] = NewNode(arg[t])

HeldVisible ==
    /\ Visible(head) /\ Visible(tail)
    /\ \A t \in Threads : ptr[t] # Null => Visible(ptr[t])

InOrder(r) ==
    /\ \A m, n \in Nodes : Visible(m) /\ Visible(n) /\ r[m] = r[n] => m = n
    /\ \A n \in Nodes : Visible(n) => (Retired(n) <=> r[n] < r[head])
    /\ \A n \in Nodes : Visible(n) /\ node[n].next = Null => \A m \in Nodes : Visible(m) => r[m] <= r[n]
    /\ \A n \in Nodes : Visible(n) /\ node[n].next # Null /\ (r[n] >= r[head] \/ n = tail) =>
          Visible(node[n].next) /\ r[node[n].next] = r[n] + 1
    /\ \A n \in Nodes : Visible(n) => r[n] <= r[tail] + 1

HeldInOrder(r) ==
    /\ \A t \in Producers : ptr[t] # Null => r[ptr[t]] <= r[tail]
    /\ \A t \in Consumers : ptr[t] # Null => r[ptr[t]] <= r[head]
    /\ \A t \in Threads : pc[t] \in {"casTail", "helpTail", "casHead"} => aux[t] = node[ptr[t]].next
    /\ node[tail].next # Null => \E t \in Producers : pc[t] = "casTail" /\ ptr[t] = tail

ListInv(r) == NodesApart /\ HeldVisible /\ InOrder(r) /\ HeldInOrder(r)

\* A step that changes at most slots of visible nodes and what is local to t.
Steady(t) ==
    /\ Local(t) /\ UNCHANGED <<head, tail, ring, unused>>
    /\ pc[t] \notin {"casNext", "casTail", "retire"} /\ pc'[t] \notin {"casNext", "casTail", "retire"}
    /\ \A n \in Nodes : node'[n].next = node[n].next
    /\ \A n \in Nodes : ~Visible(n) => node'[n] = node[n]
    /\ \/ ptr'[t] \in {ptr[t], Null}
       \/ t \in Producers /\ ptr'[t] = tail
       \/ t \in Consumers /\ ptr'[t] = head
    /\ pc'[t] \in {"helpTail", "casHead"} => ptr'[t] \in Nodes /\ aux'[t] = node[ptr'[t]].next

\* A steady step retires no node and makes none visible.
LEMMA SteadySame ==
  ASSUME NEW t \in Threads, Steady(t)
  PROVE  /\ \A n : InRing(n)' <=> InRing(n)
         /\ \A u \in Threads, n \in Nodes : (Builds(u, n)' <=> Builds(u, n)) /\ (Retires(u, n)' <=> Retires(u, n))
         /\ \A n \in Nodes : (Retired(n)' <=> Retired(n)) /\ (Visible(n)' <=> Visible(n))
  <1>1. \A n : InRing(n)' <=> InRing(n)
    BY DEF Steady, InRing
  <1>2. \A u \in Threads, n \in Nodes : (Builds(u, n)' <=> Builds(u, n)) /\ (Retires(u, n)' <=> Retires(u, n))
    BY DEF Steady, Local, Builds, Retires
  <1>3. \A n \in Nodes : Retired(n)' <=> Retired(n)
    BY <1>1, <1>2, QueueFacts DEF Retired
  <1>4. \A n \in Nodes : Visible(n)' <=> Visible(n)
    BY <1>2, QueueFacts DEF Visible, Steady
  <1> QED
    BY <1>1, <1>2, <1>3, <1>4

\* A steady step keeps the list.
LEMMA SteadyList ==
  ASSUME TypeInv, TypeInv', NEW r \in [Nodes -> Int], ListInv(r), NEW t \in Threads, Steady(t)
  PROVE  ListInv(r)'
  <1>1. NodesApart'
    <2>1. \A n \in Nodes : Builds(t, n) <=> FALSE
      BY DEF Steady, Builds
    <2>2. ASSUME NEW u \in Producers, pc'[u] = "casNext" PROVE node'[aux'[u]] = NewNode(arg'[u])
      <3>1. u # t /\ u \in Threads /\ pc[u] = "casNext" /\ aux'[u] = aux[u] /\ arg'[u] = arg[u]
        BY <2>2, QueueFacts DEF Steady, Local
      <3>2. aux[u] \in Nodes /\ ~Visible(aux[u]) /\ node[aux[u]] = NewNode(arg[u])
        BY <3>1 DEF TypeInv, HoldsNode, Visible, Builds, ListInv, NodesApart
      <3> QED
        BY <3>1, <3>2 DEF Steady
    <2>3. ring' = ring /\ unused' = unused
      BY DEF Steady
    <2> QED
      BY <2>2, <2>3, SteadySame, QueueFacts DEF ListInv, NodesApart
  <1>2. HeldVisible'
    <2>1. head \in Nodes /\ tail \in Nodes /\ head' = head /\ tail' = tail
      BY DEF Steady, TypeInv, TypeOK
    <2>2. Visible(head)' /\ Visible(tail)'
      BY <2>1, SteadySame DEF ListInv, HeldVisible
    <2>3. ASSUME NEW u \in Threads, ptr'[u] # Null PROVE Visible(ptr[u])'
      <3>1. PICK n \in Nodes : n = ptr'[u]
        BY <2>3 DEF TypeInv, TypeOK
      <3>2. Visible(n)
        BY <2>1, <2>3, <3>1 DEF Steady, Local, ListInv, HeldVisible
      <3> QED
        BY <3>1, <3>2, SteadySame
    <2> QED
      BY <2>2, <2>3 DEF HeldVisible
  <1>3. InOrder(r)'
    <2>1. head \in Nodes /\ tail \in Nodes /\ head' = head /\ tail' = tail
          /\ \A n \in Nodes : node'[n].next = node[n].next /\ node[n].next \in Nodes \cup {Null}
      BY Typed, NodeTyped DEF Steady, TypeInv, TypeOK
    <2> QED
      BY <2>1, SteadySame DEF ListInv, InOrder
  <1>4. HeldInOrder(r)'
    <2>1. head \in Nodes /\ tail \in Nodes /\ head' = head /\ tail' = tail
          /\ \A n \in Nodes : node'[n].next = node[n].next
      BY DEF Steady, TypeInv, TypeOK
    <2>2. \A u \in Producers : ptr'[u] # Null => r[ptr'[u]] <= r[tail]
      BY <2>1, QueueFacts DEF Steady, Local, ListInv, HeldInOrder
    <2>3. \A u \in Consumers : ptr'[u] # Null => r[ptr'[u]] <= r[head]
      BY <2>1, QueueFacts DEF Steady, Local, ListInv, HeldInOrder
    <2>4. \A u \in Threads : pc'[u] \in {"casTail", "helpTail", "casHead"} => aux'[u] = node'[ptr'[u]].next
      BY <2>1 DEF Steady, Local, ListInv, HeldInOrder, TypeInv, HoldsNode
    <2>5. node'[tail].next # Null => \E u \in Producers : pc'[u] = "casTail" /\ ptr'[u] = tail
      BY <2>1, QueueFacts DEF Steady, Local, ListInv, HeldInOrder
    <2> QED
      BY <2>1, <2>2, <2>3, <2>4, <2>5 DEF HeldInOrder
  <1> QED
    BY <1>1, <1>2, <1>3, <1>4 DEF ListInv

\* Who holds a node holds a visible one; a builder's node is its own.
LEMMA BuilderApart ==
  ASSUME TypeInv, NEW r \in [Nodes -> Int], ListInv(r), NEW t \in Producers, pc[t] = "casNext"
  PROVE  /\ aux[t] \in Nodes /\ ~Visible(aux[t]) /\ ~Retired(aux[t]) /\ aux[t] \notin unused
         /\ ~InRing(aux[t]) /\ \A u \in Consumers : ~Retires(u, aux[t])
         /\ \A u \in Producers : Builds(u, aux[t]) => u = t
         /\ node[aux[t]] = NewNode(arg[t]) /\ aux[t] # head /\ aux[t] # tail
         /\ \A u \in Threads : ptr[u] # aux[t]
  <1>1. aux[t] \in Nodes /\ Builds(t, aux[t])
    BY QueueFacts DEF TypeInv, HoldsNode, Builds
  <1>2. ~Visible(aux[t])
    BY <1>1 DEF Visible
  <1>3. ~Retired(aux[t])
    BY <1>1, <1>2 DEF ListInv, NodesApart
  <1>4. aux[t] # head /\ aux[t] # tail /\ \A u \in Threads : ptr[u] # aux[t]
    BY <1>1, <1>2, QueueFacts DEF ListInv, HeldVisible
  <1> QED
    BY <1>1, <1>2, <1>3, <1>4 DEF ListInv, NodesApart, Retired

\* A node that a producer makes was in nobody's hands: the list stays what it was.
\* Here it is needed that the node is in no hazard record.
LEMMA AcquireList ==
  ASSUME TypeInv, TypeInv', ~ReusesHeld,
         NEW r \in [Nodes -> Int], ListInv(r), NEW t \in Producers, AcquireNode(t)
  PROVE  /\ ListInv(r)'
         /\ \E n \in Nodes :
              /\ ~Visible(n)' /\ aux'[t] = n /\ (n \in unused \/ Retired(n))
              /\ \A m \in Nodes : Visible(m)' => m # n /\ Visible(m) /\ node'[m] = node[m]
              /\ \A m \in Nodes : m # n /\ Visible(m) => Visible(m)'
              /\ \A m \in Nodes : m # n => (Retired(m)' <=> Retired(m))
              /\ \A u \in Threads : ptr[u] # n
              /\ n # head /\ n # tail
  <1>1. t \in Threads /\ t \notin Consumers
    BY QueueFacts
  <1>2. PICK n \in Nodes :
            /\ Local(t) /\ AreFunctions'
            /\ pc[t] = "newNode" /\ pc'[t] = "casNext"
            /\ ptr'[t] = ptr[t] /\ idx'[t] = idx[t] /\ aux'[t] = n /\ arg'[t] = arg[t]
            /\ NodesTyped' /\ OthersKept(n) /\ node'[n] = NewNode(arg[t])
            /\ UNCHANGED <<head, tail, fresh>> /\ unused' = unused \ {n}
            /\ \/ n \in unused /\ ring' = ring
               \/ ring # <<>> /\ n = ring[1] /\ ring' = Tail(ring)
    BY <1>1, AcquireNodeEffect
  <1>3. head \in Nodes /\ tail \in Nodes /\ ring \in Seq(Nodes) /\ (n \in unused => ~Visible(n))
    BY DEF TypeInv, TypeOK, Visible
  <1>4. n \in unused \/ InRing(n)
    BY <1>2, <1>3, TailOfRing DEF InRing
  <1>5. /\ ~InRing(n)' /\ \A m \in Nodes : m # n => (InRing(m)' <=> InRing(m))
        /\ \A i, j \in DOMAIN ring' : ring'[i] = ring'[j] => i = j
    <2>1. CASE n \in unused /\ ring' = ring
      BY <1>3, <2>1 DEF InRing, ListInv, NodesApart, Retired
    <2>2. CASE ring # <<>> /\ n = ring[1] /\ ring' = Tail(ring)
      <3> DEFINE R == Tail(ring)
      <3>1. /\ 1 \in DOMAIN ring /\ DOMAIN ring \subseteq Int /\ DOMAIN R \subseteq Int /\ ring' = R
            /\ \A i \in DOMAIN R : i + 1 \in DOMAIN ring /\ R[i] = ring[i + 1] /\ i + 1 # 1
            /\ \A i \in DOMAIN ring : i # 1 => i - 1 \in DOMAIN R /\ R[i - 1] = ring[i]
        <4>1. DOMAIN ring = 1 .. Len(ring) /\ DOMAIN R = 1 .. Len(R)
          BY <1>3, <2>2, TailOfRing, LenProperties
        <4> QED
          BY <1>3, <2>2, <4>1, TailOfRing, LenProperties
      <3> HIDE DEF R
      <3>2. \A i, j \in DOMAIN ring : ring[i] = ring[j] => i = j
        BY DEF ListInv, NodesApart
      <3> QED
        BY <2>2, <3>1, <3>2 DEF InRing
    <2> QED
      BY <1>2, <2>1, <2>2
  <1>6. \A u \in Producers : ~Builds(u, n)
    BY <1>4 DEF ListInv, NodesApart, Retired, Visible
  <1>7. \A u \in Consumers : ~Retires(u, n)
    BY <1>3, <1>4 DEF ListInv, NodesApart, Retired
  <1>8. /\ \A u \in Consumers, m \in Nodes : Retires(u, m)' <=> Retires(u, m)
        /\ \A u \in Producers, m \in Nodes : Builds(u, m)' <=> Builds(u, m) \/ (u = t /\ m = n)
    BY <1>1, <1>2, QueueFacts DEF Local, Retires, Builds
  <1>9. ~Retired(n)' /\ \A m \in Nodes : m # n => (Retired(m)' <=> Retired(m))
    BY <1>5, <1>7, <1>8 DEF Retired
  <1>10. ~Visible(n)' /\ \A m \in Nodes : m # n => (Visible(m)' <=> Visible(m))
    BY <1>2, <1>8 DEF Visible
  <1>11. n \in unused \/ (Retired(n) /\ \A u \in Threads : ptr[u] # n)
    BY <1>1, <1>2, <1>4 DEF Retired, ReusesHeld, HazardHeld, At
  <1>12. n # head
    BY <1>3, <1>11 DEF ListInv, HeldVisible, InOrder
  <1>13. n # tail
    <2>1. SUFFICES ASSUME n = tail PROVE FALSE
      OBVIOUS
    <2>2. Retired(tail) /\ \A u \in Threads : ptr[u] # tail
      BY <1>3, <1>11, <2>1 DEF ListInv, HeldVisible
    <2>3. r[tail] < r[head] /\ Visible(head) /\ Visible(tail)
      BY <1>3, <2>2 DEF ListInv, HeldVisible, InOrder
    <2>4. node[tail].next # Null
      BY <1>3, <2>3 DEF ListInv, InOrder
    <2> QED
      BY <2>2, <2>4, QueueFacts DEF ListInv, HeldInOrder
  <1>14. \A u \in Threads : ptr[u] # n
    BY <1>3, <1>11, QueueFacts DEF ListInv, HeldVisible
  <1>15. \A m \in Nodes : Visible(m)' => m # n /\ Visible(m) /\ node'[m] = node[m]
    BY <1>2, <1>10 DEF OthersKept
  <1>16. \A u \in Threads : ptr'[u] = ptr[u]
    BY <1>2 DEF Local
  <1>17. NodesApart'
    <2>1. \A m \in Nodes : Retired(m)' => Visible(m)'
      BY <1>9, <1>10 DEF ListInv, NodesApart
    <2>2. \A m \in Nodes, u \in Consumers : Retires(u, m)' =>
             ~InRing(m)' /\ \A w \in Consumers : Retires(w, m)' => w = u
      BY <1>5, <1>8 DEF ListInv, NodesApart
    <2>3. \A m \in Nodes, u \in Producers : Builds(u, m)' =>
             m \notin unused' /\ \A w \in Producers : Builds(w, m)' => w = u
      BY <1>2, <1>6, <1>8 DEF ListInv, NodesApart
    <2>4. ASSUME NEW u \in Producers, pc'[u] = "casNext" PROVE node'[aux'[u]] = NewNode(arg'[u])
      <3>1. CASE u = t
        BY <1>2, <3>1
      <3>2. CASE u # t
        <4>1. u \in Threads /\ pc[u] = "casNext" /\ aux'[u] = aux[u] /\ arg'[u] = arg[u]
          BY <1>2, <2>4, <3>2, QueueFacts DEF Local
        <4>2. aux[u] \in Nodes /\ aux[u] # n /\ node[aux[u]] = NewNode(arg[u])
          BY <1>6, <4>1 DEF TypeInv, HoldsNode, Builds, ListInv, NodesApart
        <4> QED
          BY <1>2, <4>1, <4>2 DEF OthersKept
      <3> QED
        BY <3>1, <3>2
    <2> QED
      BY <1>5, <2>1, <2>2, <2>3, <2>4 DEF NodesApart
  <1>18. HeldVisible'
    <2>1. Visible(head)' /\ Visible(tail)'
      BY <1>2, <1>3, <1>10, <1>12, <1>13 DEF ListInv, HeldVisible
    <2>2. ASSUME NEW u \in Threads, ptr'[u] # Null PROVE Visible(ptr[u])'
      <3>1. PICK m \in Nodes : m = ptr'[u]
        BY <2>2 DEF TypeInv, TypeOK
      <3>2. Visible(m) /\ m # n
        BY <1>14, <1>16, <2>2, <3>1 DEF ListInv, HeldVisible
      <3> QED
        BY <1>10, <3>1, <3>2
    <2> QED
      BY <2>1, <2>2 DEF HeldVisible
  <1>19. InOrder(r)'
    <2>1. head' = head /\ tail' = tail /\ Visible(head)' /\ Visible(tail)'
      BY <1>2, <1>18 DEF HeldVisible
    <2>2. \A m \in Nodes : Visible(m)' => (Retired(m)' <=> r[m] < r[head])
      BY <1>9, <1>15 DEF ListInv, InOrder
    <2>3. \A l, m \in Nodes : Visible(l)' /\ Visible(m)' /\ r[l] = r[m] => l = m
      BY <1>15 DEF ListInv, InOrder
    <2>4. \A m \in Nodes : Visible(m)' /\ node'[m].next = Null => \A l \in Nodes : Visible(l)' => r[l] <= r[m]
      BY <1>15 DEF ListInv, InOrder
    <2>5. ASSUME NEW m \in Nodes, Visible(m)', node'[m].next # Null, r[m] >= r[head] \/ m = tail
          PROVE  Visible(node[m].next)' /\ r[node'[m].next] = r[m] + 1
      <3>1. Visible(m) /\ node'[m] = node[m]
        BY <1>15, <2>5
      <3>2. Visible(node[m].next) /\ r[node[m].next] = r[m] + 1 /\ node[m].next \in Nodes
        BY <2>5, <3>1 DEF ListInv, InOrder, Visible
      <3>3. r[head] <= r[m] + 1
        BY <1>3, <2>5 DEF ListInv, InOrder, HeldVisible
      <3>4. node[m].next # n
        <4>1. n \in unused \/ r[n] < r[head]
          BY <1>11, <1>3 DEF ListInv, InOrder, NodesApart
        <4> QED
          BY <1>3, <3>2, <3>3, <4>1
      <3>5. PICK l \in Nodes : l = node[m].next
        BY <3>2
      <3>6. Visible(l)'
        BY <1>10, <3>2, <3>4, <3>5
      <3> QED
        BY <3>1, <3>2, <3>5, <3>6
    <2>6. \A m \in Nodes : Visible(m)' => r[m] <= r[tail] + 1
      BY <1>15 DEF ListInv, InOrder
    <2> QED
      BY <2>1, <2>2, <2>3, <2>4, <2>5, <2>6 DEF InOrder
  <1>20. HeldInOrder(r)'
    <2>1. \A u \in Threads : pc'[u] \in {"casTail", "helpTail", "casHead"} =>
             ptr[u] \in Nodes /\ node'[ptr[u]] = node[ptr[u]] /\ aux'[u] = aux[u] /\ pc[u] = pc'[u]
      BY <1>2, <1>14 DEF Local, OthersKept, TypeInv, HoldsNode
    <2>2. \A u \in Threads : pc'[u] \in {"casTail", "helpTail", "casHead"} => aux'[u] = node'[ptr'[u]].next
      BY <1>16, <2>1 DEF ListInv, HeldInOrder
    <2>3. node'[tail].next # Null => \E u \in Producers : pc'[u] = "casTail" /\ ptr'[u] = tail
      <3>1. node'[tail] = node[tail]
        BY <1>2, <1>3, <1>13 DEF OthersKept
      <3> QED
        BY <1>2, <1>16, <3>1, QueueFacts DEF Local, ListInv, HeldInOrder
    <2> QED
      BY <1>2, <1>16, <2>2, <2>3, QueueFacts DEF ListInv, HeldInOrder
  <1> QED
    BY <1>2, <1>9, <1>10, <1>11, <1>12, <1>13, <1>14, <1>15, <1>17, <1>18, <1>19, <1>20 DEF ListInv

\* Link(t): the node of t becomes the successor of the tail, and visible.
Link(t, m, n) ==
    /\ m = ptr[t] /\ n = aux[t] /\ m # n /\ m = tail
    /\ node[m].next = Null /\ pc[t] = "casNext" /\ pc'[t] = "casTail"
    /\ Visible(m) /\ ~Visible(n) /\ node[n] = NewNode(arg[t])
    /\ node'[n] = node[n] /\ node'[m].next = n
    /\ \A x \in Nodes : node'[x].items = node[x].items
    /\ \A x \in Nodes : node'[x].deqidx = node[x].deqidx /\ node'[x].enqidx = node[x].enqidx
    /\ OthersKept(m)
    /\ \A x \in Nodes : Visible(x)' <=> Visible(x) \/ x = n
    /\ \A x \in Nodes : Retired(x)' <=> Retired(x)
    /\ \A u \in Threads : ptr[u] # n /\ ptr'[u] = ptr[u] /\ aux'[u] = aux[u] /\ idx'[u] = idx[u] /\ arg'[u] = arg[u]
    /\ UNCHANGED <<head, tail, ring, unused, fresh>>

\* A successful CAS on next is a Link: the node before it is tail.
LEMMA LinkVisible ==
  ASSUME TypeInv, NEW r \in [Nodes -> Int], ListInv(r), NEW t \in Producers, LinkNode(t), node[ptr[t]].next = Null
  PROVE  Link(t, ptr[t], aux[t]) /\ Local(t)
  <1>1. t \in Threads /\ t \notin Consumers
    BY QueueFacts
  <1>2. PICK m \in Nodes, n \in Nodes : m = ptr[t] /\ n = aux[t]
    BY <1>1, LinkNodeEffect
  <1>3. /\ Local(t) /\ node[m].next = Null /\ pc[t] = "casNext" /\ pc'[t] = "casTail"
        /\ ptr'[t] = ptr[t] /\ aux'[t] = aux[t] /\ idx'[t] = idx[t] /\ arg'[t] = arg[t]
        /\ UNCHANGED <<head, tail, ring, unused, fresh>>
        /\ OthersKept(m) /\ node'[m].next = n /\ node'[m].items = node[m].items
        /\ node'[m].deqidx = node[m].deqidx /\ node'[m].enqidx = node[m].enqidx
    BY <1>1, <1>2, LinkNodeEffect
  <1>4. /\ ~Visible(n) /\ node[n] = NewNode(arg[t]) /\ n \notin unused
        /\ \A u \in Producers : Builds(u, n) => u = t
        /\ \A u \in Threads : ptr[u] # n
    BY <1>2, <1>3, BuilderApart
  <1>5. Visible(m) /\ m # n
    BY <1>1, <1>2, <1>4, QueueFacts DEF ListInv, HeldVisible
  <1>6. m = tail
    <2>1. r[m] <= r[tail] /\ Visible(tail) /\ tail \in Nodes
      BY <1>2, QueueFacts DEF ListInv, HeldInOrder, HeldVisible, Visible
    <2>2. r[tail] <= r[m]
      BY <1>3, <1>5, <2>1 DEF ListInv, InOrder
    <2> QED
      BY <1>5, <2>1, <2>2 DEF ListInv, InOrder
  <1>7. /\ \A u \in Consumers, x \in Nodes : Retires(u, x)' <=> Retires(u, x)
        /\ \A u \in Producers, x \in Nodes : Builds(u, x)' <=> Builds(u, x) /\ u # t
        /\ \A x \in Nodes : InRing(x)' <=> InRing(x)
    BY <1>1, <1>3, QueueFacts DEF Local, Retires, Builds, InRing
  <1>8. \A x \in Nodes : Retired(x)' <=> Retired(x)
    BY <1>7 DEF Retired
  <1>9. \A x \in Nodes : Visible(x)' <=> Visible(x) \/ x = n
    <2>1. \A x \in Nodes : x # n => ~Builds(t, x)
      BY <1>2 DEF Builds
    <2> QED
      BY <1>3, <1>4, <1>7, <2>1 DEF Visible
  <1>10. \A u \in Threads : ptr'[u] = ptr[u] /\ aux'[u] = aux[u] /\ idx'[u] = idx[u] /\ arg'[u] = arg[u]
    BY <1>3 DEF Local
  <1>11. \A x \in Nodes : /\ node'[x].items = node[x].items /\ node'[x].deqidx = node[x].deqidx
                          /\ node'[x].enqidx = node[x].enqidx
    BY <1>3 DEF OthersKept
  <1>12. node'[n] = node[n]
    BY <1>3, <1>5 DEF OthersKept
  <1> QED
    BY <1>2, <1>3, <1>4, <1>5, <1>6, <1>8, <1>9, <1>10, <1>11, <1>12 DEF Link

\* A link keeps the list, with the new node ranked after all others.
LEMMA LinkList ==
  ASSUME TypeInv, TypeInv', NEW r \in [Nodes -> Int], ListInv(r), NEW t \in Producers,
         NEW m \in Nodes, NEW n \in Nodes, Local(t), Link(t, m, n)
  PROVE  ListInv([r EXCEPT ![n] = r[m] + 1])'
  <1> DEFINE q == [r EXCEPT ![n] = r[m] + 1]
  <1>1. /\ q \in [Nodes -> Int] /\ q[n] = r[m] + 1 /\ \A x \in Nodes : x # n => q[x] = r[x]
        /\ head \in Nodes /\ tail \in Nodes /\ head' = head /\ tail' = tail /\ m = tail
        /\ ring' = ring /\ unused' = unused /\ t \in Threads /\ t \notin Consumers
    BY QueueFacts DEF Link, TypeInv, TypeOK
  <1> HIDE DEF q
  <1>2. Visible(head) /\ Visible(tail) /\ head # n /\ tail # n
    BY DEF ListInv, HeldVisible, Link
  <1>3. NodesApart'
    <2>1. /\ \A u \in Consumers, x \in Nodes : Retires(u, x)' <=> Retires(u, x)
          /\ \A u \in Producers, x \in Nodes : Builds(u, x)' <=> Builds(u, x) /\ u # t
          /\ \A x \in Nodes : InRing(x)' <=> InRing(x)
      BY <1>1, QueueFacts DEF Local, Link, Retires, Builds, InRing
    <2>2. ASSUME NEW u \in Producers, pc'[u] = "casNext" PROVE node'[aux'[u]] = NewNode(arg'[u])
      <3>1. u # t /\ pc[u] = "casNext" /\ aux'[u] = aux[u] /\ arg'[u] = arg[u]
        BY <2>2, QueueFacts DEF Link, Local
      <3>2. aux[u] \in Nodes /\ aux[u] # m /\ node[aux[u]] = NewNode(arg[u])
        BY <3>1, BuilderApart DEF Link
      <3> QED
        BY <3>1, <3>2 DEF Link, OthersKept
    <2>3. \A x \in Nodes : Retired(x)' => Visible(x)'
      BY DEF Link, ListInv, NodesApart
    <2> QED
      BY <1>1, <2>1, <2>2, <2>3 DEF ListInv, NodesApart
  <1>4. HeldVisible'
    <2>1. Visible(head)' /\ Visible(tail)'
      BY <1>1, <1>2 DEF Link
    <2>2. ASSUME NEW u \in Threads, ptr'[u] # Null PROVE Visible(ptr[u])'
      <3>1. PICK x \in Nodes : x = ptr'[u]
        BY <2>2 DEF TypeInv, TypeOK
      <3>2. Visible(x)
        BY <2>2, <3>1 DEF Link, ListInv, HeldVisible
      <3> QED
        BY <3>1, <3>2 DEF Link
    <2> QED
      BY <2>1, <2>2 DEF HeldVisible
  <1>5. InOrder(q)'
    <2>1. \A x \in Nodes : Visible(x) => r[x] <= r[m]
      BY DEF Link, ListInv, InOrder
    <2>2. \A x, y \in Nodes : Visible(x)' /\ Visible(y)' /\ q[x] = q[y] => x = y
      BY <1>1, <2>1 DEF Link, ListInv, InOrder
    <2>3. \A x \in Nodes : Visible(x)' => (Retired(x)' <=> q[x] < q[head])
      <3>1. ~Retired(n) /\ r[head] <= r[m]
        BY <1>1, <1>2, <2>1 DEF Link, ListInv, NodesApart
      <3> QED
        BY <1>1, <1>2, <3>1 DEF Link, ListInv, InOrder
    <2>4. \A x \in Nodes : Visible(x)' => q[x] <= q[n]
      BY <1>1, <2>1 DEF Link
    <2>5. \A x \in Nodes : Visible(x)' /\ node'[x].next = Null => x = n
      <3>1. \A x \in Nodes : Visible(x) /\ node[x].next = Null => x = m
        <4>1. \A x \in Nodes : Visible(x) /\ node[x].next = Null => r[m] <= r[x] /\ r[x] <= r[m]
          BY <2>1 DEF Link, ListInv, InOrder
        <4> QED
          BY <4>1 DEF Link, ListInv, InOrder
      <3>2. node'[m].next # Null
        BY QueueFacts DEF Link
      <3> QED
        BY <3>1, <3>2 DEF Link, OthersKept
    <2>6. ASSUME NEW x \in Nodes, Visible(x)', node'[x].next # Null, q[x] >= q[head] \/ x = tail
          PROVE  Visible(node[x].next)' /\ q[node'[x].next] = q[x] + 1
      <3>1. x # n
        BY <2>6, NewNodeType, Typed, <1>1 DEF Link
      <3>2. CASE x = m
        <4>1. node'[x].next = n /\ Visible(n)'
          BY <3>2 DEF Link
        <4> QED
          BY <1>1, <3>1, <3>2, <4>1
      <3>3. CASE x # m
        <4>1. node'[x] = node[x] /\ Visible(x)
          BY <2>6, <3>1, <3>3 DEF Link, OthersKept
        <4>2. Visible(node[x].next) /\ r[node[x].next] = r[x] + 1
          BY <1>1, <1>2, <2>6, <3>1, <4>1 DEF ListInv, InOrder
        <4>3. PICK y \in Nodes : y = node[x].next
          BY <4>2 DEF Visible
        <4>4. y # n /\ Visible(y)'
          BY <4>2, <4>3 DEF Link
        <4> QED
          BY <1>1, <3>1, <4>1, <4>2, <4>3, <4>4
      <3> QED
        BY <3>2, <3>3
    <2>7. \A x \in Nodes : Visible(x)' => q[x] <= q[tail] + 1
      BY <1>1, <1>2, <2>4
    <2> QED
      BY <1>1, <2>2, <2>3, <2>4, <2>5, <2>6, <2>7 DEF InOrder
  <1>6. HeldInOrder(q)'
    <2>1. \A u \in Threads : ptr'[u] # Null => q[ptr'[u]] = r[ptr[u]] /\ ptr'[u] = ptr[u]
      BY <1>1 DEF Link, TypeInv, TypeOK
    <2>2. ASSUME NEW u \in Threads, pc'[u] \in {"casTail", "helpTail", "casHead"} PROVE aux'[u] = node'[ptr'[u]].next
      <3>1. CASE u = t
        BY <3>1 DEF Link
      <3>2. CASE u # t
        <4>1. pc[u] = pc'[u] /\ aux'[u] = aux[u] /\ ptr'[u] = ptr[u] /\ ptr[u] \in Nodes /\ aux[u] \in Nodes
          BY <2>2, <3>2 DEF Local, TypeInv, HoldsNode
        <4>2. aux[u] = node[ptr[u]].next
          BY <2>2, <4>1 DEF ListInv, HeldInOrder
        <4>3. ptr[u] # m
          BY <4>1, <4>2, QueueFacts DEF Link
        <4> QED
          BY <4>1, <4>2, <4>3 DEF Link, OthersKept
      <3> QED
        BY <3>1, <3>2
    <2>3. \E u \in Producers : pc'[u] = "casTail" /\ ptr'[u] = tail
      BY <1>1 DEF Link
    <2>4. \A u \in Producers : ptr'[u] # Null => q[ptr'[u]] <= q[tail]
      BY <1>1, <1>2, <2>1, QueueFacts DEF ListInv, HeldInOrder
    <2>5. \A u \in Consumers : ptr'[u] # Null => q[ptr'[u]] <= q[head]
      BY <1>1, <1>2, <2>1, QueueFacts DEF ListInv, HeldInOrder
    <2> QED
      BY <1>1, <2>2, <2>3, <2>4, <2>5 DEF HeldInOrder
  <1>7. ListInv(q)'
    BY <1>3, <1>4, <1>5, <1>6 DEF ListInv
  <1> QED
    BY <1>7 DEF q

\* The node of t is deleted: another thread linked one.
LEMMA UnlinkedList ==
  ASSUME TypeInv, TypeInv', NEW r \in [Nodes -> Int], ListInv(r), NEW t \in Producers, LinkNode(t), node[ptr[t]].next # Null
  PROVE  /\ ListInv(r)' /\ node' = node /\ UNCHANGED <<head, tail>>
         /\ \A x \in Nodes : (Visible(x)' <=> Visible(x)) /\ (Retired(x)' <=> Retired(x))
  <1>1. t \in Threads /\ t \notin Consumers
    BY QueueFacts
  <1>2. PICK n \in Nodes : n = aux[t]
    BY <1>1, LinkNodeEffect
  <1>3. /\ Local(t) /\ pc[t] = "casNext" /\ pc'[t] = "loadTail"
        /\ ptr'[t] = ptr[t] /\ aux'[t] = aux[t] /\ idx'[t] = idx[t] /\ arg'[t] = arg[t]
        /\ UNCHANGED <<node, head, tail, ring, fresh>> /\ unused' = unused \cup {n}
    BY <1>1, <1>2, LinkNodeEffect
  <1>4. ~Visible(n) /\ \A u \in Producers : Builds(u, n) => u = t
    BY <1>2, <1>3, BuilderApart
  <1>5. /\ \A u \in Consumers, x \in Nodes : Retires(u, x)' <=> Retires(u, x)
        /\ \A u \in Producers, x \in Nodes : Builds(u, x)' <=> Builds(u, x) /\ u # t
        /\ \A x \in Nodes : InRing(x)' <=> InRing(x)
    BY <1>1, <1>3, QueueFacts DEF Local, Retires, Builds, InRing
  <1>6. \A x \in Nodes : Retired(x)' <=> Retired(x)
    BY <1>5 DEF Retired
  <1>7. \A x \in Nodes : Visible(x)' <=> Visible(x)
    <2>1. \A x \in Nodes : x # n => ~Builds(t, x)
      BY <1>2 DEF Builds
    <2> QED
      BY <1>3, <1>4, <1>5, <2>1 DEF Visible
  <1>8. \A u \in Threads : ptr'[u] = ptr[u] /\ aux'[u] = aux[u]
    BY <1>3 DEF Local
  <1>9. head \in Nodes /\ tail \in Nodes
    BY DEF TypeInv, TypeOK
  <1>10. NodesApart'
    <2>1. ASSUME NEW u \in Producers, pc'[u] = "casNext" PROVE node'[aux'[u]] = NewNode(arg'[u])
      BY <1>3, <2>1, QueueFacts DEF Local, ListInv, NodesApart
    <2>2. \A x \in Nodes, u \in Producers : Builds(u, x)' => x \notin unused'
      BY <1>3, <1>4, <1>5 DEF ListInv, NodesApart
    <2> QED
      BY <1>3, <1>5, <1>6, <1>7, <2>1, <2>2 DEF ListInv, NodesApart
  <1>11. HeldVisible'
    <2>1. Visible(head)' /\ Visible(tail)'
      BY <1>3, <1>7, <1>9 DEF ListInv, HeldVisible
    <2>2. ASSUME NEW u \in Threads, ptr'[u] # Null PROVE Visible(ptr[u])'
      <3>1. PICK x \in Nodes : x = ptr'[u]
        BY <2>2 DEF TypeInv, TypeOK
      <3>2. Visible(x)
        BY <1>8, <2>2, <3>1 DEF ListInv, HeldVisible
      <3> QED
        BY <1>7, <3>1, <3>2
    <2> QED
      BY <2>1, <2>2 DEF HeldVisible
  <1>12. InOrder(r)'
    <2>1. \A x \in Nodes : node'[x].next = node[x].next /\ node[x].next \in Nodes \cup {Null}
      BY <1>1, <1>3, Typed, NodeTyped
    <2> QED
      BY <1>3, <1>6, <1>7, <1>9, <2>1 DEF ListInv, InOrder
  <1>13. HeldInOrder(r)'
    <2>1. \A u \in Threads : pc'[u] \in {"casTail", "helpTail", "casHead"} => pc[u] = pc'[u]
      BY <1>3 DEF Local
    <2>2. node[tail].next # Null => \E u \in Producers : pc'[u] = "casTail" /\ ptr'[u] = tail
      BY <1>3, QueueFacts DEF Local, ListInv, HeldInOrder
    <2> QED
      BY <1>3, <1>8, <2>1, <2>2, QueueFacts DEF ListInv, HeldInOrder
  <1> QED
    BY <1>3, <1>6, <1>7, <1>10, <1>11, <1>12, <1>13 DEF ListInv

\* What a thread saw as the successor of its node is that, and it is visible
\* when the node is head or tail.
LEMMA Successor ==
  ASSUME TypeInv, NEW r \in [Nodes -> Int], ListInv(r), NEW t \in Threads,
         pc[t] \in {"casTail", "helpTail", "casHead"}, ptr[t] = head \/ ptr[t] = tail
  PROVE  /\ ptr[t] \in Nodes /\ aux[t] \in Nodes /\ aux[t] = node[ptr[t]].next
         /\ Visible(ptr[t]) /\ Visible(aux[t]) /\ r[aux[t]] = r[ptr[t]] + 1
  <1>1. ptr[t] \in Nodes /\ aux[t] \in Nodes /\ aux[t] = node[ptr[t]].next
    BY DEF TypeInv, HoldsNode, ListInv, HeldInOrder
  <1>2. PICK m \in Nodes : m = ptr[t]
    BY <1>1
  <1>3. Visible(m) /\ node[m].next # Null /\ (m = head \/ m = tail)
    BY <1>1, <1>2, QueueFacts DEF ListInv, HeldVisible
  <1>4. Visible(node[m].next) /\ r[node[m].next] = r[m] + 1
    BY <1>3 DEF ListInv, InOrder
  <1> QED
    BY <1>1, <1>2, <1>3, <1>4

\* Moving tail, by one node or not at all, keeps the list.
LEMMA SwingTailList ==
  ASSUME TypeInv, TypeInv', NEW r \in [Nodes -> Int], ListInv(r), NEW t \in Producers, FinishLink(t) \/ HelpTail(t)
  PROVE  /\ ListInv(r)' /\ node' = node /\ UNCHANGED <<head, ring, unused>> /\ Local(t)
         /\ \A x \in Nodes : (Visible(x)' <=> Visible(x)) /\ (Retired(x)' <=> Retired(x))
         /\ r[tail] <= r[tail'] /\ tail' \in Nodes /\ r[ptr[t]] < r[tail']
  <1>1. t \in Threads /\ t \notin Consumers
    BY QueueFacts
  <1>2. PICK m \in Nodes, n \in Nodes, h \in Nodes : m = ptr[t] /\ n = aux[t] /\ h = tail'
    BY <1>1, SwingTailEffect DEF TypeInv, TypeOK
  <1>3. /\ Local(t) /\ pc[t] \in {"casTail", "helpTail"} /\ pc'[t] \in {"idle", "loadTail"}
        /\ ptr'[t] \in {Null, ptr[t]} /\ h = IF tail = m THEN n ELSE tail
        /\ UNCHANGED <<node, head, ring, unused, fresh>>
    BY <1>1, <1>2, SwingTailEffect
  <1>4. /\ \A u \in Threads, x \in Nodes : (Retires(u, x)' <=> Retires(u, x)) /\ (Builds(u, x)' <=> Builds(u, x))
        /\ \A x \in Nodes : InRing(x)' <=> InRing(x)
    BY <1>3 DEF Local, Retires, Builds, InRing
  <1>5. \A x \in Nodes : (Visible(x)' <=> Visible(x)) /\ (Retired(x)' <=> Retired(x))
    BY <1>3, <1>4, QueueFacts DEF Visible, Retired
  <1>6. head \in Nodes /\ tail \in Nodes /\ head' = head /\ Visible(head) /\ Visible(tail)
    BY <1>3 DEF TypeInv, TypeOK, ListInv, HeldVisible
  <1>7. /\ Visible(h) /\ r[tail] <= r[h]
        /\ h = tail \/ (r[h] = r[tail] + 1 /\ node[tail].next = h /\ node[h].next = Null)
    <2>1. CASE tail # m
      BY <1>3, <1>6, <2>1
    <2>2. CASE tail = m
      <3>1. h = n /\ Visible(n) /\ r[n] = r[m] + 1 /\ n = node[m].next
        BY <1>1, <1>2, <1>3, <2>2, Successor
      <3>2. node[n].next = Null
        <4>1. SUFFICES ASSUME node[n].next # Null PROVE FALSE
          OBVIOUS
        <4>2. r[n] >= r[head]
          BY <1>6, <2>2, <3>1 DEF ListInv, InOrder
        <4>3. Visible(node[n].next) /\ r[node[n].next] = r[n] + 1
          BY <3>1, <4>1, <4>2 DEF ListInv, InOrder
        <4>4. PICK y \in Nodes : y = node[n].next
          BY <4>3 DEF Visible
        <4>5. r[y] <= r[tail] + 1 /\ r[y] = r[tail] + 2
          BY <2>2, <3>1, <4>3, <4>4 DEF ListInv, InOrder
        <4> QED
          BY <1>6, <4>5
      <3> QED
        BY <2>2, <3>1, <3>2
    <2> QED
      BY <2>1, <2>2
  <1>8. r[m] < r[h]
    <2>1. r[m] <= r[tail] /\ Visible(m)
      BY <1>1, <1>2, QueueFacts DEF ListInv, HeldInOrder, HeldVisible
    <2>2. CASE tail = m
      <3>1. h = n /\ r[n] = r[m] + 1
        BY <1>1, <1>2, <1>3, <2>2, Successor
      <3> QED
        BY <3>1
    <2>3. CASE tail # m
      <3>1. r[m] # r[tail]
        BY <1>6, <2>1, <2>3 DEF ListInv, InOrder
      <3> QED
        BY <1>3, <2>1, <2>3, <3>1, <1>6
    <2> QED
      BY <2>2, <2>3
  <1>9. NodesApart'
    <2>1. ASSUME NEW u \in Producers, pc'[u] = "casNext" PROVE node'[aux'[u]] = NewNode(arg'[u])
      BY <1>3, <2>1, QueueFacts DEF Local, ListInv, NodesApart
    <2> QED
      BY <1>3, <1>4, <1>5, <2>1, QueueFacts DEF ListInv, NodesApart
  <1>10. HeldVisible'
    <2>1. Visible(head)' /\ Visible(h)'
      BY <1>5, <1>6, <1>7
    <2>2. ASSUME NEW u \in Threads, ptr'[u] # Null PROVE Visible(ptr[u])'
      <3>1. PICK x \in Nodes : x = ptr'[u]
        BY <2>2 DEF TypeInv, TypeOK
      <3>2. Visible(x)
        BY <1>3, <2>2, <3>1 DEF Local, ListInv, HeldVisible
      <3> QED
        BY <1>5, <3>1, <3>2
    <2>3. Visible(tail)'
      BY <1>2, <2>1
    <2> QED
      BY <2>1, <2>2, <2>3 DEF HeldVisible
  <1>11. InOrder(r)'
    <2>1. \A x \in Nodes : node'[x].next = node[x].next /\ node[x].next \in Nodes \cup {Null}
      BY <1>1, <1>3, Typed, NodeTyped
    <2>2. \A x \in Nodes : Visible(x) => r[x] <= r[h] + 1
      BY <1>6, <1>7 DEF ListInv, InOrder
    <2>3. ASSUME NEW x \in Nodes, Visible(x)', node'[x].next # Null, r[x] >= r[head] \/ x = h
          PROVE  Visible(node[x].next)' /\ r[node'[x].next] = r[x] + 1
      BY <1>5, <1>7, <2>1, <2>3 DEF ListInv, InOrder
    <2>4. \A x, y \in Nodes : Visible(x)' /\ Visible(y)' /\ r[x] = r[y] => x = y
      BY <1>5 DEF ListInv, InOrder
    <2>5. \A x \in Nodes : Visible(x)' => (Retired(x)' <=> r[x] < r[head])
      BY <1>5 DEF ListInv, InOrder
    <2>6. \A x \in Nodes : Visible(x)' /\ node'[x].next = Null => \A y \in Nodes : Visible(y)' => r[y] <= r[x]
      BY <1>5, <2>1 DEF ListInv, InOrder
    <2> QED
      BY <1>2, <1>5, <1>6, <2>2, <2>3, <2>4, <2>5, <2>6 DEF InOrder
  <1>12. HeldInOrder(r)'
    <2>1. \A u \in Producers : ptr'[u] # Null => r[ptr'[u]] <= r[h]
      <3>1. \A u \in Threads : ptr'[u] # Null => ptr'[u] \in Nodes /\ ptr'[u] = ptr[u]
        BY <1>3 DEF Local, TypeInv, TypeOK
      <3> QED
        BY <1>6, <1>7, <3>1, QueueFacts DEF ListInv, HeldInOrder
    <2>2. \A u \in Consumers : ptr'[u] # Null => r[ptr'[u]] <= r[head]
      BY <1>1, <1>3, QueueFacts DEF Local, ListInv, HeldInOrder
    <2>3. \A u \in Threads : pc'[u] \in {"casTail", "helpTail", "casHead"} => aux'[u] = node'[ptr'[u]].next
      BY <1>3 DEF Local, ListInv, HeldInOrder
    <2>4. node[h].next # Null => \E u \in Producers : pc'[u] = "casTail" /\ ptr'[u] = h
      <3>1. SUFFICES ASSUME node[h].next # Null PROVE \E u \in Producers : pc'[u] = "casTail" /\ ptr'[u] = h
        OBVIOUS
      <3>2. h = tail /\ ptr[t] # tail
        BY <1>2, <1>7, <1>8, <3>1
      <3>3. PICK u \in Producers : pc[u] = "casTail" /\ ptr[u] = tail
        BY <3>1, <3>2 DEF ListInv, HeldInOrder
      <3> QED
        BY <1>3, <3>2, <3>3, QueueFacts DEF Local
    <2> QED
      BY <1>2, <1>3, <2>1, <2>2, <2>3, <2>4 DEF HeldInOrder
  <1> QED
    BY <1>2, <1>3, <1>5, <1>7, <1>8, <1>9, <1>10, <1>11, <1>12 DEF ListInv

\* Moving head by one node keeps the list; the node that was head is retired.
LEMMA SwingHeadList ==
  ASSUME TypeInv, TypeInv', NEW r \in [Nodes -> Int], ListInv(r), NEW t \in Consumers, SwingHead(t), head = ptr[t]
  PROVE  /\ ListInv(r)' /\ node' = node /\ UNCHANGED <<tail, ring, unused>> /\ Local(t)
         /\ \A x \in Nodes : (Visible(x)' <=> Visible(x)) /\ (Retired(x)' <=> Retired(x) \/ x = head)
  <1>1. t \in Threads /\ t \notin Producers
    BY QueueFacts
  <1>2. PICK m \in Nodes, n \in Nodes : m = ptr[t] /\ n = aux[t]
    BY <1>1, SwingHeadEffect
  <1>3. /\ Local(t) /\ pc[t] = "casHead" /\ pc'[t] = "retire"
        /\ head = m /\ head' = n /\ aux'[t] = m /\ ptr'[t] = Null
        /\ UNCHANGED <<node, tail, ring, unused, fresh>>
    BY <1>1, <1>2, SwingHeadEffect
  <1>4. Visible(m) /\ Visible(n) /\ r[n] = r[m] + 1 /\ ~Retired(m)
    <2>1. Visible(m) /\ Visible(n) /\ r[n] = r[m] + 1
      BY <1>1, <1>2, <1>3, Successor
    <2> QED
      BY <1>3, <2>1 DEF ListInv, InOrder
  <1>5. /\ \A u \in Consumers, x \in Nodes : Retires(u, x)' <=> Retires(u, x) \/ (u = t /\ x = m)
        /\ \A u \in Producers, x \in Nodes : Builds(u, x)' <=> Builds(u, x)
        /\ \A x \in Nodes : InRing(x)' <=> InRing(x)
    BY <1>1, <1>3, QueueFacts DEF Local, Retires, Builds, InRing
  <1>6. \A x \in Nodes : (Visible(x)' <=> Visible(x)) /\ (Retired(x)' <=> Retired(x) \/ x = m)
    BY <1>3, <1>5 DEF Visible, Retired
  <1>7. tail \in Nodes /\ tail' = tail /\ Visible(tail)
    BY <1>3 DEF TypeInv, TypeOK, ListInv, HeldVisible
  <1>8. NodesApart'
    <2>1. ASSUME NEW u \in Producers, pc'[u] = "casNext" PROVE node'[aux'[u]] = NewNode(arg'[u])
      BY <1>1, <1>3, <2>1, QueueFacts DEF Local, ListInv, NodesApart
    <2>2. \A x \in Nodes : Retired(x)' => Visible(x)'
      BY <1>4, <1>6 DEF ListInv, NodesApart
    <2>3. \A x \in Nodes, u \in Consumers : Retires(u, x)' =>
             ~InRing(x)' /\ \A w \in Consumers : Retires(w, x)' => w = u
      BY <1>4, <1>5 DEF ListInv, NodesApart, Retired
    <2>4. \A x \in Nodes, u \in Producers : Builds(u, x)' =>
             x \notin unused' /\ \A w \in Producers : Builds(w, x)' => w = u
      BY <1>3, <1>5 DEF ListInv, NodesApart
    <2>5. \A i, j \in DOMAIN ring' : ring'[i] = ring'[j] => i = j
      BY <1>3 DEF ListInv, NodesApart
    <2> QED
      BY <2>1, <2>2, <2>3, <2>4, <2>5 DEF NodesApart
  <1>9. HeldVisible'
    <2>1. Visible(n)' /\ Visible(tail)'
      BY <1>4, <1>6, <1>7
    <2>2. ASSUME NEW u \in Threads, ptr'[u] # Null PROVE Visible(ptr[u])'
      <3>1. PICK x \in Nodes : x = ptr'[u]
        BY <2>2 DEF TypeInv, TypeOK
      <3>2. Visible(x)
        BY <1>3, <2>2, <3>1 DEF Local, ListInv, HeldVisible
      <3> QED
        BY <1>6, <3>1, <3>2
    <2>3. Visible(head)'
      BY <1>3, <2>1
    <2> QED
      BY <2>1, <2>2, <2>3 DEF HeldVisible
  <1>10. InOrder(r)'
    <2>1. \A x \in Nodes : node'[x].next = node[x].next /\ node[x].next \in Nodes \cup {Null}
      BY <1>1, <1>3, Typed, NodeTyped
    <2>2. \A x, y \in Nodes : Visible(x)' /\ Visible(y)' /\ r[x] = r[y] => x = y
      BY <1>6 DEF ListInv, InOrder
    <2>3. \A x \in Nodes : Visible(x)' => (Retired(x)' <=> r[x] < r[n])
      <3>1. \A x \in Nodes : Visible(x) => (Retired(x) <=> r[x] < r[m]) /\ (r[x] = r[m] <=> x = m)
        BY <1>3, <1>4 DEF ListInv, InOrder
      <3> QED
        BY <1>4, <1>6, <3>1
    <2>4. \A x \in Nodes : Visible(x)' /\ node'[x].next = Null => \A y \in Nodes : Visible(y)' => r[y] <= r[x]
      BY <1>6, <2>1 DEF ListInv, InOrder
    <2>5. \A x \in Nodes : Visible(x)' /\ node'[x].next # Null /\ (r[x] >= r[n] \/ x = tail) =>
             Visible(node[x].next)' /\ r[node'[x].next] = r[x] + 1
      <3>1. \A x \in Nodes : r[x] >= r[n] => r[x] >= r[head]
        BY <1>3, <1>4
      <3> QED
        BY <1>6, <2>1, <3>1 DEF ListInv, InOrder
    <2>6. \A x \in Nodes : Visible(x)' => r[x] <= r[tail] + 1
      BY <1>6 DEF ListInv, InOrder
    <2> QED
      BY <1>3, <1>7, <2>2, <2>3, <2>4, <2>5, <2>6, <2>1 DEF InOrder
  <1>11. HeldInOrder(r)'
    <2>1. \A u \in Producers : ptr'[u] # Null => r[ptr'[u]] <= r[tail]
      BY <1>1, <1>3, QueueFacts DEF Local, ListInv, HeldInOrder
    <2>2. \A u \in Consumers : ptr'[u] # Null => r[ptr'[u]] <= r[n]
      <3>1. \A u \in Threads : ptr'[u] # Null => ptr'[u] \in Nodes /\ ptr'[u] = ptr[u]
        BY <1>3 DEF Local, TypeInv, TypeOK
      <3> QED
        BY <1>3, <1>4, <3>1, QueueFacts DEF ListInv, HeldInOrder
    <2>3. \A u \in Threads : pc'[u] \in {"casTail", "helpTail", "casHead"} => aux'[u] = node'[ptr'[u]].next
      BY <1>3 DEF Local, ListInv, HeldInOrder
    <2>4. node[tail].next # Null => \E u \in Producers : pc'[u] = "casTail" /\ ptr'[u] = tail
      BY <1>1, <1>3, QueueFacts DEF Local, ListInv, HeldInOrder
    <2> QED
      BY <1>3, <2>1, <2>2, <2>3, <2>4 DEF HeldInOrder
  <1> QED
    BY <1>3, <1>6, <1>8, <1>9, <1>10, <1>11 DEF ListInv

\* Putting the retired node into the ring keeps the list.
LEMMA RetireList ==
  ASSUME TypeInv, TypeInv', NEW r \in [Nodes -> Int], ListInv(r), NEW t \in Consumers, Retire(t)
  PROVE  /\ ListInv(r)' /\ node' = node /\ UNCHANGED <<head, tail, unused>> /\ Local(t)
         /\ \A x \in Nodes : (Visible(x)' <=> Visible(x)) /\ (Retired(x)' <=> Retired(x))
  <1>1. t \in Threads /\ t \notin Producers
    BY QueueFacts
  <1>2. PICK m \in Nodes : m = aux[t]
    BY <1>1, RetireEffect
  <1>3. /\ Local(t) /\ pc[t] = "retire" /\ pc'[t] = "loadHead"
        /\ ptr'[t] = ptr[t] /\ aux'[t] = aux[t]
        /\ ring' = Append(ring, m) /\ UNCHANGED <<node, head, tail, unused, fresh>>
    BY <1>1, <1>2, RetireEffect
  <1>4. ring \in Seq(Nodes) /\ head \in Nodes /\ tail \in Nodes
    BY DEF TypeInv, TypeOK
  <1>5. ~InRing(m) /\ \A u \in Consumers : Retires(u, m) => u = t
    BY <1>2, <1>3 DEF ListInv, NodesApart, Retires
  <1>6. /\ \A u \in Consumers, x \in Nodes : Retires(u, x)' <=> Retires(u, x) /\ u # t
        /\ \A u \in Producers, x \in Nodes : Builds(u, x)' <=> Builds(u, x)
        /\ \A x \in Nodes : Retires(t, x) <=> x = m
    BY <1>1, <1>2, <1>3, QueueFacts DEF Local, Retires, Builds
  <1>7. PICK k \in DOMAIN ring' : ring'[k] = m /\ \A i \in DOMAIN ring' : i = k \/ i \in DOMAIN ring
    BY <1>3, <1>4, RingAppended
  <1>8. \A i \in DOMAIN ring : i \in DOMAIN ring' /\ ring'[i] = ring[i]
    BY <1>3, <1>4, RingAppended
  <1>9. \A x \in Nodes : InRing(x)' <=> InRing(x) \/ x = m
    BY <1>7, <1>8 DEF InRing
  <1>10. \A x \in Nodes : Retired(x)' <=> Retired(x)
    BY <1>5, <1>6, <1>9 DEF Retired
  <1>11. \A x \in Nodes : Visible(x)' <=> Visible(x)
    BY <1>3, <1>6 DEF Visible
  <1>12. NodesApart'
    <2>1. \A i, j \in DOMAIN ring' : ring'[i] = ring'[j] => i = j
      BY <1>5, <1>7, <1>8 DEF InRing, ListInv, NodesApart
    <2>2. ASSUME NEW u \in Producers, pc'[u] = "casNext" PROVE node'[aux'[u]] = NewNode(arg'[u])
      BY <1>1, <1>3, <2>2, QueueFacts DEF Local, ListInv, NodesApart
    <2>3. \A x \in Nodes, u \in Consumers : Retires(u, x)' =>
             ~InRing(x)' /\ \A w \in Consumers : Retires(w, x)' => w = u
      BY <1>5, <1>6, <1>9 DEF ListInv, NodesApart
    <2>4. \A x \in Nodes, u \in Producers : Builds(u, x)' =>
             x \notin unused' /\ \A w \in Producers : Builds(w, x)' => w = u
      BY <1>3, <1>6 DEF ListInv, NodesApart
    <2>5. \A x \in Nodes : Retired(x)' => Visible(x)'
      BY <1>10, <1>11 DEF ListInv, NodesApart
    <2> QED
      BY <2>1, <2>2, <2>3, <2>4, <2>5 DEF NodesApart
  <1>13. HeldVisible'
    <2>1. Visible(head)' /\ Visible(tail)'
      BY <1>3, <1>4, <1>11 DEF ListInv, HeldVisible
    <2>2. ASSUME NEW u \in Threads, ptr'[u] # Null PROVE Visible(ptr[u])'
      <3>1. PICK x \in Nodes : x = ptr'[u]
        BY <2>2 DEF TypeInv, TypeOK
      <3>2. Visible(x)
        BY <1>3, <2>2, <3>1 DEF Local, ListInv, HeldVisible
      <3> QED
        BY <1>11, <3>1, <3>2
    <2> QED
      BY <2>1, <2>2 DEF HeldVisible
  <1>14. InOrder(r)'
    <2>1. \A x \in Nodes : node'[x].next = node[x].next /\ node[x].next \in Nodes \cup {Null}
      BY <1>1, <1>3, Typed, NodeTyped
    <2> QED
      BY <1>3, <1>4, <1>10, <1>11, <2>1 DEF ListInv, InOrder
  <1>15. HeldInOrder(r)'
    <2>1. \A u \in Threads : ptr'[u] = ptr[u] /\ aux'[u] = aux[u]
      BY <1>3 DEF Local
    <2>2. \A u \in Threads : pc'[u] \in {"casTail", "helpTail", "casHead"} => pc[u] = pc'[u]
      BY <1>3 DEF Local
    <2>3. node[tail].next # Null => \E u \in Producers : pc'[u] = "casTail" /\ ptr'[u] = tail
      BY <1>1, <1>3, QueueFacts DEF Local, ListInv, HeldInOrder
    <2> QED
      BY <1>3, <2>1, <2>2, <2>3, QueueFacts DEF ListInv, HeldInOrder
  <1> QED
    BY <1>3, <1>10, <1>11, <1>12, <1>13, <1>14, <1>15 DEF ListInv

(***************************************************************************)
(* The slots.  Only claimed slots hold items, and a slot below deqidx is   *)
(* emptied or about to be, by the one consumer that claimed it.            *)
(***************************************************************************)
Claims(t, n, s) == pc[t] = "take" /\ ptr[t] = n /\ idx[t] = s

SlotsFilled ==
    \A n \in Nodes, s \in Slots : Visible(n) =>
          /\ node[n].items[s] \in Items => s < node[n].enqidx
          /\ s < node[n].deqidx => node[n].items[s] = Taken \/ \E t \in Consumers : Claims(t, n, s)

SlotsDrained == \A n \in Nodes : Retired(n) => node[n].deqidx >= NodeSize

IndexBounds ==
    \A t \in Threads :
          /\ pc[t] = "put" => idx[t] < node[ptr[t]].enqidx
          /\ pc[t] = "take" => idx[t] < node[ptr[t]].deqidx
          /\ pc[t] = "loadEnqidx" => idx[t] <= node[ptr[t]].deqidx
          /\ pc[t] \in {"nextHead", "casHead"} => node[ptr[t]].deqidx >= NodeSize

SlotsClaimed == SlotsFilled /\ SlotsDrained /\ IndexBounds

SlotsSame(n) ==
    node'[n].items = node[n].items /\ node'[n].enqidx = node[n].enqidx /\ node'[n].deqidx = node[n].deqidx

\* A step that claims and fills no slot.
NoSlot(t) ==
    /\ Local(t) /\ pc[t] # "take" /\ pc'[t] \notin {"take", "put", "nextHead"}
    /\ \A n \in Nodes : Visible(n)' => \/ Visible(n) /\ SlotsSame(n)
                                      \/ /\ node'[n].deqidx = 0
                                         /\ \A s \in Slots : node'[n].items[s] \in Items => s < node'[n].enqidx
    /\ \A n \in Nodes : Retired(n)' => \/ Retired(n) /\ SlotsSame(n)
                                      \/ node'[n].deqidx >= NodeSize
    /\ \A u \in Threads : ptr[u] \in Nodes => SlotsSame(ptr[u])
    /\ pc'[t] = "loadEnqidx" => ptr'[t] = ptr[t] /\ ptr[t] \in Nodes /\ idx'[t] = node[ptr[t]].deqidx
    /\ pc'[t] = "casHead" => ptr'[t] = ptr[t] /\ pc[t] = "nextHead"

\* A step that claims and fills no slot keeps what is known of the slots.
LEMMA NoSlotClaimed ==
  ASSUME TypeInv, TypeInv', SlotsClaimed, NEW t \in Threads, NoSlot(t)
  PROVE  SlotsClaimed'
  <1>1. \A n \in Nodes : /\ node[n].enqidx \in Nat /\ node[n].deqidx \in Nat
                         /\ node'[n].enqidx \in Nat /\ node'[n].deqidx \in Nat
    BY DEF TypeInv, TypeOK
  <1>2. \A u \in Threads, n \in Nodes, s \in Slots : Claims(u, n, s)' <=> Claims(u, n, s)
    BY DEF NoSlot, Local, Claims
  <1>3. SlotsFilled'
    <2>1. ASSUME NEW n \in Nodes, NEW s \in Slots, Visible(n)'
          PROVE  /\ node'[n].items[s] \in Items => s < node'[n].enqidx
                 /\ s < node'[n].deqidx => node'[n].items[s] = Taken \/ \E u \in Consumers : Claims(u, n, s)'
      <3>1. CASE Visible(n) /\ SlotsSame(n)
        BY <1>2, <3>1, QueueFacts DEF SlotsSame, SlotsClaimed, SlotsFilled
      <3>2. CASE node'[n].deqidx = 0 /\ \A i \in Slots : node'[n].items[i] \in Items => i < node'[n].enqidx
        BY <3>2, QueueFacts
      <3> QED
        BY <2>1, <3>1, <3>2 DEF NoSlot
    <2> QED
      BY <2>1 DEF SlotsFilled
  <1>4. SlotsDrained'
    BY DEF NoSlot, SlotsSame, SlotsClaimed, SlotsDrained
  <1>5. IndexBounds'
    <2>1. ASSUME NEW u \in Threads
          PROVE  /\ pc'[u] = "put" => idx'[u] < node'[ptr'[u]].enqidx
                 /\ pc'[u] = "take" => idx'[u] < node'[ptr'[u]].deqidx
                 /\ pc'[u] = "loadEnqidx" => idx'[u] <= node'[ptr'[u]].deqidx
                 /\ pc'[u] \in {"nextHead", "casHead"} => node'[ptr'[u]].deqidx >= NodeSize
      <3>1. CASE u = t
        <4>1. /\ pc'[u] = "loadEnqidx" => ptr'[u] = ptr[u] /\ ptr[u] \in Nodes /\ idx'[u] = node[ptr[u]].deqidx /\ SlotsSame(ptr[u])
              /\ pc'[u] = "casHead" => ptr'[u] = ptr[u] /\ ptr[u] \in Nodes /\ pc[u] = "nextHead" /\ SlotsSame(ptr[u])
              /\ pc'[u] \notin {"take", "put", "nextHead"}
          BY <3>1 DEF NoSlot, TypeInv, HoldsNode
        <4> QED
          BY <1>1, <4>1 DEF SlotsSame, SlotsClaimed, IndexBounds
      <3>2. CASE u # t
        <4>1. /\ pc'[u] = pc[u] /\ idx'[u] = idx[u] /\ ptr'[u] = ptr[u]
              /\ pc[u] \in {"put", "take", "loadEnqidx", "nextHead", "casHead"} => SlotsSame(ptr[u])
          BY <3>2 DEF NoSlot, Local, TypeInv, HoldsNode
        <4> QED
          BY <4>1 DEF SlotsSame, SlotsClaimed, IndexBounds
      <3> QED
        BY <3>1, <3>2
    <2> QED
      BY <2>1 DEF IndexBounds
  <1> QED
    BY <1>3, <1>4, <1>5 DEF SlotsClaimed

\* A claim on enqidx keeps it.
LEMMA ClaimEnqSlots ==
  ASSUME TypeInv, TypeInv', SlotsClaimed, NEW t \in Producers, ClaimEnq(t), Steady(t)
  PROVE  SlotsClaimed'
  <1>1. t \in Threads /\ t \notin Consumers
    BY QueueFacts
  <1>2. PICK m \in Nodes : m = ptr[t]
    BY <1>1, ClaimEnqEffect
  <1>3. /\ Local(t) /\ pc[t] = "claimEnq" /\ pc'[t] \in {"put", "reloadTail"}
        /\ ptr'[t] = m /\ idx'[t] = node[m].enqidx
        /\ OthersKept(m)
        /\ node'[m].enqidx = node[m].enqidx + 1 /\ node'[m].deqidx = node[m].deqidx
        /\ node'[m].items = node[m].items
    BY <1>1, <1>2, ClaimEnqEffect
  <1>4. \A n \in Nodes : node[n].enqidx \in Nat /\ node[n].deqidx \in Nat
    BY DEF TypeInv, TypeOK
  <1>5. \A n \in Nodes : node'[n].items = node[n].items /\ node'[n].deqidx = node[n].deqidx /\ node[n].enqidx <= node'[n].enqidx
    BY <1>3, <1>4 DEF OthersKept
  <1>6. \A u \in Threads, n \in Nodes, s \in Slots : Claims(u, n, s)' <=> Claims(u, n, s)
    BY <1>3 DEF Local, Claims
  <1>7. SlotsFilled'
    <2>1. \A n \in Nodes, s \in Slots : s < node[n].enqidx => s < node'[n].enqidx
      BY <1>3, <1>4, QueueFacts DEF OthersKept
    <2> QED
      BY <1>1, <1>5, <1>6, <2>1, SteadySame, QueueFacts DEF SlotsClaimed, SlotsFilled
  <1>8. SlotsDrained'
    BY <1>1, <1>5, SteadySame DEF SlotsClaimed, SlotsDrained
  <1>9. IndexBounds'
    <2>1. ASSUME NEW u \in Threads
          PROVE  /\ pc'[u] = "put" => idx'[u] < node'[ptr'[u]].enqidx
                 /\ pc'[u] = "take" => idx'[u] < node'[ptr'[u]].deqidx
                 /\ pc'[u] = "loadEnqidx" => idx'[u] <= node'[ptr'[u]].deqidx
                 /\ pc'[u] \in {"nextHead", "casHead"} => node'[ptr'[u]].deqidx >= NodeSize
      <3>1. CASE u = t
        BY <1>3, <1>4, <3>1
      <3>2. CASE u # t
        <4>1. /\ pc'[u] = pc[u] /\ idx'[u] = idx[u] /\ ptr'[u] = ptr[u] /\ idx[u] \in Nat
              /\ pc[u] \in {"put", "take", "loadEnqidx", "nextHead", "casHead"} => ptr[u] \in Nodes
          BY <1>3, <3>2 DEF Local, TypeInv, TypeOK, HoldsNode
        <4>2. \A n \in Nodes : idx[u] < node[n].enqidx => idx[u] < node'[n].enqidx
          BY <1>3, <1>4, <4>1 DEF OthersKept
        <4> QED
          BY <1>5, <4>1, <4>2 DEF SlotsClaimed, IndexBounds
      <3> QED
        BY <3>1, <3>2
    <2> QED
      BY <2>1 DEF IndexBounds
  <1> QED
    BY <1>7, <1>8, <1>9 DEF SlotsClaimed

\* A claim on deqidx keeps it: the slot below the new deqidx is the claimer's.
LEMMA ClaimDeqSlots ==
  ASSUME TypeInv, TypeInv', SlotsClaimed, NEW t \in Consumers, ClaimDeq(t), Steady(t)
  PROVE  SlotsClaimed'
  <1>1. t \in Threads /\ t \notin Producers
    BY QueueFacts
  <1>2. PICK m \in Nodes : m = ptr[t]
    BY <1>1, ClaimDeqEffect
  <1>3. /\ Local(t) /\ pc[t] = "claimDeq" /\ pc'[t] = IF idx'[t] \in Slots THEN "take" ELSE "nextHead"
        /\ ptr'[t] = m /\ idx'[t] = node[m].deqidx
        /\ OthersKept(m)
        /\ node'[m].enqidx = node[m].enqidx /\ node'[m].deqidx = node[m].deqidx + 1
        /\ node'[m].items = node[m].items
    BY <1>1, <1>2, ClaimDeqEffect
  <1>4. \A n \in Nodes : node[n].enqidx \in Nat /\ node[n].deqidx \in Nat
    BY DEF TypeInv, TypeOK
  <1>5. \A n \in Nodes : /\ node'[n].items = node[n].items /\ node'[n].enqidx = node[n].enqidx
                         /\ node'[n].deqidx = node[n].deqidx + (IF n = m THEN 1 ELSE 0)
    BY <1>3, <1>4 DEF OthersKept
  <1>6. \A u \in Threads, n \in Nodes, s \in Slots : Claims(u, n, s) => Claims(u, n, s)'
    BY <1>3 DEF Local, Claims
  <1>7. SlotsFilled'
    <2>1. ASSUME NEW n \in Nodes, NEW s \in Slots, s < node'[n].deqidx, ~(s < node[n].deqidx)
          PROVE  Claims(t, n, s)'
      <3>1. n = m /\ s = node[m].deqidx
        BY <1>4, <1>5, <2>1, QueueFacts
      <3> QED
        BY <1>3, <3>1 DEF Claims
    <2> QED
      BY <1>1, <1>5, <1>6, <2>1, SteadySame, QueueFacts DEF SlotsClaimed, SlotsFilled
  <1>8. SlotsDrained'
    BY <1>1, <1>4, <1>5, SteadySame, QueueFacts DEF SlotsClaimed, SlotsDrained
  <1>9. IndexBounds'
    <2>1. ASSUME NEW u \in Threads
          PROVE  /\ pc'[u] = "put" => idx'[u] < node'[ptr'[u]].enqidx
                 /\ pc'[u] = "take" => idx'[u] < node'[ptr'[u]].deqidx
                 /\ pc'[u] = "loadEnqidx" => idx'[u] <= node'[ptr'[u]].deqidx
                 /\ pc'[u] \in {"nextHead", "casHead"} => node'[ptr'[u]].deqidx >= NodeSize
      <3>1. CASE u = t
        BY <1>3, <1>4, <3>1, QueueFacts
      <3>2. CASE u # t
        <4>1. /\ pc'[u] = pc[u] /\ idx'[u] = idx[u] /\ ptr'[u] = ptr[u] /\ idx[u] \in Nat
              /\ pc[u] \in {"put", "take", "loadEnqidx", "nextHead", "casHead"} => ptr[u] \in Nodes
          BY <1>3, <3>2 DEF Local, TypeInv, TypeOK, HoldsNode
        <4>2. \A n \in Nodes : /\ idx[u] < node[n].deqidx => idx[u] < node'[n].deqidx
                               /\ idx[u] <= node[n].deqidx => idx[u] <= node'[n].deqidx
                               /\ node[n].deqidx >= NodeSize => node'[n].deqidx >= NodeSize
          BY <1>4, <1>5, <4>1, QueueFacts
        <4> QED
          BY <1>5, <4>1, <4>2 DEF SlotsClaimed, IndexBounds
      <3> QED
        BY <3>1, <3>2
    <2> QED
      BY <2>1 DEF IndexBounds
  <1> QED
    BY <1>7, <1>8, <1>9 DEF SlotsClaimed

\* A slot is filled by the producer, or emptied by the consumer, that claimed it.
LEMMA SlotWritten ==
  ASSUME TypeInv, TypeInv', SlotsClaimed, NEW t \in Threads, Steady(t),
         NEW m \in Nodes, NEW i \in Slots, OthersKept(m), pc'[t] \in {"idle", "loadHead"},
         node'[m].enqidx = node[m].enqidx, node'[m].deqidx = node[m].deqidx,
         \A s \in Slots : s # i => node'[m].items[s] = node[m].items[s],
         node'[m].items[i] = Taken \/ (pc[t] # "take" /\ node[m].items[i] = Null /\ i < node[m].enqidx),
         \A n \in Nodes, s \in Slots : Claims(t, n, s) => n = m /\ s = i
  PROVE  SlotsClaimed'
  <1>1. \A n \in Nodes : node'[n].enqidx = node[n].enqidx /\ node'[n].deqidx = node[n].deqidx
    BY DEF OthersKept
  <1>2. \A u \in Threads, n \in Nodes, s \in Slots : u # t /\ Claims(u, n, s) => Claims(u, n, s)'
    BY DEF Steady, Local, Claims
  <1>3. SlotsFilled'
    <2>1. ASSUME NEW n \in Nodes, NEW s \in Slots, Visible(n)'
          PROVE  /\ node'[n].items[s] \in Items => s < node'[n].enqidx
                 /\ s < node'[n].deqidx => node'[n].items[s] = Taken \/ \E u \in Consumers : Claims(u, n, s)'
      <3>1. /\ node[n].items[s] \in Items => s < node[n].enqidx
            /\ s < node[n].deqidx => node[n].items[s] = Taken \/ \E u \in Consumers : Claims(u, n, s)
        BY <2>1, SteadySame DEF SlotsClaimed, SlotsFilled
      <3>2. CASE n = m /\ s = i
        <4>1. CASE node'[m].items[i] = Taken
          BY <3>2, <4>1, QueueFacts
        <4>2. CASE pc[t] # "take" /\ node[m].items[i] = Null /\ i < node[m].enqidx
          <5>1. ~Claims(t, n, s)
            BY <4>2 DEF Claims
          <5> QED
            BY <1>1, <1>2, <3>1, <3>2, <4>2, <5>1, QueueFacts
        <4> QED
          BY <4>1, <4>2
      <3>3. CASE ~(n = m /\ s = i)
        <4>1. node'[n].items[s] = node[n].items[s]
          BY <3>3 DEF OthersKept
        <4> QED
          BY <1>1, <1>2, <3>1, <3>3, <4>1, QueueFacts
      <3> QED
        BY <3>2, <3>3
    <2> QED
      BY <2>1 DEF SlotsFilled
  <1>4. SlotsDrained'
    BY <1>1, SteadySame DEF SlotsClaimed, SlotsDrained
  <1>5. IndexBounds'
    <2>1. ASSUME NEW u \in Threads
          PROVE  /\ pc'[u] = "put" => idx'[u] < node'[ptr'[u]].enqidx
                 /\ pc'[u] = "take" => idx'[u] < node'[ptr'[u]].deqidx
                 /\ pc'[u] = "loadEnqidx" => idx'[u] <= node'[ptr'[u]].deqidx
                 /\ pc'[u] \in {"nextHead", "casHead"} => node'[ptr'[u]].deqidx >= NodeSize
      <3>1. CASE u = t
        BY <3>1
      <3>2. CASE u # t
        <4>1. /\ pc'[u] = pc[u] /\ idx'[u] = idx[u] /\ ptr'[u] = ptr[u]
              /\ pc[u] \in {"put", "take", "loadEnqidx", "nextHead", "casHead"} => ptr[u] \in Nodes
          BY <3>2 DEF Steady, Local, TypeInv, HoldsNode
        <4> QED
          BY <1>1, <4>1 DEF SlotsClaimed, IndexBounds
      <3> QED
        BY <3>1, <3>2
    <2> QED
      BY <2>1 DEF IndexBounds
  <1> QED
    BY <1>3, <1>4, <1>5 DEF SlotsClaimed

(***************************************************************************)
(* The items.  An item is not begun, carried by one producer, linked by    *)
(* one producer, in one visible slot, or handed out; and whatever ended    *)
(* before an item began is ahead of it.                                    *)
(***************************************************************************)
InSlot(x, n, s) == Visible(n) /\ node[n].items[s] = x
Carries(t, x) == pc[t] \notin {"idle", "casTail"} /\ arg[t] = x
Linking(t, x) == pc[t] = "casTail" /\ arg[t] = x
Queued(x) == \E n \in Nodes, s \in Slots : InSlot(x, n, s)

ItemsApart ==
    /\ \A t \in Producers : pc[t] # "idle" => arg[t] \in Items /\ ptr[t] \in Nodes
    /\ \A t \in Consumers : pc[t] # "idle" => arg[t] = Null
    /\ \A x \in fresh : ~Queued(x) /\ x \notin out \cup ended /\ \A t \in Producers : pc[t] # "idle" => arg[t] # x
    /\ \A t \in Producers, x \in Items : Carries(t, x) => ~Queued(x) /\ x \notin out
    /\ \A t \in Producers, x \in Items : (Carries(t, x) \/ Linking(t, x)) =>
          x \notin ended /\ \A u \in Producers : (Carries(u, x) \/ Linking(u, x)) => u = t
    /\ \A x \in Items, n, m \in Nodes, s, i \in Slots : InSlot(x, n, s) =>
          x \notin out /\ (InSlot(x, m, i) => m = n /\ i = s)
    /\ ended \subseteq Items
    /\ \A x \in ended : x \in out \/ Queued(x)
    /\ \A t \in Producers, x \in Items : Linking(t, x) => x \in out \/ Queued(x)

FifoOrder(r) ==
    /\ \A x \in Items : before[x] \subseteq ended
    /\ \A y \in ended, n \in Nodes, s \in Slots : InSlot(y, n, s) => r[n] <= r[tail]
    /\ \A t \in Producers, y \in Items, n \in Nodes, s \in Slots :
          Linking(t, y) /\ InSlot(y, n, s) => r[n] = r[ptr[t]] + 1
    /\ \A t \in Producers, x \in Items, n \in Nodes, s \in Slots : Carries(t, x) =>
          \A y \in before[x] : InSlot(y, n, s) =>
             /\ r[n] <= r[ptr[t]]
             /\ pc[t] = "put" /\ n = ptr[t] => s < idx[t]
    /\ \A x \in Items, n, m \in Nodes, s, i \in Slots :
          \A y \in before[x] : InSlot(x, n, s) /\ InSlot(y, m, i) => r[m] < r[n] \/ (m = n /\ i < s)

EmptySeen ==
    \A t \in Consumers : pc[t] \in {"testNext", "nextHead"} /\ node[ptr[t]].next = Null => sawEmpty[t]

\* What the history records of a step of one thread.
LEMMA Observed ==
  ASSUME NEW t \in Threads, Local(t), Observe
  PROVE  /\ t \in Producers /\ Ends(t) => ended' = ended \cup {arg[t]}
         /\ ~(t \in Producers /\ Ends(t)) => ended' = ended
         /\ t \in Consumers /\ Ends(t) /\ arg'[t] \notin {Null, Taken} => out' = out \cup {arg'[t]}
         /\ ~(t \in Consumers /\ Ends(t) /\ arg'[t] \notin {Null, Taken}) => out' = out
         /\ \A x \in Items : before'[x] = IF x \in fresh \ fresh' THEN ended ELSE before[x]
         /\ \A u \in Consumers : pc'[u] # "idle" /\ pc[u] # "idle" /\ sawEmpty[u] => sawEmpty'[u]
         /\ \A u \in Consumers : pc'[u] # "idle" /\ NothingLeft' => sawEmpty'[u]
  <1>1. \A u \in Threads : Ends(u) => u = t
    BY DEF Ends, At, Local
  <1>2. /\ \A x : x \in ended' <=> x \in ended \/ \E u \in Producers : Ends(u) /\ x = arg[u]
        /\ \A x : x \in out' <=> x \in out \/ (x \notin {Null, Taken} /\ \E u \in Consumers : Ends(u) /\ x = arg'[u])
    BY DEF Observe
  <1>3. /\ t \in Producers /\ Ends(t) => ended' = ended \cup {arg[t]}
        /\ ~(t \in Producers /\ Ends(t)) => ended' = ended
    BY <1>1, <1>2, QueueFacts DEF Observe
  <1>4. /\ t \in Consumers /\ Ends(t) /\ arg'[t] \notin {Null, Taken} => out' = out \cup {arg'[t]}
        /\ ~(t \in Consumers /\ Ends(t) /\ arg'[t] \notin {Null, Taken}) => out' = out
    BY <1>1, <1>2, QueueFacts DEF Observe
  <1>5. \A x \in Items : before'[x] = IF x \in fresh \ fresh' THEN ended ELSE before[x]
    BY DEF Observe
  <1>6. \A u \in Consumers : sawEmpty'[u] = (pc'[u] # "idle" /\ (NothingLeft' \/ (~Begins(u) /\ sawEmpty[u])))
    BY DEF Observe
  <1>7. \A u \in Consumers : pc[u] # "idle" => ~Begins(u)
    BY DEF Begins, At
  <1> QED
    BY <1>3, <1>4, <1>5, <1>6, <1>7

\* A step that leaves every item where it is.
Quiet ==
    /\ \A x \in Items, n \in Nodes, s \in Slots : InSlot(x, n, s)' <=> InSlot(x, n, s)
    /\ \A u \in Producers : /\ (pc'[u] = "idle" <=> pc[u] = "idle") /\ (pc'[u] = "casTail" <=> pc[u] = "casTail")
                            /\ arg'[u] = arg[u]
                            /\ pc'[u] = "casTail" => ptr'[u] = ptr[u]
                            /\ ptr'[u] \in {ptr[u], tail}
    /\ \A u \in Consumers : pc'[u] # "idle" => arg'[u] = Null
    /\ fresh' = fresh /\ ended' = ended /\ out' = out
    /\ \A x \in Items : before'[x] = before[x]

\* A step that leaves every item where it is keeps the items apart.
LEMMA QuietItems ==
  ASSUME TypeInv, ItemsApart, Quiet
  PROVE  ItemsApart'
  <1>1. \A u \in Producers, x \in Items : (Carries(u, x)' <=> Carries(u, x)) /\ (Linking(u, x)' <=> Linking(u, x))
    BY DEF Quiet, Carries, Linking
  <1>2. \A x \in Items : Queued(x)' <=> Queued(x)
    BY DEF Quiet, Queued
  <1>3. tail \in Nodes /\ fresh \subseteq Items
    BY DEF TypeInv, TypeOK
  <1>4. \A u \in Producers : pc'[u] # "idle" => arg'[u] \in Items /\ ptr'[u] \in Nodes
    BY <1>3 DEF Quiet, ItemsApart
  <1>5. \A x \in fresh : ~Queued(x)' /\ x \notin out \cup ended /\ \A t \in Producers : pc'[t] # "idle" => arg'[t] # x
    BY <1>2, <1>3 DEF Quiet, ItemsApart
  <1>6. \A x \in Items, n, m \in Nodes, s, i \in Slots : InSlot(x, n, s)' =>
          x \notin out /\ (InSlot(x, m, i)' => m = n /\ i = s)
    BY DEF Quiet, ItemsApart
  <1>7. \A u \in Producers, x \in Items : Carries(u, x)' => ~Queued(x)' /\ x \notin out
    BY <1>1, <1>2 DEF ItemsApart
  <1>8. \A t \in Producers, x \in Items : (Carries(t, x)' \/ Linking(t, x)') =>
          x \notin ended /\ \A u \in Producers : (Carries(u, x)' \/ Linking(u, x)') => u = t
    BY <1>1 DEF ItemsApart
  <1>9. \A x \in ended : x \in out \/ Queued(x)'
    BY <1>2 DEF ItemsApart
  <1>10. \A t \in Producers, x \in Items : Linking(t, x)' => x \in out \/ Queued(x)'
    BY <1>1, <1>2 DEF ItemsApart
  <1>11. \A u \in Consumers : pc'[u] # "idle" => arg'[u] = Null
    BY DEF Quiet
  <1>12. ended \subseteq Items /\ fresh' = fresh /\ ended' = ended /\ out' = out
    BY DEF Quiet, ItemsApart
  <1> QED
    BY <1>4, <1>5, <1>6, <1>7, <1>8, <1>9, <1>10, <1>11, <1>12 DEF ItemsApart

\* It keeps their order as well.
LEMMA QuietFifo ==
  ASSUME TypeInv, TypeInv', SlotsClaimed, ItemsApart, Quiet,
         NEW r \in [Nodes -> Int], FifoOrder(r), r[tail] <= r[tail'],
         \A u \in Producers : pc'[u] = "put" =>
             ptr'[u] = ptr[u] /\ ((pc[u] = "put" /\ idx'[u] = idx[u]) \/ idx'[u] = node[ptr[u]].enqidx)
  PROVE  FifoOrder(r)'
  <1>1. \A u \in Producers, x \in Items : (Carries(u, x)' <=> Carries(u, x)) /\ (Linking(u, x)' <=> Linking(u, x))
    BY DEF Quiet, Carries, Linking
  <1>2. /\ ended \subseteq Items /\ ended' = ended
        /\ \A x \in Items : before'[x] = before[x] /\ before[x] \subseteq ended
    BY DEF Quiet, FifoOrder, ItemsApart
  <1>3. \A y \in Items, n \in Nodes, s \in Slots : InSlot(y, n, s)' <=> InSlot(y, n, s)
    BY DEF Quiet
  <1>4. tail \in Nodes /\ tail' \in Nodes
    BY DEF TypeInv, TypeOK
  <1>5. \A y \in ended, n \in Nodes, s \in Slots : InSlot(y, n, s)' => r[n] <= r[tail']
    BY <1>2, <1>3, <1>4 DEF FifoOrder, ItemsApart
  <1>6. \A u \in Producers, y \in Items, n \in Nodes, s \in Slots :
           Linking(u, y)' /\ InSlot(y, n, s)' => r[n] = r[ptr'[u]] + 1
    <2>1. \A u \in Producers, y \in Items : Linking(u, y)' => ptr'[u] = ptr[u] /\ Linking(u, y)
      BY <1>1 DEF Linking, Quiet
    <2> QED
      BY <1>3, <2>1 DEF FifoOrder
  <1>7. ASSUME NEW u \in Producers, NEW x \in Items, NEW n \in Nodes, NEW s \in Slots, Carries(u, x)',
               NEW y \in before[x], InSlot(y, n, s)'
        PROVE  r[n] <= r[ptr'[u]] /\ (pc'[u] = "put" /\ n = ptr'[u] => s < idx'[u])
    <2>1. Carries(u, x) /\ y \in Items /\ y \in ended /\ InSlot(y, n, s)
      BY <1>1, <1>2, <1>3, <1>7
    <2>2. /\ r[n] <= r[ptr[u]] /\ r[n] <= r[tail]
          /\ pc[u] = "put" /\ n = ptr[u] => s < idx[u]
      BY <2>1 DEF FifoOrder
    <2>3. r[n] <= r[ptr'[u]]
      BY <2>2 DEF Quiet
    <2>4. s < node[n].enqidx
      BY <2>1 DEF SlotsClaimed, SlotsFilled, InSlot
    <2> QED
      BY <2>2, <2>3, <2>4
  <1>8. \A x \in Items, n, m \in Nodes, s, i \in Slots :
          \A y \in before[x] : InSlot(x, n, s)' /\ InSlot(y, m, i)' => r[m] < r[n] \/ (m = n /\ i < s)
    BY <1>2, <1>3 DEF FifoOrder
  <1>9. \A t \in Producers, x \in Items, n \in Nodes, s \in Slots : Carries(t, x)' =>
          \A y \in before'[x] : InSlot(y, n, s)' =>
             r[n] <= r[ptr'[t]] /\ (pc'[t] = "put" /\ n = ptr'[t] => s < idx'[t])
    BY <1>2, <1>7
  <1>10. \A x \in Items, n, m \in Nodes, s, i \in Slots :
          \A y \in before'[x] : InSlot(x, n, s)' /\ InSlot(y, m, i)' => r[m] < r[n] \/ (m = n /\ i < s)
    BY <1>2, <1>8
  <1>11. \A x \in Items : before'[x] \subseteq ended'
    BY <1>2
  <1> QED
    BY <1>2, <1>5, <1>6, <1>9, <1>10, <1>11 DEF FifoOrder

(***************************************************************************)
(* All of it, and its preservation by each step.                           *)
(***************************************************************************)
QueueInv(r) == TypeInv /\ ListInv(r) /\ SlotsClaimed /\ ItemsApart /\ FifoOrder(r)

\* A step that reads the queue and changes only what is local to t.
LocalStep(t) ==
    /\ Local(t) /\ UNCHANGED <<shared, fresh>>
    /\ pc[t] \notin {"casNext", "casTail", "retire", "take"}
    /\ pc'[t] \notin {"casNext", "casTail", "retire", "take", "put", "nextHead"}
    /\ t \in Producers => pc[t] # "idle" /\ pc'[t] # "idle" /\ arg'[t] = arg[t] /\ ptr'[t] \in {ptr[t], tail}
    /\ t \in Consumers => arg'[t] = Null /\ ptr'[t] \in {ptr[t], head, Null}
    /\ pc'[t] \in {"helpTail", "casHead"} => ptr'[t] = ptr[t] /\ ptr[t] \in Nodes /\ aux'[t] = node[ptr[t]].next
    /\ pc'[t] = "loadEnqidx" => ptr'[t] = ptr[t] /\ ptr[t] \in Nodes /\ idx'[t] = node[ptr[t]].deqidx
    /\ pc'[t] = "casHead" => pc[t] = "nextHead"

\* A step that only reads the queue keeps the invariant.
LEMMA LocalKept ==
  ASSUME NEW r \in [Nodes -> Int], QueueInv(r), TypeInv', NEW t \in Threads, LocalStep(t), Observe
  PROVE  QueueInv(r)'
  <1>1. t \in Producers \/ t \in Consumers
    BY DEF Threads
  <1>2. Steady(t)
    BY <1>1 DEF Steady, LocalStep, shared
  <1>3. ListInv(r)'
    BY <1>2, SteadyList DEF QueueInv
  <1>4. SlotsClaimed'
    <2>1. NoSlot(t)
      BY <1>2, SteadySame DEF NoSlot, LocalStep, SlotsSame, shared
    <2> QED
      BY <2>1, NoSlotClaimed DEF QueueInv
  <1>5. Quiet
    <2>1. \A x \in Items, n \in Nodes, s \in Slots : InSlot(x, n, s)' <=> InSlot(x, n, s)
      BY <1>2, SteadySame DEF InSlot, LocalStep, shared
    <2>2. ended' = ended /\ out' = out /\ fresh' = fresh /\ \A x \in Items : before'[x] = before[x]
      BY <1>1, Observed, QueueFacts DEF LocalStep, Ends, At
    <2>3. \A u \in Producers : /\ (pc'[u] = "idle" <=> pc[u] = "idle") /\ (pc'[u] = "casTail" <=> pc[u] = "casTail")
                               /\ arg'[u] = arg[u] /\ ptr'[u] \in {ptr[u], tail}
                               /\ pc'[u] = "casTail" => ptr'[u] = ptr[u]
      BY QueueFacts DEF LocalStep, Local
    <2>4. \A u \in Consumers : pc'[u] # "idle" => arg'[u] = Null
      BY QueueFacts DEF LocalStep, Local, QueueInv, ItemsApart
    <2> QED
      BY <2>1, <2>2, <2>3, <2>4 DEF Quiet
  <1>6. ItemsApart'
    BY <1>5, QuietItems DEF QueueInv
  <1>7. FifoOrder(r)'
    <2>1. tail' = tail /\ r[tail] <= r[tail']
      BY DEF QueueInv, TypeInv, TypeOK, LocalStep, shared
    <2>2. \A u \in Producers : pc'[u] = "put" => ptr'[u] = ptr[u] /\ pc[u] = "put" /\ idx'[u] = idx[u]
      BY QueueFacts DEF LocalStep, Local
    <2> QED
      BY <1>5, <2>1, <2>2, QuietFifo DEF QueueInv
  <1> QED
    BY <1>3, <1>4, <1>6, <1>7 DEF QueueInv

\* The other threads that found their node drained stand by what they saw.
LEMMA EmptyKept ==
  ASSUME TypeInv, EmptySeen, NEW t \in Threads, Local(t), Observe,
         \A u \in Consumers : ptr[u] \in Nodes /\ node'[ptr[u]].next = Null => node[ptr[u]].next = Null,
         t \in Consumers /\ pc'[t] \in {"testNext", "nextHead"} => node'[ptr'[t]].next # Null \/ sawEmpty'[t]
  PROVE  EmptySeen'
  <1>1. ASSUME NEW u \in Consumers, pc'[u] \in {"testNext", "nextHead"}, node'[ptr'[u]].next = Null
        PROVE  sawEmpty'[u]
    <2>1. CASE u = t
      BY <1>1, <2>1
    <2>2. CASE u # t
      <3>1. u \in Threads /\ pc'[u] = pc[u] /\ ptr'[u] = ptr[u] /\ pc[u] # "idle" /\ pc'[u] # "idle"
        BY <1>1, <2>2, QueueFacts DEF Local
      <3>2. ptr[u] \in Nodes
        BY <1>1, <3>1 DEF TypeInv, HoldsNode
      <3>3. sawEmpty[u]
        BY <1>1, <3>1, <3>2 DEF EmptySeen
      <3> QED
        BY <3>1, <3>3, Observed
    <2> QED
      BY <2>1, <2>2
  <1> QED
    BY <1>1 DEF EmptySeen

\* The last node holds nothing, or has no slot, that no consumer claimed:
\* nothing is left.
LEMMA Drained ==
  ASSUME NEW r \in [Nodes -> Int], QueueInv(r), NEW m \in Nodes, Visible(m), r[m] <= r[head], node[m].next = Null,
         node[m].deqidx >= NodeSize \/ node[m].deqidx >= node[m].enqidx
  PROVE  NothingLeft
  <1>1. ASSUME NEW y \in ended, y \notin out
        PROVE  \E t \in Consumers : At(t, "take") /\ y = node[ptr[t]].items[idx[t]]
    <2>1. PICK n \in Nodes, s \in Slots : InSlot(y, n, s)
      BY <1>1 DEF QueueInv, ItemsApart, Queued
    <2>2. y \in Items /\ y # Taken /\ Visible(n) /\ node[n].items[s] = y
      BY <2>1, QueueFacts DEF InSlot, QueueInv, ItemsApart
    <2>3. head \in Nodes /\ r[n] <= r[m]
      BY <2>2 DEF QueueInv, ListInv, InOrder, TypeInv, TypeOK
    <2>4. s < node[n].deqidx
      <3>1. /\ node[n].enqidx \in Nat /\ node[n].deqidx \in Nat /\ s \in Nat /\ NodeSize \in Nat /\ s < NodeSize
            /\ s < node[n].enqidx
        BY <2>2, QueueFacts DEF QueueInv, SlotsClaimed, SlotsFilled, TypeInv, TypeOK
      <3>2. CASE n = m
        BY <3>1, <3>2
      <3>3. CASE n # m
        <4>1. r[n] < r[head]
          BY <2>2, <2>3, <3>3 DEF QueueInv, ListInv, InOrder
        <4>2. Retired(n)
          BY <2>2, <4>1 DEF QueueInv, ListInv, InOrder
        <4> QED
          BY <3>1, <4>2 DEF QueueInv, SlotsClaimed, SlotsDrained
      <3> QED
        BY <3>2, <3>3
    <2>5. PICK t \in Consumers : Claims(t, n, s)
      BY <2>2, <2>4 DEF QueueInv, SlotsClaimed, SlotsFilled
    <2> QED
      BY <2>2, <2>5 DEF Claims, At
  <1> QED
    BY <1>1 DEF NothingLeft, Claimed

\* When nothing was left, nothing is left after a step that ends no enqueue and takes no item.
LEMMA LeftKept ==
  ASSUME TypeInv, NothingLeft, NEW t \in Threads, Local(t), pc[t] # "take",
         \A n \in Nodes : node'[n].items = node[n].items, ended' = ended, out \subseteq out'
  PROVE  NothingLeft'
  <1>1. ASSUME NEW y \in ended, y \notin out
        PROVE  \E u \in Consumers : At(u, "take")' /\ y = node'[ptr'[u]].items[idx'[u]]
    <2>1. PICK u \in Consumers : At(u, "take") /\ y = node[ptr[u]].items[idx[u]]
      BY <1>1 DEF NothingLeft, Claimed
    <2>2. u \in Threads /\ u # t /\ ptr[u] \in Nodes
      BY <2>1, QueueFacts DEF At, TypeInv, HoldsNode
    <2>3. At(u, "take")' /\ ptr'[u] = ptr[u] /\ idx'[u] = idx[u]
      BY <2>1, <2>2 DEF Local, At
    <2> QED
      BY <2>1, <2>2, <2>3
  <1> QED
    BY <1>1 DEF NothingLeft, Claimed

\* The steps of enqueue that only read the queue.
LEMMA ProducerReads ==
  ASSUME TypeInv, NEW t \in Producers,
         LoadTail(t) \/ ReloadTail(t) \/ LoadNext(t) \/ (Put(t) /\ pc'[t] # "idle")
  PROVE  LocalStep(t)
  <1>1. t \in Threads /\ t \notin Consumers
    BY QueueFacts
  <1>2. CASE LoadTail(t)
    BY <1>1, <1>2, LoadTailEffect DEF LocalStep
  <1>3. CASE ReloadTail(t)
    BY <1>1, <1>3, ReloadTailEffect DEF LocalStep
  <1>4. CASE LoadNext(t)
    BY <1>1, <1>4, LoadNextEffect DEF LocalStep, TypeInv, HoldsNode
  <1>5. CASE Put(t) /\ pc'[t] # "idle"
    BY <1>1, <1>5, PutEffect DEF LocalStep, shared
  <1> QED
    BY <1>2, <1>3, <1>4, <1>5

\* The steps of dequeue that only read the queue.
LEMMA ConsumerReads ==
  ASSUME TypeInv, ItemsApart, NEW t \in Consumers,
         \/ BeginDequeue(t) \/ LoadHead(t) \/ LoadDeqidx(t) \/ LoadEnqidx(t) \/ TestNext(t) \/ NextHead(t)
         \/ SwingHead(t) /\ head # ptr[t]
  PROVE  LocalStep(t)
  <1>1. t \in Threads /\ t \notin Producers /\ (pc[t] # "idle" => arg[t] = Null)
    BY QueueFacts DEF ItemsApart
  <1>2. CASE BeginDequeue(t)
    BY <1>1, <1>2, BeginDequeueEffect DEF LocalStep
  <1>3. CASE LoadHead(t)
    BY <1>1, <1>3, LoadHeadEffect DEF LocalStep
  <1>4. CASE LoadDeqidx(t)
    BY <1>1, <1>4, LoadDeqidxEffect DEF LocalStep, TypeInv, HoldsNode
  <1>5. CASE LoadEnqidx(t)
    BY <1>1, <1>5, LoadEnqidxEffect DEF LocalStep
  <1>6. CASE TestNext(t)
    BY <1>1, <1>6, TestNextEffect DEF LocalStep
  <1>7. CASE NextHead(t)
    BY <1>1, <1>7, NextHeadEffect DEF LocalStep, TypeInv, HoldsNode
  <1>8. CASE SwingHead(t) /\ head # ptr[t]
    BY <1>1, <1>8, SwingHeadEffect DEF LocalStep, shared
  <1> QED
    BY <1>2, <1>3, <1>4, <1>5, <1>6, <1>7, <1>8

\* They keep the invariant, and who goes on to look for a next node saw the queue empty
\* when there is none.
LEMMA ReadsKept ==
  ASSUME NEW r \in [Nodes -> Int], QueueInv(r), EmptySeen, TypeInv', NEW t \in Threads, LocalStep(t), Observe,
         t \in Consumers => BeginDequeue(t) \/ LoadHead(t) \/ LoadDeqidx(t) \/ LoadEnqidx(t) \/ TestNext(t)
                            \/ NextHead(t) \/ SwingHead(t)
  PROVE  QueueInv(r)' /\ EmptySeen'
  <1>1. QueueInv(r)'
    BY LocalKept
  <1>2. TypeInv /\ Local(t) /\ node' = node
    BY DEF QueueInv, LocalStep, shared
  <1>3. ASSUME t \in Consumers, pc'[t] \in {"testNext", "nextHead"}, node'[ptr'[t]].next = Null
        PROVE  sawEmpty'[t]
    <2>1. LoadEnqidx(t)
      BY <1>2, <1>3, BeginDequeueEffect, LoadHeadEffect, LoadDeqidxEffect, TestNextEffect, NextHeadEffect, SwingHeadEffect
    <2>2. /\ pc[t] = "loadEnqidx" /\ pc'[t] = "testNext" /\ ptr'[t] = ptr[t]
          /\ idx[t] >= node[ptr[t]].enqidx
      BY <1>2, <1>3, <2>1, LoadEnqidxEffect
    <2>3. PICK m \in Nodes : m = ptr[t]
      BY <1>2, <2>2 DEF TypeInv, HoldsNode
    <2>4. Visible(m) /\ r[m] <= r[head] /\ node[m].next = Null
      BY <1>2, <1>3, <2>2, <2>3, QueueFacts DEF QueueInv, ListInv, HeldVisible, HeldInOrder
    <2>5. node[m].deqidx >= node[m].enqidx
      <3>1. idx[t] <= node[m].deqidx /\ node[m].deqidx \in Nat /\ node[m].enqidx \in Nat /\ idx[t] \in Nat
        BY <1>2, <2>2, <2>3 DEF QueueInv, SlotsClaimed, IndexBounds, TypeInv, TypeOK
      <3> QED
        BY <2>2, <2>3, <3>1
    <2>6. NothingLeft
      BY <2>4, <2>5, Drained
    <2>7. ended' = ended /\ out \subseteq out'
      BY <1>2, <1>3, Observed, QueueFacts
    <2>8. NothingLeft'
      BY <1>2, <2>2, <2>6, <2>7, LeftKept
    <2> QED
      BY <1>2, <1>3, <2>8, Observed
  <1> QED
    BY <1>1, <1>2, <1>3, EmptyKept

\* A step within an operation that moves no item.
WithinCall(t) ==
    /\ Local(t) /\ fresh' = fresh
    /\ pc[t] \notin {"idle", "casTail"} /\ pc'[t] \notin {"idle", "casTail"}
    /\ arg'[t] = arg[t] /\ (t \in Producers => ptr'[t] = ptr[t])
    /\ pc'[t] = "put" => idx'[t] = node[ptr[t]].enqidx
    /\ \A x \in Items, n \in Nodes, s \in Slots : InSlot(x, n, s)' <=> InSlot(x, n, s)

\* A step within an operation that moves no item keeps the invariant.
LEMMA WithinKept ==
  ASSUME NEW r \in [Nodes -> Int], QueueInv(r), TypeInv', ListInv(r)', SlotsClaimed', r[tail] <= r[tail'],
         NEW t \in Threads, WithinCall(t), Observe
  PROVE  QueueInv(r)' /\ ended' = ended /\ out' = out
  <1>1. ended' = ended /\ out' = out /\ \A x \in Items : before'[x] = before[x]
    BY Observed, QueueFacts DEF WithinCall, Ends, At
  <1>2. Quiet
    <2>1. \A u \in Producers : /\ (pc'[u] = "idle" <=> pc[u] = "idle") /\ (pc'[u] = "casTail" <=> pc[u] = "casTail")
                               /\ arg'[u] = arg[u] /\ ptr'[u] \in {ptr[u], tail}
                               /\ pc'[u] = "casTail" => ptr'[u] = ptr[u]
      BY QueueFacts DEF WithinCall, Local
    <2>2. \A u \in Consumers : pc'[u] # "idle" => arg'[u] = Null
      BY QueueFacts DEF WithinCall, Local, QueueInv, ItemsApart
    <2> QED
      BY <1>1, <2>1, <2>2 DEF Quiet, WithinCall
  <1>3. \A u \in Producers : pc'[u] = "put" =>
           ptr'[u] = ptr[u] /\ ((pc[u] = "put" /\ idx'[u] = idx[u]) \/ idx'[u] = node[ptr[u]].enqidx)
    BY QueueFacts DEF WithinCall, Local
  <1>4. ItemsApart'
    BY <1>2, QuietItems DEF QueueInv
  <1>5. FifoOrder(r)'
    BY <1>2, <1>3, QuietFifo DEF QueueInv
  <1> QED
    BY <1>1, <1>4, <1>5 DEF QueueInv

\* ClaimEnq keeps the invariant.
LEMMA ClaimEnqKept ==
  ASSUME NEW r \in [Nodes -> Int], QueueInv(r), EmptySeen, TypeInv', NEW t \in Producers, ClaimEnq(t), Observe
  PROVE  QueueInv(r)' /\ EmptySeen'
  <1>1. t \in Threads /\ t \notin Consumers /\ TypeInv
    BY QueueFacts DEF QueueInv
  <1>2. PICK m \in Nodes : m = ptr[t]
    BY <1>1, ClaimEnqEffect
  <1>3. /\ Local(t) /\ pc[t] = "claimEnq" /\ pc'[t] \in {"put", "reloadTail"}
        /\ ptr'[t] = m /\ idx'[t] = node[m].enqidx /\ aux'[t] = aux[t] /\ arg'[t] = arg[t]
        /\ OthersKept(m) /\ node'[m].items = node[m].items /\ node'[m].next = node[m].next
        /\ UNCHANGED <<head, tail, ring, unused, fresh>>
    BY <1>1, <1>2, ClaimEnqEffect
  <1>4. Visible(m)
    BY <1>1, <1>2, QueueFacts DEF QueueInv, ListInv, HeldVisible
  <1>5. /\ \A n \in Nodes : node'[n].items = node[n].items /\ node'[n].next = node[n].next
        /\ \A n \in Nodes : ~Visible(n) => node'[n] = node[n]
    BY <1>3, <1>4 DEF OthersKept
  <1>6. Steady(t)
    BY <1>2, <1>3, <1>5 DEF Steady
  <1>7. ListInv(r)'
    BY <1>1, <1>6, SteadyList DEF QueueInv
  <1>8. SlotsClaimed'
    BY <1>1, <1>6, ClaimEnqSlots DEF QueueInv
  <1>9. WithinCall(t)
    BY <1>1, <1>2, <1>3, <1>5, <1>6, SteadySame DEF WithinCall, InSlot
  <1>10. r[tail] <= r[tail']
    BY <1>1, <1>3 DEF TypeInv, TypeOK
  <1>11. QueueInv(r)'
    BY <1>1, <1>7, <1>8, <1>9, <1>10, WithinKept
  <1>12. EmptySeen'
    BY <1>1, <1>3, <1>5, EmptyKept
  <1> QED
    BY <1>11, <1>12

\* ClaimDeq keeps the invariant; who drew no slot saw the queue empty when there is no next node.
LEMMA ClaimDeqKept ==
  ASSUME NEW r \in [Nodes -> Int], QueueInv(r), EmptySeen, TypeInv', NEW t \in Consumers, ClaimDeq(t), Observe
  PROVE  QueueInv(r)' /\ EmptySeen'
  <1>1. t \in Threads /\ t \notin Producers /\ TypeInv
    BY QueueFacts DEF QueueInv
  <1>2. PICK m \in Nodes : m = ptr[t]
    BY <1>1, ClaimDeqEffect
  <1>3. /\ Local(t) /\ pc[t] = "claimDeq" /\ pc'[t] = IF idx'[t] \in Slots THEN "take" ELSE "nextHead"
        /\ ptr'[t] = m /\ idx'[t] = node[m].deqidx /\ aux'[t] = aux[t] /\ arg'[t] = arg[t]
        /\ OthersKept(m) /\ node'[m].items = node[m].items /\ node'[m].next = node[m].next
        /\ UNCHANGED <<head, tail, ring, unused, fresh>>
    BY <1>1, <1>2, ClaimDeqEffect
  <1>4. Visible(m)
    BY <1>1, <1>2, QueueFacts DEF QueueInv, ListInv, HeldVisible
  <1>5. /\ \A n \in Nodes : node'[n].items = node[n].items /\ node'[n].next = node[n].next
        /\ \A n \in Nodes : ~Visible(n) => node'[n] = node[n]
    BY <1>3, <1>4 DEF OthersKept
  <1>6. Steady(t)
    BY <1>2, <1>3, <1>5 DEF Steady
  <1>7. ListInv(r)'
    BY <1>1, <1>6, SteadyList DEF QueueInv
  <1>8. SlotsClaimed'
    BY <1>1, <1>6, ClaimDeqSlots DEF QueueInv
  <1>9. WithinCall(t)
    BY <1>1, <1>2, <1>3, <1>5, <1>6, SteadySame DEF WithinCall, InSlot
  <1>10. r[tail] <= r[tail']
    BY <1>1, <1>3 DEF TypeInv, TypeOK
  <1>11. QueueInv(r)' /\ ended' = ended /\ out' = out
    BY <1>1, <1>7, <1>8, <1>9, <1>10, WithinKept
  <1>12. ASSUME pc'[t] \in {"testNext", "nextHead"}, node'[ptr'[t]].next = Null
         PROVE  sawEmpty'[t]
    <2>1. /\ pc'[t] = "nextHead" /\ node[m].deqidx \notin Slots
          /\ node[m].next = Null
      BY <1>3, <1>12
    <2>2. node[m].deqidx >= NodeSize
      BY <2>1, <1>1, QueueFacts DEF TypeInv, TypeOK
    <2>3. r[m] <= r[head]
      BY <1>1, <1>2, QueueFacts DEF QueueInv, ListInv, HeldInOrder
    <2>4. NothingLeft
      BY <1>4, <2>1, <2>2, <2>3, Drained
    <2>5. NothingLeft'
      BY <1>1, <1>3, <1>5, <1>11, <2>4, LeftKept
    <2> QED
      BY <1>1, <1>3, <2>1, <2>5, Observed
  <1>13. EmptySeen'
    BY <1>1, <1>3, <1>5, <1>12, EmptyKept
  <1> QED
    BY <1>11, <1>13

\* AcquireNode keeps the invariant.
LEMMA AcquireKept ==
  ASSUME ~ReusesHeld, NEW r \in [Nodes -> Int], QueueInv(r), EmptySeen, TypeInv',
         NEW t \in Producers, AcquireNode(t), Observe
  PROVE  QueueInv(r)' /\ EmptySeen'
  <1>1. t \in Threads /\ t \notin Consumers /\ TypeInv
    BY QueueFacts DEF QueueInv
  <1>2. /\ Local(t) /\ pc[t] = "newNode" /\ pc'[t] = "casNext"
        /\ ptr'[t] = ptr[t] /\ idx'[t] = idx[t] /\ arg'[t] = arg[t]
        /\ UNCHANGED <<head, tail, fresh>>
    BY <1>1, AcquireNodeEffect
  <1>3. ListInv(r)'
    BY <1>1, AcquireList DEF QueueInv
  <1>4. PICK n \in Nodes :
              /\ ~Visible(n)' /\ aux'[t] = n /\ (n \in unused \/ Retired(n))
              /\ \A m \in Nodes : Visible(m)' => m # n /\ Visible(m) /\ node'[m] = node[m]
              /\ \A m \in Nodes : m # n /\ Visible(m) => Visible(m)'
              /\ \A m \in Nodes : m # n => (Retired(m)' <=> Retired(m))
              /\ \A u \in Threads : ptr[u] # n
              /\ n # head /\ n # tail
    BY <1>1, AcquireList DEF QueueInv
  <1>5. \A m \in Nodes : Retired(m)' => Visible(m)' /\ Retired(m) /\ node'[m] = node[m]
    BY <1>3, <1>4 DEF ListInv, NodesApart
  <1>6. \A u \in Threads : ptr[u] \in Nodes => node'[ptr[u]] = node[ptr[u]]
    <2>1. ASSUME NEW u \in Threads, ptr[u] \in Nodes PROVE node'[ptr[u]] = node[ptr[u]]
      <3>1. PICK m \in Nodes : m = ptr[u]
        BY <2>1
      <3>2. Visible(m) /\ m # n
        BY <1>4, <2>1, <3>1, QueueFacts DEF QueueInv, ListInv, HeldVisible
      <3> QED
        BY <1>4, <3>1, <3>2
    <2> QED
      BY <2>1
  <1>7. SlotsClaimed'
    <2>1. NoSlot(t)
      BY <1>2, <1>4, <1>5, <1>6 DEF NoSlot, SlotsSame
    <2> QED
      BY <1>1, <2>1, NoSlotClaimed DEF QueueInv
  <1>8. \A x \in Items, s \in Slots : ~InSlot(x, n, s)
    <2>1. SUFFICES ASSUME NEW x \in Items, NEW s \in Slots, InSlot(x, n, s) PROVE FALSE
      OBVIOUS
    <2>2. Visible(n) /\ node[n].items[s] = x /\ Retired(n)
      BY <1>4, <2>1 DEF InSlot, Visible
    <2>3. s < node[n].deqidx
      <3>1. node[n].deqidx >= NodeSize /\ node[n].deqidx \in Nat
        BY <1>1, <2>2 DEF QueueInv, SlotsClaimed, SlotsDrained, TypeInv, TypeOK
      <3> QED
        BY <3>1, QueueFacts
    <2>4. PICK u \in Consumers : Claims(u, n, s)
      BY <2>2, <2>3, QueueFacts DEF QueueInv, SlotsClaimed, SlotsFilled
    <2> QED
      BY <1>4, <2>4, QueueFacts DEF Claims
  <1>9. \A x \in Items, m \in Nodes, s \in Slots : InSlot(x, m, s)' <=> InSlot(x, m, s)
    BY <1>4, <1>8 DEF InSlot
  <1>10. WithinCall(t)
    BY <1>1, <1>2, <1>9 DEF WithinCall
  <1>11. r[tail] <= r[tail']
    BY <1>1, <1>2 DEF TypeInv, TypeOK
  <1>12. QueueInv(r)'
    BY <1>1, <1>3, <1>7, <1>10, <1>11, WithinKept
  <1>13. EmptySeen'
    BY <1>1, <1>2, <1>6, QueueFacts, EmptyKept
  <1> QED
    BY <1>12, <1>13

\* LinkNode keeps the invariant when its CAS fails.
LEMMA UnlinkedKept ==
  ASSUME NEW r \in [Nodes -> Int], QueueInv(r), EmptySeen, TypeInv',
         NEW t \in Producers, LinkNode(t), node[ptr[t]].next # Null, Observe
  PROVE  QueueInv(r)' /\ EmptySeen'
  <1>1. t \in Threads /\ t \notin Consumers /\ TypeInv
    BY QueueFacts DEF QueueInv
  <1>2. /\ Local(t) /\ pc[t] = "casNext" /\ pc'[t] = "loadTail"
        /\ ptr'[t] = ptr[t] /\ aux'[t] = aux[t] /\ idx'[t] = idx[t] /\ arg'[t] = arg[t]
        /\ fresh' = fresh
    BY <1>1, LinkNodeEffect
  <1>3. /\ ListInv(r)' /\ node' = node /\ UNCHANGED <<head, tail>>
        /\ \A x \in Nodes : (Visible(x)' <=> Visible(x)) /\ (Retired(x)' <=> Retired(x))
    BY <1>1, UnlinkedList DEF QueueInv
  <1>4. SlotsClaimed'
    <2>1. NoSlot(t)
      BY <1>2, <1>3 DEF NoSlot, SlotsSame
    <2> QED
      BY <1>1, <2>1, NoSlotClaimed DEF QueueInv
  <1>5. WithinCall(t)
    BY <1>1, <1>2, <1>3 DEF WithinCall, InSlot
  <1>6. r[tail] <= r[tail']
    BY <1>1, <1>3 DEF TypeInv, TypeOK
  <1>7. QueueInv(r)'
    BY <1>1, <1>3, <1>4, <1>5, <1>6, WithinKept
  <1>8. EmptySeen'
    BY <1>1, <1>2, <1>3, EmptyKept
  <1> QED
    BY <1>7, <1>8

\* HelpTail keeps the invariant.
LEMMA HelpTailKept ==
  ASSUME NEW r \in [Nodes -> Int], QueueInv(r), EmptySeen, TypeInv', NEW t \in Producers, HelpTail(t), Observe
  PROVE  QueueInv(r)' /\ EmptySeen'
  <1>1. t \in Threads /\ t \notin Consumers /\ TypeInv
    BY QueueFacts DEF QueueInv
  <1>2. /\ Local(t) /\ pc[t] = "helpTail" /\ pc'[t] = "loadTail"
        /\ ptr'[t] = ptr[t] /\ idx'[t] = idx[t] /\ arg'[t] = arg[t] /\ fresh' = fresh
    <2>1. pc[t] = "helpTail"
      BY DEF HelpTail, At
    <2> QED
      BY <1>1, <2>1, SwingTailEffect
  <1>3. /\ ListInv(r)' /\ node' = node /\ UNCHANGED <<head, ring, unused>>
        /\ \A x \in Nodes : (Visible(x)' <=> Visible(x)) /\ (Retired(x)' <=> Retired(x))
        /\ r[tail] <= r[tail']
    BY <1>1, SwingTailList DEF QueueInv
  <1>4. SlotsClaimed'
    <2>1. NoSlot(t)
      BY <1>2, <1>3 DEF NoSlot, SlotsSame
    <2> QED
      BY <1>1, <2>1, NoSlotClaimed DEF QueueInv
  <1>5. WithinCall(t)
    BY <1>1, <1>2, <1>3 DEF WithinCall, InSlot
  <1>6. QueueInv(r)'
    BY <1>1, <1>3, <1>4, <1>5, WithinKept
  <1>7. EmptySeen'
    BY <1>1, <1>2, <1>3, EmptyKept
  <1> QED
    BY <1>6, <1>7

\* SwingHead keeps the invariant.
LEMMA SwingHeadKept ==
  ASSUME NEW r \in [Nodes -> Int], QueueInv(r), EmptySeen, TypeInv',
         NEW t \in Consumers, SwingHead(t), head = ptr[t], Observe
  PROVE  QueueInv(r)' /\ EmptySeen'
  <1>1. t \in Threads /\ t \notin Producers /\ TypeInv
    BY QueueFacts DEF QueueInv
  <1>2. /\ Local(t) /\ pc[t] = "casHead" /\ pc'[t] = "retire"
        /\ idx'[t] = idx[t] /\ arg'[t] = arg[t] /\ fresh' = fresh
    BY <1>1, SwingHeadEffect
  <1>3. /\ ListInv(r)' /\ node' = node /\ UNCHANGED <<tail, ring, unused>>
        /\ \A x \in Nodes : (Visible(x)' <=> Visible(x)) /\ (Retired(x)' <=> Retired(x) \/ x = head)
    BY <1>1, SwingHeadList DEF QueueInv
  <1>4. node[head].deqidx >= NodeSize
    BY <1>1, <1>2 DEF QueueInv, SlotsClaimed, IndexBounds
  <1>5. SlotsClaimed'
    <2>1. NoSlot(t)
      BY <1>2, <1>3, <1>4 DEF NoSlot, SlotsSame
    <2> QED
      BY <1>1, <2>1, NoSlotClaimed DEF QueueInv
  <1>6. WithinCall(t)
    BY <1>1, <1>2, <1>3 DEF WithinCall, InSlot
  <1>7. r[tail] <= r[tail']
    BY <1>1, <1>3 DEF TypeInv, TypeOK
  <1>8. QueueInv(r)'
    BY <1>1, <1>3, <1>5, <1>6, <1>7, WithinKept
  <1>9. EmptySeen'
    BY <1>1, <1>2, <1>3, EmptyKept
  <1> QED
    BY <1>8, <1>9

\* Retire keeps the invariant.
LEMMA RetireKept ==
  ASSUME NEW r \in [Nodes -> Int], QueueInv(r), EmptySeen, TypeInv', NEW t \in Consumers, Retire(t), Observe
  PROVE  QueueInv(r)' /\ EmptySeen'
  <1>1. t \in Threads /\ t \notin Producers /\ TypeInv
    BY QueueFacts DEF QueueInv
  <1>2. /\ Local(t) /\ pc[t] = "retire" /\ pc'[t] = "loadHead"
        /\ idx'[t] = idx[t] /\ arg'[t] = arg[t] /\ fresh' = fresh
    BY <1>1, RetireEffect
  <1>3. /\ ListInv(r)' /\ node' = node /\ UNCHANGED <<head, tail, unused>>
        /\ \A x \in Nodes : (Visible(x)' <=> Visible(x)) /\ (Retired(x)' <=> Retired(x))
    BY <1>1, RetireList DEF QueueInv
  <1>4. SlotsClaimed'
    <2>1. NoSlot(t)
      BY <1>2, <1>3 DEF NoSlot, SlotsSame
    <2> QED
      BY <1>1, <2>1, NoSlotClaimed DEF QueueInv
  <1>5. WithinCall(t)
    BY <1>1, <1>2, <1>3 DEF WithinCall, InSlot
  <1>6. r[tail] <= r[tail']
    BY <1>1, <1>3 DEF TypeInv, TypeOK
  <1>7. QueueInv(r)'
    BY <1>1, <1>3, <1>4, <1>5, <1>6, WithinKept
  <1>8. EmptySeen'
    BY <1>1, <1>2, <1>3, EmptyKept
  <1> QED
    BY <1>7, <1>8

\* BeginEnqueue keeps the invariant: what was enqueued before is before the new item.
LEMMA BeginEnqueueKept ==
  ASSUME NEW r \in [Nodes -> Int], QueueInv(r), EmptySeen, TypeInv',
         NEW t \in Producers, NEW x \in Items, BeginEnqueue(t, x), Observe
  PROVE  QueueInv(r)' /\ EmptySeen'
  <1>1. t \in Threads /\ t \notin Consumers /\ TypeInv
    BY QueueFacts DEF QueueInv
  <1>2. /\ Local(t) /\ pc[t] = "idle" /\ pc'[t] = "claimEnq"
        /\ ptr'[t] = tail /\ idx'[t] = idx[t] /\ aux'[t] = aux[t] /\ arg'[t] = x
        /\ x \in fresh /\ fresh' = fresh \ {x} /\ UNCHANGED <<node, head, tail, ring, unused>>
    BY <1>1, BeginEnqueueEffect DEF shared
  <1>3. Steady(t)
    BY <1>1, <1>2 DEF Steady
  <1>4. ListInv(r)'
    BY <1>1, <1>3, SteadyList DEF QueueInv
  <1>5. SlotsClaimed'
    <2>1. NoSlot(t)
      BY <1>1, <1>2, <1>3, SteadySame DEF NoSlot, SlotsSame
    <2> QED
      BY <1>1, <2>1, NoSlotClaimed DEF QueueInv
  <1>6. \A y \in Items, n \in Nodes, s \in Slots : InSlot(y, n, s)' <=> InSlot(y, n, s)
    BY <1>1, <1>2, <1>3, SteadySame DEF InSlot
  <1>7. \A y \in Items : Queued(y)' <=> Queued(y)
    BY <1>6 DEF Queued
  <1>8. ended' = ended /\ out' = out
    BY <1>1, <1>2, Observed, QueueFacts DEF Ends, At
  <1>9. \A y \in Items : before'[y] = IF y = x THEN ended ELSE before[y]
    BY <1>1, <1>2, Observed
  <1>10. /\ \A u \in Producers, y \in Items : Carries(u, y)' <=> (u # t /\ Carries(u, y)) \/ (u = t /\ y = x)
         /\ \A u \in Producers, y \in Items : Linking(u, y)' <=> Linking(u, y)
    BY <1>2, QueueFacts DEF Local, Carries, Linking
  <1>11. /\ ~Queued(x) /\ x \notin out /\ x \notin ended
         /\ \A u \in Producers : ~Carries(u, x) /\ ~Linking(u, x)
    BY <1>2 DEF QueueInv, ItemsApart, Carries, Linking
  <1>12. \A u \in Threads : u # t => pc'[u] = pc[u] /\ ptr'[u] = ptr[u] /\ idx'[u] = idx[u] /\ arg'[u] = arg[u]
    BY <1>2 DEF Local
  <1>13. tail \in Nodes /\ fresh \subseteq Items
    BY <1>1 DEF TypeInv, TypeOK
  <1>14. ItemsApart'
    <2>1. \A u \in Producers : pc'[u] # "idle" => arg'[u] \in Items /\ ptr'[u] \in Nodes
      BY <1>2, <1>12, <1>13, QueueFacts DEF QueueInv, ItemsApart
    <2>2. \A u \in Consumers : pc'[u] # "idle" => arg'[u] = Null
      BY <1>1, <1>12, QueueFacts DEF QueueInv, ItemsApart
    <2>3. \A y \in fresh' : ~Queued(y)' /\ y \notin out \cup ended /\ \A u \in Producers : pc'[u] # "idle" => arg'[u] # y
      BY <1>2, <1>7, <1>12, <1>13, QueueFacts DEF QueueInv, ItemsApart
    <2>4. \A u \in Producers, y \in Items : Carries(u, y)' => ~Queued(y)' /\ y \notin out
      BY <1>7, <1>10, <1>11 DEF QueueInv, ItemsApart
    <2>5. \A w \in Producers, y \in Items : (Carries(w, y)' \/ Linking(w, y)') =>
             y \notin ended /\ \A u \in Producers : (Carries(u, y)' \/ Linking(u, y)') => u = w
      BY <1>10, <1>11 DEF QueueInv, ItemsApart
    <2>6. \A y \in Items, n, m \in Nodes, s, i \in Slots : InSlot(y, n, s)' =>
             y \notin out /\ (InSlot(y, m, i)' => m = n /\ i = s)
      BY <1>6 DEF QueueInv, ItemsApart
    <2>7. ended \subseteq Items /\ \A y \in ended : y \in out \/ Queued(y)'
      BY <1>7 DEF QueueInv, ItemsApart
    <2>8. \A u \in Producers, y \in Items : Linking(u, y)' => y \in out \/ Queued(y)'
      BY <1>7, <1>10 DEF QueueInv, ItemsApart
    <2> QED
      BY <1>8, <2>1, <2>2, <2>3, <2>4, <2>5, <2>6, <2>7, <2>8 DEF ItemsApart
  <1>15. FifoOrder(r)'
    <2>1. \A y \in Items : before[y] \subseteq ended
      BY DEF QueueInv, FifoOrder
    <2>2. ended \subseteq Items
      BY DEF QueueInv, ItemsApart
    <2>3. \A y \in Items : before'[y] \subseteq ended
      BY <1>9, <2>1
    <2>4. \A y \in ended, n \in Nodes, s \in Slots : InSlot(y, n, s)' => r[n] <= r[tail]
      BY <1>6, <2>2 DEF QueueInv, FifoOrder
    <2>5. \A u \in Producers, y \in Items, n \in Nodes, s \in Slots :
             Linking(u, y)' /\ InSlot(y, n, s)' => r[n] = r[ptr'[u]] + 1
      <3>1. \A u \in Producers, y \in Items : Linking(u, y)' => Linking(u, y) /\ ptr'[u] = ptr[u]
        BY <1>2, <1>10, <1>12, QueueFacts DEF Linking
      <3> QED
        BY <1>6, <3>1 DEF QueueInv, FifoOrder
    <2>6. ASSUME NEW u \in Producers, NEW z \in Items, NEW n \in Nodes, NEW s \in Slots, Carries(u, z)',
                 NEW y \in before'[z], InSlot(y, n, s)'
          PROVE  r[n] <= r[ptr'[u]] /\ (pc'[u] = "put" /\ n = ptr'[u] => s < idx'[u])
      <3>1. CASE u = t
        <4>1. y \in ended
          BY <2>3, <2>6
        <4> QED
          BY <1>2, <2>4, <2>6, <3>1, <4>1
      <3>2. CASE u # t
        <4>1. Carries(u, z) /\ z # x
          BY <1>10, <1>11, <2>6, <3>2
        <4>2. y \in before[z] /\ y \in Items /\ InSlot(y, n, s)
          BY <1>6, <1>9, <2>1, <2>2, <2>6, <4>1
        <4>3. ptr'[u] = ptr[u] /\ pc'[u] = pc[u] /\ idx'[u] = idx[u]
          BY <1>12, <3>2, QueueFacts
        <4> QED
          BY <4>1, <4>2, <4>3 DEF QueueInv, FifoOrder
      <3> QED
        BY <3>1, <3>2
    <2>7. ASSUME NEW z \in Items, NEW n \in Nodes, NEW m \in Nodes, NEW s \in Slots, NEW i \in Slots,
                 NEW y \in before'[z], InSlot(z, n, s)', InSlot(y, m, i)'
          PROVE  r[m] < r[n] \/ (m = n /\ i < s)
      <3>1. z # x
        BY <1>6, <1>11, <2>7 DEF Queued
      <3>2. y \in before[z] /\ y \in Items
        BY <1>9, <2>1, <2>2, <2>7, <3>1
      <3> QED
        BY <1>6, <2>7, <3>2 DEF QueueInv, FifoOrder
    <2> QED
      BY <1>2, <1>8, <2>3, <2>4, <2>5, <2>6, <2>7 DEF FifoOrder
  <1>16. EmptySeen'
    BY <1>1, <1>2, EmptyKept
  <1> QED
    BY <1>4, <1>5, <1>14, <1>15, <1>16 DEF QueueInv

\* LinkNode keeps the invariant when its CAS succeeds, with the rank of the new node changed.
LEMMA LinkKept ==
  ASSUME NEW r \in [Nodes -> Int], QueueInv(r), EmptySeen, TypeInv',
         NEW t \in Producers, LinkNode(t), node[ptr[t]].next = Null, Observe
  PROVE  (\E q \in [Nodes -> Int] : QueueInv(q)') /\ EmptySeen'
  <1>1. t \in Threads /\ t \notin Consumers /\ TypeInv
    BY QueueFacts DEF QueueInv
  <1>2. Link(t, ptr[t], aux[t]) /\ Local(t)
    BY <1>1, LinkVisible DEF QueueInv
  <1>3. PICK m \in Nodes, n \in Nodes : m = ptr[t] /\ n = aux[t]
    BY <1>1, LinkNodeEffect
  <1>4. Link(t, m, n)
    BY <1>2, <1>3
  <1>5. PICK a \in Items : a = arg[t]
    BY <1>4 DEF Link, QueueInv, ItemsApart
  <1> DEFINE q == [r EXCEPT ![n] = r[m] + 1]
  <1>6. /\ q \in [Nodes -> Int] /\ q[n] = r[m] + 1 /\ \A x \in Nodes : x # n => q[x] = r[x]
        /\ m # n /\ m = tail /\ tail' = tail /\ fresh' = fresh
    BY <1>4 DEF Link
  <1>7. ListInv(q)'
    BY <1>1, <1>2, <1>4, LinkList DEF QueueInv
  <1> HIDE DEF q
  <1>8. /\ \A s \in Slots : node'[n].items[s] = IF s = 0 THEN a ELSE Null
        /\ node'[n].enqidx = 1 /\ node'[n].deqidx = 0
    BY <1>4, <1>5, NewNodeType DEF Link
  <1>9. SlotsClaimed'
    <2>1. \A k \in Nodes : SlotsSame(k)
      BY <1>4 DEF Link, SlotsSame
    <2>2. \A s \in Slots : node'[n].items[s] \in Items => s < node'[n].enqidx
      <3>1. ASSUME NEW s \in Slots, node'[n].items[s] \in Items PROVE s = 0
        BY <1>8, <3>1, QueueFacts
      <3>2. 0 < node'[n].enqidx
        BY <1>8
      <3> QED
        BY <3>1, <3>2
    <2>3. NoSlot(t)
      BY <1>2, <1>4, <1>8, <2>1, <2>2 DEF NoSlot, Link
    <2> QED
      BY <1>1, <2>3, NoSlotClaimed DEF QueueInv
  <1>10. \A x \in Items, k \in Nodes, s \in Slots :
            InSlot(x, k, s)' <=> InSlot(x, k, s) \/ (x = a /\ k = n /\ s = 0)
    <2>1. \A x \in Items, s \in Slots : node'[n].items[s] = x <=> x = a /\ s = 0
      BY <1>8, QueueFacts
    <2>2. Visible(n)' /\ ~Visible(n) /\ \A k \in Nodes : k # n => (Visible(k)' <=> Visible(k))
      BY <1>4 DEF Link
    <2>3. \A k \in Nodes : k # n => node'[k].items = node[k].items
      BY <1>4 DEF Link
    <2> QED
      BY <2>1, <2>2, <2>3 DEF InSlot
  <1>11. \A x \in Items : Queued(x)' <=> Queued(x) \/ x = a
    BY <1>10, QueueFacts DEF Queued
  <1>12. /\ pc[t] = "casNext" /\ pc'[t] = "casTail" /\ arg'[t] = a
         /\ \A u \in Threads : ptr'[u] = ptr[u] /\ idx'[u] = idx[u] /\ arg'[u] = arg[u] /\ ptr[u] # n
         /\ \A u \in Threads : u # t => pc'[u] = pc[u]
    BY <1>1, <1>2, <1>4, <1>5 DEF Link, Local
  <1>13. ended' = ended /\ out' = out /\ \A x \in Items : before'[x] = before[x]
    BY <1>1, <1>2, <1>6, <1>12, Observed DEF Ends, At
  <1>14. /\ \A u \in Producers, x \in Items : Carries(u, x)' <=> u # t /\ Carries(u, x)
         /\ \A u \in Producers, x \in Items : Linking(u, x)' <=> Linking(u, x) \/ (u = t /\ x = a)
    BY <1>12, QueueFacts DEF Carries, Linking
  <1>15. /\ Carries(t, a) /\ ~Queued(a) /\ a \notin out /\ a \notin ended
         /\ \A u \in Producers : (Carries(u, a) \/ Linking(u, a)) => u = t
    <2>1. Carries(t, a)
      BY <1>5, <1>12 DEF Carries
    <2> QED
      BY <2>1 DEF QueueInv, ItemsApart
  <1>16. ItemsApart'
    <2>1. \A u \in Producers : pc'[u] # "idle" => arg'[u] \in Items /\ ptr'[u] \in Nodes
      BY <1>12, QueueFacts DEF QueueInv, ItemsApart
    <2>2. \A u \in Consumers : pc'[u] # "idle" => arg'[u] = Null
      BY <1>1, <1>12, QueueFacts DEF QueueInv, ItemsApart
    <2>3. \A y \in fresh : ~Queued(y)' /\ y \notin out \cup ended /\ \A u \in Producers : pc'[u] # "idle" => arg'[u] # y
      <3>1. a \notin fresh /\ fresh \subseteq Items
        BY <1>1, <1>5, <1>12 DEF QueueInv, ItemsApart, TypeInv, TypeOK
      <3> QED
        BY <1>11, <1>12, <3>1, QueueFacts DEF QueueInv, ItemsApart
    <2>4. \A u \in Producers, y \in Items : Carries(u, y)' => ~Queued(y)' /\ y \notin out
      BY <1>11, <1>14, <1>15 DEF QueueInv, ItemsApart
    <2>5. \A w \in Producers, y \in Items : (Carries(w, y)' \/ Linking(w, y)') =>
             y \notin ended /\ \A u \in Producers : (Carries(u, y)' \/ Linking(u, y)') => u = w
      BY <1>14, <1>15 DEF QueueInv, ItemsApart
    <2>6. \A y \in Items, k, l \in Nodes, s, i \in Slots : InSlot(y, k, s)' =>
             y \notin out /\ (InSlot(y, l, i)' => l = k /\ i = s)
      <3>1. \A k \in Nodes, s \in Slots : ~InSlot(a, k, s)
        BY <1>15 DEF Queued
      <3> QED
        BY <1>10, <1>15, <3>1 DEF QueueInv, ItemsApart
    <2>7. ended \subseteq Items /\ \A y \in ended : y \in out \/ Queued(y)'
      BY <1>11 DEF QueueInv, ItemsApart
    <2>8. \A u \in Producers, y \in Items : Linking(u, y)' => y \in out \/ Queued(y)'
      BY <1>11, <1>14 DEF QueueInv, ItemsApart
    <2> QED
      BY <1>6, <1>13, <2>1, <2>2, <2>3, <2>4, <2>5, <2>6, <2>7, <2>8 DEF ItemsApart
  <1>17. FifoOrder(q)'
    <2>1. ended \subseteq Items /\ \A y \in Items : before[y] \subseteq ended /\ before'[y] = before[y]
      BY <1>13 DEF QueueInv, ItemsApart, FifoOrder
    <2>2. \A k \in Nodes, x \in Items, s \in Slots : InSlot(x, k, s) => k # n
      BY <1>4 DEF Link, InSlot
    <2>3. \A y \in ended, k \in Nodes, s \in Slots : InSlot(y, k, s)' => q[k] <= q[tail]
      BY <1>6, <1>10, <1>15, <2>1, <2>2 DEF QueueInv, FifoOrder
    <2>4. ASSUME NEW u \in Producers, NEW y \in Items, NEW k \in Nodes, NEW s \in Slots, Linking(u, y)', InSlot(y, k, s)'
          PROVE  q[k] = q[ptr'[u]] + 1
      <3>1. CASE u = t /\ y = a
        <4>1. k = n
          BY <1>10, <1>15, <2>4, <3>1 DEF Queued
        <4>2. ptr'[u] = m
          BY <1>1, <1>3, <1>12, <3>1
        <4> QED
          BY <1>6, <4>1, <4>2
      <3>2. CASE ~(u = t /\ y = a)
        <4>1. Linking(u, y) /\ y # a
          BY <1>14, <1>15, <2>4, <3>2
        <4>2. InSlot(y, k, s) /\ k # n
          BY <1>10, <2>2, <2>4, <4>1
        <4>3. r[k] = r[ptr[u]] + 1
          BY <4>1, <4>2 DEF QueueInv, FifoOrder
        <4>4. ptr[u] \in Nodes /\ ptr[u] # n /\ ptr'[u] = ptr[u]
          BY <1>12, <4>1, QueueFacts DEF Linking, QueueInv, ItemsApart
        <4> QED
          BY <1>6, <4>2, <4>3, <4>4
      <3> QED
        BY <3>1, <3>2
    <2>5. ASSUME NEW u \in Producers, NEW z \in Items, NEW k \in Nodes, NEW s \in Slots, Carries(u, z)',
                 NEW y \in before'[z], InSlot(y, k, s)'
          PROVE  q[k] <= q[ptr'[u]] /\ (pc'[u] = "put" /\ k = ptr'[u] => s < idx'[u])
      <3>1. Carries(u, z) /\ u # t /\ y \in before[z] /\ y \in ended /\ y \in Items
        BY <1>14, <2>1, <2>5
      <3>2. InSlot(y, k, s) /\ k # n
        BY <1>10, <1>15, <2>2, <2>5, <3>1
      <3>3. r[k] <= r[ptr[u]] /\ (pc[u] = "put" /\ k = ptr[u] => s < idx[u])
        BY <3>1, <3>2 DEF QueueInv, FifoOrder
      <3>4. ptr[u] \in Nodes /\ ptr[u] # n /\ ptr'[u] = ptr[u] /\ pc'[u] = pc[u] /\ idx'[u] = idx[u]
        BY <1>12, <3>1, QueueFacts DEF Carries, QueueInv, ItemsApart
      <3> QED
        BY <1>6, <3>2, <3>3, <3>4
    <2>6. ASSUME NEW z \in Items, NEW k \in Nodes, NEW l \in Nodes, NEW s \in Slots, NEW i \in Slots,
                 NEW y \in before'[z], InSlot(z, k, s)', InSlot(y, l, i)'
          PROVE  q[l] < q[k] \/ (l = k /\ i < s)
      <3>1. y \in before[z] /\ y \in ended /\ y \in Items /\ y # a
        BY <1>15, <2>1, <2>6
      <3>2. InSlot(y, l, i) /\ l # n
        BY <1>10, <2>2, <2>6, <3>1
      <3>3. CASE InSlot(z, k, s)
        <4>1. k # n /\ (r[l] < r[k] \/ (l = k /\ i < s))
          BY <2>2, <3>1, <3>2, <3>3 DEF QueueInv, FifoOrder
        <4> QED
          BY <1>6, <3>2, <4>1
      <3>4. CASE z = a /\ k = n
        <4>1. r[l] <= r[m]
          BY <1>3, <1>15, <3>1, <3>2, <3>4 DEF QueueInv, FifoOrder
        <4> QED
          BY <1>6, <3>2, <3>4, <4>1
      <3> QED
        BY <1>10, <2>6, <3>3, <3>4
    <2> QED
      BY <1>6, <1>13, <2>1, <2>3, <2>4, <2>5, <2>6 DEF FifoOrder
  <1>18. EmptySeen'
    <2>1. \A k \in Nodes : node'[k].next = Null => node[k].next = Null
      BY <1>4, QueueFacts DEF Link, OthersKept
    <2> QED
      BY <1>1, <1>2, <2>1, EmptyKept
  <1> QED
    BY <1>6, <1>7, <1>9, <1>16, <1>17, <1>18 DEF QueueInv

\* FinishLink keeps the invariant: the enqueue that linked a node ends.
LEMMA FinishLinkKept ==
  ASSUME NEW r \in [Nodes -> Int], QueueInv(r), EmptySeen, TypeInv', NEW t \in Producers, FinishLink(t), Observe
  PROVE  QueueInv(r)' /\ EmptySeen'
  <1>1. t \in Threads /\ t \notin Consumers /\ TypeInv
    BY QueueFacts DEF QueueInv
  <1>2. /\ Local(t) /\ pc[t] = "casTail" /\ pc'[t] = "idle"
        /\ ptr'[t] = Null /\ arg'[t] = Null /\ fresh' = fresh /\ ptr[t] \in Nodes
    <2>1. pc[t] = "casTail"
      BY DEF FinishLink, At
    <2> QED
      BY <1>1, <2>1, SwingTailEffect
  <1>3. /\ ListInv(r)' /\ node' = node /\ UNCHANGED <<head, ring, unused>>
        /\ \A x \in Nodes : (Visible(x)' <=> Visible(x)) /\ (Retired(x)' <=> Retired(x))
        /\ r[tail] <= r[tail'] /\ r[ptr[t]] < r[tail']
    BY <1>1, SwingTailList DEF QueueInv
  <1>4. SlotsClaimed'
    <2>1. NoSlot(t)
      BY <1>2, <1>3 DEF NoSlot, SlotsSame
    <2> QED
      BY <1>1, <2>1, NoSlotClaimed DEF QueueInv
  <1>5. PICK a \in Items : a = arg[t]
    BY <1>2 DEF QueueInv, ItemsApart
  <1>6. ended' = ended \cup {a} /\ out' = out /\ \A x \in Items : before'[x] = before[x]
    <2>1. Ends(t)
      BY <1>2 DEF Ends, At
    <2> QED
      BY <1>1, <1>2, <1>5, <2>1, Observed
  <1>7. \A x \in Items, n \in Nodes, s \in Slots : InSlot(x, n, s)' <=> InSlot(x, n, s)
    BY <1>3 DEF InSlot
  <1>8. \A x \in Items : Queued(x)' <=> Queued(x)
    BY <1>7 DEF Queued
  <1>9. \A u \in Threads : u # t => pc'[u] = pc[u] /\ ptr'[u] = ptr[u] /\ idx'[u] = idx[u] /\ arg'[u] = arg[u]
    BY <1>2 DEF Local
  <1>10. /\ \A u \in Producers, x \in Items : Carries(u, x)' <=> u # t /\ Carries(u, x)
         /\ \A u \in Producers, x \in Items : Linking(u, x)' <=> u # t /\ Linking(u, x)
    BY <1>2, <1>9, QueueFacts DEF Carries, Linking
  <1>11. /\ Linking(t, a) /\ (a \in out \/ Queued(a))
         /\ \A u \in Producers : (Carries(u, a) \/ Linking(u, a)) => u = t
    <2>1. Linking(t, a)
      BY <1>2, <1>5 DEF Linking
    <2> QED
      BY <2>1 DEF QueueInv, ItemsApart
  <1>12. ItemsApart'
    <2>1. \A u \in Producers : pc'[u] # "idle" => arg'[u] \in Items /\ ptr'[u] \in Nodes
      BY <1>2, <1>9, QueueFacts DEF QueueInv, ItemsApart
    <2>2. \A u \in Consumers : pc'[u] # "idle" => arg'[u] = Null
      BY <1>1, <1>9, QueueFacts DEF QueueInv, ItemsApart
    <2>3. \A y \in fresh : ~Queued(y)' /\ y \notin out \cup ended' /\ \A u \in Producers : pc'[u] # "idle" => arg'[u] # y
      <3>1. a \notin fresh /\ fresh \subseteq Items
        BY <1>1, <1>2, <1>5 DEF QueueInv, ItemsApart, TypeInv, TypeOK
      <3> QED
        BY <1>2, <1>6, <1>8, <1>9, <3>1, QueueFacts DEF QueueInv, ItemsApart
    <2>4. \A u \in Producers, y \in Items : Carries(u, y)' => ~Queued(y)' /\ y \notin out
      BY <1>8, <1>10 DEF QueueInv, ItemsApart
    <2>5. \A w \in Producers, y \in Items : (Carries(w, y)' \/ Linking(w, y)') =>
             y \notin ended' /\ \A u \in Producers : (Carries(u, y)' \/ Linking(u, y)') => u = w
      BY <1>6, <1>10, <1>11 DEF QueueInv, ItemsApart
    <2>6. \A y \in Items, k, l \in Nodes, s, i \in Slots : InSlot(y, k, s)' =>
             y \notin out /\ (InSlot(y, l, i)' => l = k /\ i = s)
      BY <1>7 DEF QueueInv, ItemsApart
    <2>7. ended' \subseteq Items /\ \A y \in ended' : y \in out \/ Queued(y)'
      BY <1>6, <1>8, <1>11 DEF QueueInv, ItemsApart
    <2>8. \A u \in Producers, y \in Items : Linking(u, y)' => y \in out \/ Queued(y)'
      BY <1>8, <1>10 DEF QueueInv, ItemsApart
    <2> QED
      BY <1>2, <1>6, <2>1, <2>2, <2>3, <2>4, <2>5, <2>6, <2>7, <2>8 DEF ItemsApart
  <1>13. FifoOrder(r)'
    <2>1. ended \subseteq Items /\ \A y \in Items : before[y] \subseteq ended /\ before'[y] = before[y]
      BY <1>6 DEF QueueInv, ItemsApart, FifoOrder
    <2>2. tail \in Nodes /\ tail' \in Nodes
      BY <1>1 DEF TypeInv, TypeOK
    <2>3. \A y \in ended', n \in Nodes, s \in Slots : InSlot(y, n, s)' => r[n] <= r[tail']
      <3>1. \A y \in ended, n \in Nodes, s \in Slots : InSlot(y, n, s) => r[n] <= r[tail]
        BY DEF QueueInv, FifoOrder
      <3>2. \A n \in Nodes, s \in Slots : InSlot(a, n, s) => r[n] = r[ptr[t]] + 1
        BY <1>11 DEF QueueInv, FifoOrder
      <3> QED
        BY <1>2, <1>3, <1>6, <1>7, <2>1, <2>2, <3>1, <3>2
    <2>4. \A u \in Producers, y \in Items, n \in Nodes, s \in Slots :
             Linking(u, y)' /\ InSlot(y, n, s)' => r[n] = r[ptr'[u]] + 1
      BY <1>7, <1>9, <1>10, QueueFacts DEF QueueInv, FifoOrder
    <2>5. ASSUME NEW u \in Producers, NEW z \in Items, NEW n \in Nodes, NEW s \in Slots, Carries(u, z)',
                 NEW y \in before'[z], InSlot(y, n, s)'
          PROVE  r[n] <= r[ptr'[u]] /\ (pc'[u] = "put" /\ n = ptr'[u] => s < idx'[u])
      <3>1. Carries(u, z) /\ u # t /\ y \in before[z] /\ y \in Items
        BY <1>10, <2>1, <2>5
      <3>2. InSlot(y, n, s) /\ pc'[u] = pc[u] /\ ptr'[u] = ptr[u] /\ idx'[u] = idx[u]
        BY <1>7, <1>9, <2>5, <3>1, QueueFacts
      <3> QED
        BY <3>1, <3>2 DEF QueueInv, FifoOrder
    <2>6. ASSUME NEW z \in Items, NEW n \in Nodes, NEW m \in Nodes, NEW s \in Slots, NEW i \in Slots,
                 NEW y \in before'[z], InSlot(z, n, s)', InSlot(y, m, i)'
          PROVE  r[m] < r[n] \/ (m = n /\ i < s)
      <3>1. y \in before[z] /\ y \in Items
        BY <2>1, <2>6
      <3> QED
        BY <1>7, <2>6, <3>1 DEF QueueInv, FifoOrder
    <2>7. \A y \in Items : before'[y] \subseteq ended'
      BY <1>6, <2>1
    <2> QED
      BY <2>3, <2>4, <2>5, <2>6, <2>7 DEF FifoOrder
  <1>14. EmptySeen'
    BY <1>1, <1>2, <1>3, EmptyKept
  <1> QED
    BY <1>3, <1>4, <1>12, <1>13, <1>14 DEF QueueInv

\* Put keeps the invariant: an enqueue ends with its item in the slot it claimed.
LEMMA PutKept ==
  ASSUME NEW r \in [Nodes -> Int], QueueInv(r), EmptySeen, TypeInv', NEW t \in Producers, Put(t), pc'[t] = "idle", Observe
  PROVE  QueueInv(r)' /\ EmptySeen'
  <1>1. t \in Threads /\ t \notin Consumers /\ TypeInv
    BY QueueFacts DEF QueueInv
  <1>2. PICK m \in Nodes, i \in Slots : m = ptr[t] /\ i = idx[t]
    BY <1>1, PutEffect
  <1>3. PICK a \in Items : a = arg[t]
    <2>1. pc[t] = "put"
      BY <1>1, PutEffect
    <2> QED
      BY <2>1 DEF QueueInv, ItemsApart
  <1>4. /\ Local(t) /\ pc[t] = "put" /\ node[m].items[i] = Null
        /\ ptr'[t] = Null /\ idx'[t] = 0 /\ aux'[t] = Null /\ arg'[t] = Null
        /\ UNCHANGED <<head, tail, ring, unused, fresh>>
        /\ OthersKept(m) /\ node'[m].enqidx = node[m].enqidx /\ node'[m].deqidx = node[m].deqidx
        /\ node'[m].next = node[m].next
        /\ \A s \in Slots : node'[m].items[s] = IF s = i THEN a ELSE node[m].items[s]
    BY <1>1, <1>2, <1>3, PutEffect
  <1>5. Visible(m)
    BY <1>1, <1>2, QueueFacts DEF QueueInv, ListInv, HeldVisible
  <1>6. /\ \A n \in Nodes : node'[n].next = node[n].next
        /\ \A n \in Nodes : ~Visible(n) => node'[n] = node[n]
    BY <1>4, <1>5 DEF OthersKept
  <1>7. Steady(t)
    BY <1>4, <1>6 DEF Steady
  <1>8. ListInv(r)'
    BY <1>1, <1>7, SteadyList DEF QueueInv
  <1>9. SlotsClaimed'
    <2>1. i < node[m].enqidx
      BY <1>1, <1>2, <1>4 DEF QueueInv, SlotsClaimed, IndexBounds
    <2>2. \A n \in Nodes, s \in Slots : Claims(t, n, s) => n = m /\ s = i
      BY <1>4 DEF Claims
    <2>3. \A s \in Slots : s # i => node'[m].items[s] = node[m].items[s]
      BY <1>4
    <2> QED
      BY <1>1, <1>4, <1>7, <2>1, <2>2, <2>3, SlotWritten DEF QueueInv
  <1>10. \A x \in Items, n \in Nodes, s \in Slots :
            InSlot(x, n, s)' <=> InSlot(x, n, s) \/ (x = a /\ n = m /\ s = i)
    <2>1. \A n \in Nodes : Visible(n)' <=> Visible(n)
      BY <1>1, <1>7, SteadySame
    <2>2. \A n \in Nodes, s \in Slots : ~(n = m /\ s = i) => node'[n].items[s] = node[n].items[s]
      BY <1>4 DEF OthersKept
    <2> QED
      BY <1>4, <1>5, <2>1, <2>2, QueueFacts DEF InSlot
  <1>11. \A x \in Items : Queued(x)' <=> Queued(x) \/ x = a
    BY <1>10 DEF Queued
  <1>12. ended' = ended \cup {a} /\ out' = out /\ \A x \in Items : before'[x] = before[x]
    <2>1. Ends(t)
      BY <1>4 DEF Ends, At
    <2> QED
      BY <1>1, <1>3, <1>4, <2>1, Observed
  <1>13. \A u \in Threads : u # t => pc'[u] = pc[u] /\ ptr'[u] = ptr[u] /\ idx'[u] = idx[u] /\ arg'[u] = arg[u]
    BY <1>4 DEF Local
  <1>14. /\ \A u \in Producers, x \in Items : Carries(u, x)' <=> u # t /\ Carries(u, x)
         /\ \A u \in Producers, x \in Items : Linking(u, x)' <=> u # t /\ Linking(u, x)
    BY <1>4, <1>13, QueueFacts DEF Carries, Linking
  <1>15. /\ Carries(t, a) /\ ~Queued(a) /\ a \notin out /\ a \notin ended
         /\ \A u \in Producers : (Carries(u, a) \/ Linking(u, a)) => u = t
    <2>1. Carries(t, a)
      BY <1>3, <1>4 DEF Carries
    <2> QED
      BY <2>1 DEF QueueInv, ItemsApart
  <1>16. ItemsApart'
    <2>1. \A u \in Producers : pc'[u] # "idle" => arg'[u] \in Items /\ ptr'[u] \in Nodes
      BY <1>13, QueueFacts DEF QueueInv, ItemsApart
    <2>2. \A u \in Consumers : pc'[u] # "idle" => arg'[u] = Null
      BY <1>1, <1>13, QueueFacts DEF QueueInv, ItemsApart
    <2>3. \A y \in fresh : ~Queued(y)' /\ y \notin out \cup ended' /\ \A u \in Producers : pc'[u] # "idle" => arg'[u] # y
      <3>1. a \notin fresh /\ fresh \subseteq Items
        BY <1>1, <1>3, <1>4 DEF QueueInv, ItemsApart, TypeInv, TypeOK
      <3> QED
        BY <1>11, <1>12, <1>13, <3>1, QueueFacts DEF QueueInv, ItemsApart
    <2>4. \A u \in Producers, y \in Items : Carries(u, y)' => ~Queued(y)' /\ y \notin out
      BY <1>11, <1>14, <1>15 DEF QueueInv, ItemsApart
    <2>5. \A w \in Producers, y \in Items : (Carries(w, y)' \/ Linking(w, y)') =>
             y \notin ended' /\ \A u \in Producers : (Carries(u, y)' \/ Linking(u, y)') => u = w
      BY <1>12, <1>14, <1>15 DEF QueueInv, ItemsApart
    <2>6. \A y \in Items, k, l \in Nodes, s, j \in Slots : InSlot(y, k, s)' =>
             y \notin out /\ (InSlot(y, l, j)' => l = k /\ j = s)
      <3>1. \A k \in Nodes, s \in Slots : ~InSlot(a, k, s)
        BY <1>15 DEF Queued
      <3> QED
        BY <1>10, <1>15, <3>1 DEF QueueInv, ItemsApart
    <2>7. ended' \subseteq Items /\ \A y \in ended' : y \in out \/ Queued(y)'
      BY <1>11, <1>12 DEF QueueInv, ItemsApart
    <2>8. \A u \in Producers, y \in Items : Linking(u, y)' => y \in out \/ Queued(y)'
      BY <1>11, <1>14 DEF QueueInv, ItemsApart
    <2> QED
      BY <1>4, <1>12, <2>1, <2>2, <2>3, <2>4, <2>5, <2>6, <2>7, <2>8 DEF ItemsApart
  <1>17. FifoOrder(r)'
    <2>1. ended \subseteq Items /\ \A y \in Items : before[y] \subseteq ended /\ before'[y] = before[y]
      BY <1>12 DEF QueueInv, ItemsApart, FifoOrder
    <2>2. tail \in Nodes /\ tail' = tail /\ r[m] <= r[tail]
      BY <1>1, <1>2, <1>4, QueueFacts DEF TypeInv, TypeOK, QueueInv, ListInv, HeldInOrder
    <2>3. \A y \in ended', n \in Nodes, s \in Slots : InSlot(y, n, s)' => r[n] <= r[tail]
      BY <1>10, <1>12, <1>15, <2>1, <2>2 DEF QueueInv, FifoOrder, Queued
    <2>4. \A u \in Producers, y \in Items, n \in Nodes, s \in Slots :
             Linking(u, y)' /\ InSlot(y, n, s)' => r[n] = r[ptr'[u]] + 1
      BY <1>10, <1>13, <1>14, <1>15, QueueFacts DEF QueueInv, FifoOrder
    <2>5. ASSUME NEW u \in Producers, NEW z \in Items, NEW n \in Nodes, NEW s \in Slots, Carries(u, z)',
                 NEW y \in before'[z], InSlot(y, n, s)'
          PROVE  r[n] <= r[ptr'[u]] /\ (pc'[u] = "put" /\ n = ptr'[u] => s < idx'[u])
      <3>1. Carries(u, z) /\ u # t /\ y \in before[z] /\ y \in Items /\ y # a
        BY <1>14, <1>15, <2>1, <2>5
      <3>2. InSlot(y, n, s) /\ pc'[u] = pc[u] /\ ptr'[u] = ptr[u] /\ idx'[u] = idx[u]
        BY <1>10, <1>13, <2>5, <3>1, QueueFacts
      <3> QED
        BY <3>1, <3>2 DEF QueueInv, FifoOrder
    <2>6. ASSUME NEW z \in Items, NEW k \in Nodes, NEW l \in Nodes, NEW s \in Slots, NEW j \in Slots,
                 NEW y \in before'[z], InSlot(z, k, s)', InSlot(y, l, j)'
          PROVE  r[l] < r[k] \/ (l = k /\ j < s)
      <3>1. y \in before[z] /\ y \in Items /\ y # a
        BY <1>15, <2>1, <2>6
      <3>2. InSlot(y, l, j)
        BY <1>10, <2>6, <3>1
      <3>3. CASE InSlot(z, k, s)
        BY <3>1, <3>2, <3>3 DEF QueueInv, FifoOrder
      <3>4. CASE z = a /\ k = m /\ s = i
        <4>1. r[l] <= r[m] /\ (l = m => j < i)
          BY <1>2, <1>4, <1>15, <3>1, <3>2, <3>4 DEF QueueInv, FifoOrder
        <4>2. r[l] = r[m] => l = m
          BY <1>5, <3>2 DEF InSlot, QueueInv, ListInv, InOrder
        <4> QED
          BY <3>4, <4>1, <4>2
      <3> QED
        BY <1>10, <2>6, <3>3, <3>4
    <2>7. \A y \in Items : before'[y] \subseteq ended'
      BY <1>12, <2>1
    <2> QED
      BY <2>2, <2>3, <2>4, <2>5, <2>6, <2>7 DEF FifoOrder
  <1>18. EmptySeen'
    BY <1>1, <1>4, <1>6, EmptyKept
  <1> QED
    BY <1>8, <1>9, <1>16, <1>17, <1>18 DEF QueueInv

\* Take keeps the invariant: an item is handed out, or a slot is marked.
LEMMA TakeKept ==
  ASSUME NEW r \in [Nodes -> Int], QueueInv(r), EmptySeen, TypeInv', NEW t \in Consumers, Take(t), Observe
  PROVE  QueueInv(r)' /\ EmptySeen'
  <1>1. t \in Threads /\ t \notin Producers /\ TypeInv
    BY QueueFacts DEF QueueInv
  <1>2. PICK m \in Nodes, i \in Slots : m = ptr[t] /\ i = idx[t]
    BY <1>1, TakeEffect
  <1>3. /\ Local(t) /\ pc[t] = "take" /\ pc'[t] \in {"idle", "loadHead"} /\ ptr'[t] \in {ptr[t], Null}
        /\ UNCHANGED <<head, tail, ring, unused, fresh>>
        /\ OthersKept(m) /\ node'[m].enqidx = node[m].enqidx /\ node'[m].deqidx = node[m].deqidx
        /\ node'[m].next = node[m].next
        /\ \A s \in Slots : node'[m].items[s] = IF s = i THEN Taken ELSE node[m].items[s]
        /\ \/ node[m].items[i] \in Items \cup {Taken} /\ arg'[t] = node[m].items[i] /\ pc'[t] = "idle"
           \/ node[m].items[i] = Null /\ arg'[t] = arg[t] /\ pc'[t] = "loadHead"
    BY <1>1, <1>2, TakeEffect
  <1>4. Visible(m)
    BY <1>1, <1>2, QueueFacts DEF QueueInv, ListInv, HeldVisible
  <1>5. /\ \A n \in Nodes : node'[n].next = node[n].next
        /\ \A n \in Nodes : ~Visible(n) => node'[n] = node[n]
    BY <1>3, <1>4 DEF OthersKept
  <1>6. Steady(t)
    BY <1>3, <1>5 DEF Steady
  <1>7. ListInv(r)'
    BY <1>1, <1>6, SteadyList DEF QueueInv
  <1>8. SlotsClaimed'
    <2>1. \A n \in Nodes, s \in Slots : Claims(t, n, s) => n = m /\ s = i
      BY <1>2 DEF Claims
    <2>2. node'[m].items[i] = Taken /\ \A s \in Slots : s # i => node'[m].items[s] = node[m].items[s]
      BY <1>3
    <2> QED
      BY <1>1, <1>3, <1>6, <2>1, <2>2, SlotWritten DEF QueueInv
  <1>9. \A x \in Items, n \in Nodes, s \in Slots :
            InSlot(x, n, s)' <=> InSlot(x, n, s) /\ ~(n = m /\ s = i)
    <2>1. \A n \in Nodes : Visible(n)' <=> Visible(n)
      BY <1>1, <1>6, SteadySame
    <2>2. \A n \in Nodes, s \in Slots : ~(n = m /\ s = i) => node'[n].items[s] = node[n].items[s]
      BY <1>3 DEF OthersKept
    <2> QED
      BY <1>3, <2>1, <2>2, QueueFacts DEF InSlot
  <1>10. EmptySeen'
    BY <1>1, <1>3, <1>5, EmptyKept
  <1>11. CASE node[m].items[i] = Null
    <2>1. pc'[t] = "loadHead" /\ arg'[t] = arg[t]
      BY <1>3, <1>11, QueueFacts
    <2>2. \A x \in Items, n \in Nodes, s \in Slots : InSlot(x, n, s)' <=> InSlot(x, n, s)
      <3>1. \A x \in Items : ~InSlot(x, m, i)
        BY <1>11, QueueFacts DEF InSlot
      <3> QED
        BY <1>9, <3>1
    <2>3. WithinCall(t)
      BY <1>1, <1>3, <2>1, <2>2 DEF WithinCall
    <2>4. r[tail] <= r[tail']
      BY <1>1, <1>3 DEF TypeInv, TypeOK
    <2> QED
      BY <1>1, <1>7, <1>8, <1>10, <2>3, <2>4, WithinKept
  <1>13. CASE node[m].items[i] = Taken
    <2>1. pc'[t] = "idle" /\ arg'[t] = Taken
      BY <1>3, <1>13, QueueFacts
    <2>2. \A x \in Items, n \in Nodes, s \in Slots : InSlot(x, n, s)' <=> InSlot(x, n, s)
      <3>1. \A x \in Items : ~InSlot(x, m, i)
        BY <1>13, QueueFacts DEF InSlot
      <3> QED
        BY <1>9, <3>1
    <2>3. ended' = ended /\ out' = out /\ \A x \in Items : before'[x] = before[x]
      BY <1>1, <1>3, <2>1, Observed, QueueFacts
    <2>4. Quiet
      <3>1. \A u \in Producers : pc'[u] = pc[u] /\ ptr'[u] = ptr[u] /\ arg'[u] = arg[u]
        BY <1>1, <1>3, QueueFacts DEF Local
      <3>2. \A u \in Consumers : pc'[u] # "idle" => arg'[u] = Null
        BY <1>3, <2>1, QueueFacts DEF Local, QueueInv, ItemsApart
      <3> QED
        BY <1>3, <2>2, <2>3, <3>1, <3>2 DEF Quiet
    <2>5. /\ r[tail] <= r[tail']
          /\ \A u \in Producers : pc'[u] = "put" => ptr'[u] = ptr[u] /\ pc[u] = "put" /\ idx'[u] = idx[u]
      BY <1>1, <1>3, QueueFacts DEF TypeInv, TypeOK, Local
    <2>6. ItemsApart'
      BY <2>4, QuietItems DEF QueueInv
    <2>7. FifoOrder(r)'
      BY <2>4, <2>5, QuietFifo DEF QueueInv
    <2> QED
      BY <1>7, <1>8, <1>10, <2>6, <2>7 DEF QueueInv
  <1>12. CASE node[m].items[i] \in Items
    <2>1. PICK a \in Items : a = node[m].items[i] /\ arg'[t] = a /\ pc'[t] = "idle"
      BY <1>3, <1>12, QueueFacts
    <2>2. InSlot(a, m, i)
      BY <1>4, <2>1 DEF InSlot
    <2>3. a \notin out /\ \A n \in Nodes, s \in Slots : InSlot(a, n, s) => n = m /\ s = i
      BY <2>2 DEF QueueInv, ItemsApart
    <2>4. \A x \in Items : x # a => (Queued(x)' <=> Queued(x))
      <3>1. \A x \in Items : x # a => ~InSlot(x, m, i)
        BY <2>1 DEF InSlot
      <3>2. ASSUME NEW x \in Items, x # a PROVE Queued(x)' <=> Queued(x)
        <4>1. \A n \in Nodes, s \in Slots : InSlot(x, n, s)' <=> InSlot(x, n, s)
          BY <1>9, <3>1, <3>2
        <4> QED
          BY <4>1 DEF Queued
      <3> QED
        BY <3>2
    <2>5. ~Queued(a)'
      BY <1>9, <2>3 DEF Queued
    <2>6. out' = out \cup {a} /\ ended' = ended /\ \A x \in Items : before'[x] = before[x]
      <3>1. Ends(t) /\ a \notin {Null, Taken}
        BY <1>3, <2>1, QueueFacts DEF Ends, At
      <3> QED
        BY <1>1, <1>3, <2>1, <3>1, Observed
    <2>7. \A u \in Producers : pc'[u] = pc[u] /\ ptr'[u] = ptr[u] /\ idx'[u] = idx[u] /\ arg'[u] = arg[u]
      BY <1>1, <1>3, QueueFacts DEF Local
    <2>8. \A u \in Producers, x \in Items : (Carries(u, x)' <=> Carries(u, x)) /\ (Linking(u, x)' <=> Linking(u, x))
      BY <2>7 DEF Carries, Linking
    <2>9. Queued(a) /\ \A u \in Producers : ~Carries(u, a)
      BY <2>2 DEF Queued, QueueInv, ItemsApart
    <2>10. ItemsApart'
      <3>1. \A u \in Producers : pc'[u] # "idle" => arg'[u] \in Items /\ ptr'[u] \in Nodes
        BY <2>7 DEF QueueInv, ItemsApart
      <3>2. \A u \in Consumers : pc'[u] # "idle" => arg'[u] = Null
        BY <1>3, <2>1, QueueFacts DEF Local, QueueInv, ItemsApart
      <3>3. \A y \in fresh : ~Queued(y)' /\ y \notin out' \cup ended /\ \A u \in Producers : pc'[u] # "idle" => arg'[u] # y
        <4>1. a \notin fresh /\ fresh \subseteq Items
          BY <1>1, <2>9 DEF QueueInv, ItemsApart, TypeInv, TypeOK
        <4> QED
          BY <2>4, <2>6, <2>7, <4>1 DEF QueueInv, ItemsApart
      <3>4. \A u \in Producers, y \in Items : Carries(u, y)' => ~Queued(y)' /\ y \notin out'
        BY <2>4, <2>6, <2>8, <2>9 DEF QueueInv, ItemsApart
      <3>5. \A w \in Producers, y \in Items : (Carries(w, y)' \/ Linking(w, y)') =>
               y \notin ended /\ \A u \in Producers : (Carries(u, y)' \/ Linking(u, y)') => u = w
        BY <2>8 DEF QueueInv, ItemsApart
      <3>6. \A y \in Items, k, l \in Nodes, s, j \in Slots : InSlot(y, k, s)' =>
               y \notin out' /\ (InSlot(y, l, j)' => l = k /\ j = s)
        <4>1. \A y \in Items, k \in Nodes, s \in Slots : InSlot(y, k, s)' => y # a
          BY <1>9, <2>3
        <4> QED
          BY <1>9, <2>6, <4>1 DEF QueueInv, ItemsApart
      <3>7. ended \subseteq Items /\ \A y \in ended : y \in out' \/ Queued(y)'
        BY <2>4, <2>6 DEF QueueInv, ItemsApart
      <3>8. \A u \in Producers, y \in Items : Linking(u, y)' => y \in out' \/ Queued(y)'
        BY <2>4, <2>6, <2>8 DEF QueueInv, ItemsApart
      <3> QED
        BY <1>3, <2>6, <3>1, <3>2, <3>3, <3>4, <3>5, <3>6, <3>7, <3>8 DEF ItemsApart
    <2>11. FifoOrder(r)'
      <3>1. ended \subseteq Items /\ \A y \in Items : before[y] \subseteq ended /\ before'[y] = before[y]
        BY <2>6 DEF QueueInv, ItemsApart, FifoOrder
      <3>2. tail' = tail
        BY <1>3
      <3>3. \A y \in ended, n \in Nodes, s \in Slots : InSlot(y, n, s)' => r[n] <= r[tail]
        BY <1>9, <3>1 DEF QueueInv, FifoOrder
      <3>4. \A u \in Producers, y \in Items, n \in Nodes, s \in Slots :
               Linking(u, y)' /\ InSlot(y, n, s)' => r[n] = r[ptr'[u]] + 1
        BY <1>9, <2>7, <2>8 DEF QueueInv, FifoOrder
      <3>5. ASSUME NEW u \in Producers, NEW z \in Items, NEW n \in Nodes, NEW s \in Slots, Carries(u, z)',
                   NEW y \in before'[z], InSlot(y, n, s)'
            PROVE  r[n] <= r[ptr'[u]] /\ (pc'[u] = "put" /\ n = ptr'[u] => s < idx'[u])
        <4>1. Carries(u, z) /\ y \in before[z] /\ y \in Items
          BY <2>8, <3>1, <3>5
        <4>2. InSlot(y, n, s) /\ pc'[u] = pc[u] /\ ptr'[u] = ptr[u] /\ idx'[u] = idx[u]
          BY <1>9, <2>7, <3>5, <4>1
        <4> QED
          BY <4>1, <4>2 DEF QueueInv, FifoOrder
      <3>6. ASSUME NEW z \in Items, NEW k \in Nodes, NEW l \in Nodes, NEW s \in Slots, NEW j \in Slots,
                   NEW y \in before'[z], InSlot(z, k, s)', InSlot(y, l, j)'
            PROVE  r[l] < r[k] \/ (l = k /\ j < s)
        <4>1. y \in before[z] /\ y \in Items
          BY <3>1, <3>6
        <4> QED
          BY <1>9, <3>6, <4>1 DEF QueueInv, FifoOrder
      <3>7. \A y \in Items : before'[y] \subseteq ended'
        BY <2>6, <3>1
      <3> QED
        BY <2>6, <3>2, <3>3, <3>4, <3>5, <3>6, <3>7 DEF FifoOrder
    <2> QED
      BY <1>7, <1>8, <1>10, <2>10, <2>11 DEF QueueInv
  <1> QED
    BY <1>3, <1>11, <1>12, <1>13

QueueInvariant == (\E r \in [Nodes -> Int] : QueueInv(r)) /\ EmptySeen

\* The invariant holds at the start.
LEMMA InitKept == HistoryInit => QueueInvariant
  <1> SUFFICES ASSUME HistoryInit PROVE QueueInvariant
    OBVIOUS
  <1>1. TypeInv /\ head \in Nodes /\ tail = head
    BY InitType DEF HistoryInit, Init
  <1>2. /\ \A t \in Threads : pc[t] = "idle" /\ ptr[t] = Null
        /\ unused = Nodes \ {head} /\ ring = <<>> /\ fresh = Items /\ ended = {} /\ out = {}
    BY DEF HistoryInit, Init
  <1>3. /\ \A n \in Nodes : node[n].next = Null /\ node[n].deqidx = 0
        /\ \A n \in Nodes, s \in Slots : node[n].items[s] = Null
    <2>1. \A n \in Nodes : node[n] = [NewNode(Null) EXCEPT !.enqidx = 0]
      BY DEF HistoryInit, Init
    <2> QED
      BY <2>1, NewNodeType DEF NodeRecords
  <1>4. \A n \in Nodes : (Visible(n) <=> n = head) /\ ~InRing(n) /\ ~Retired(n)
    BY <1>2, QueueFacts DEF Visible, Builds, InRing, Retired, Retires
  <1> DEFINE r == [n \in Nodes |-> 0]
  <1>5. r \in [Nodes -> Int] /\ \A n \in Nodes : r[n] = 0
    OBVIOUS
  <1> HIDE DEF r
  <1>6. ListInv(r)
    <2>1. NodesApart
      BY <1>2, <1>4, QueueFacts DEF NodesApart, Retires, Builds
    <2>2. HeldVisible
      BY <1>1, <1>2, <1>4 DEF HeldVisible
    <2>3. InOrder(r)
      BY <1>1, <1>3, <1>4, <1>5 DEF InOrder
    <2>4. HeldInOrder(r)
      BY <1>1, <1>2, <1>3, QueueFacts DEF HeldInOrder
    <2> QED
      BY <2>1, <2>2, <2>3, <2>4 DEF ListInv
  <1>7. SlotsClaimed
    <2>1. SlotsFilled
      <3>1. \A n \in Nodes, s \in Slots : ~(s < node[n].deqidx)
        <4>1. \A s \in Slots : ~(s < 0)
          BY QueueFacts
        <4> QED
          BY <1>3, <4>1
      <3>2. \A n \in Nodes, s \in Slots : node[n].items[s] \notin Items
        BY <1>3, QueueFacts
      <3> QED
        BY <3>1, <3>2 DEF SlotsFilled
    <2> QED
      BY <1>2, <1>4, <2>1 DEF SlotsClaimed, SlotsDrained, IndexBounds
  <1>8. \A x \in Items : ~Queued(x) /\ \A n \in Nodes, s \in Slots : ~InSlot(x, n, s)
    BY <1>3, QueueFacts DEF Queued, InSlot
  <1>9. \A t \in Producers, x \in Items : ~Carries(t, x) /\ ~Linking(t, x)
    BY <1>2, QueueFacts DEF Carries, Linking
  <1>10. ItemsApart
    BY <1>2, <1>8, <1>9, QueueFacts DEF ItemsApart
  <1>11. FifoOrder(r)
    <2>1. \A x \in Items : before[x] = {}
      BY DEF HistoryInit
    <2> QED
      BY <1>2, <1>8, <1>9, <2>1 DEF FifoOrder
  <1>12. EmptySeen
    BY <1>2, QueueFacts DEF EmptySeen
  <1> QED
    BY <1>1, <1>5, <1>6, <1>7, <1>10, <1>11, <1>12 DEF QueueInvariant, QueueInv

\* Every step keeps the invariant.
LEMMA NextKept ==
  ASSUME ~ReusesHeld, QueueInvariant, HistoryNext
  PROVE  QueueInvariant'
  <1>1. PICK r \in [Nodes -> Int] : QueueInv(r)
    BY DEF QueueInvariant
  <1>2. EmptySeen /\ TypeInv /\ ItemsApart /\ Observe
    BY <1>1 DEF QueueInvariant, QueueInv, HistoryNext
  <1>3. TypeInv'
    BY <1>2, NextType DEF HistoryNext
  <1>4. ASSUME NEW t \in Producers, Produce(t)
        PROVE  (\E q \in [Nodes -> Int] : QueueInv(q)') /\ EmptySeen'
    <2>1. t \in Threads /\ t \notin Consumers
      BY QueueFacts
    <2>2. CASE \E x \in Items : BeginEnqueue(t, x)
      BY <1>1, <1>2, <1>3, <2>2, BeginEnqueueKept
    <2>3. CASE LoadTail(t) \/ ReloadTail(t) \/ LoadNext(t) \/ (Put(t) /\ pc'[t] # "idle")
      <3>1. LocalStep(t)
        BY <1>2, <2>3, ProducerReads
      <3> QED
        BY <1>1, <1>2, <1>3, <2>1, <3>1, ReadsKept
    <2>4. CASE ClaimEnq(t)
      BY <1>1, <1>2, <1>3, <2>4, ClaimEnqKept
    <2>5. CASE AcquireNode(t)
      BY <1>1, <1>2, <1>3, <2>5, AcquireKept
    <2>6. CASE LinkNode(t)
      BY <1>1, <1>2, <1>3, <2>6, LinkKept, UnlinkedKept
    <2>7. CASE FinishLink(t)
      BY <1>1, <1>2, <1>3, <2>7, FinishLinkKept
    <2>8. CASE HelpTail(t)
      BY <1>1, <1>2, <1>3, <2>8, HelpTailKept
    <2>9. CASE Put(t) /\ pc'[t] = "idle"
      BY <1>1, <1>2, <1>3, <2>9, PutKept
    <2> QED
      BY <1>4, <2>2, <2>3, <2>4, <2>5, <2>6, <2>7, <2>8, <2>9 DEF Produce
  <1>5. ASSUME NEW t \in Consumers, Consume(t)
        PROVE  (\E q \in [Nodes -> Int] : QueueInv(q)') /\ EmptySeen'
    <2>1. t \in Threads /\ t \notin Producers
      BY QueueFacts
    <2>2. CASE \/ BeginDequeue(t) \/ LoadHead(t) \/ LoadDeqidx(t) \/ LoadEnqidx(t) \/ TestNext(t) \/ NextHead(t)
               \/ SwingHead(t) /\ head # ptr[t]
      <3>1. LocalStep(t)
        BY <1>2, <2>2, ConsumerReads
      <3> QED
        BY <1>1, <1>2, <1>3, <2>1, <2>2, <3>1, ReadsKept
    <2>3. CASE ClaimDeq(t)
      BY <1>1, <1>2, <1>3, <2>3, ClaimDeqKept
    <2>4. CASE SwingHead(t) /\ head = ptr[t]
      BY <1>1, <1>2, <1>3, <2>4, SwingHeadKept
    <2>5. CASE Retire(t)
      BY <1>1, <1>2, <1>3, <2>5, RetireKept
    <2>6. CASE Take(t)
      BY <1>1, <1>2, <1>3, <2>6, TakeKept
    <2> QED
      BY <1>5, <2>2, <2>3, <2>4, <2>5, <2>6 DEF Consume
  <1> QED
    BY <1>4, <1>5 DEF HistoryNext, Next, QueueInvariant

\* A step that changes nothing keeps the invariant.
LEMMA StutterKept ==
  ASSUME QueueInvariant, UNCHANGED <<vars, history>>
  PROVE  QueueInvariant'
  <1>1. PICK r \in [Nodes -> Int] : QueueInv(r)
    BY DEF QueueInvariant
  <1>2. /\ node' = node /\ head' = head /\ tail' = tail /\ ring' = ring /\ unused' = unused /\ fresh' = fresh
        /\ pc' = pc /\ ptr' = ptr /\ idx' = idx /\ arg' = arg /\ aux' = aux
        /\ ended' = ended /\ before' = before /\ out' = out /\ sawEmpty' = sawEmpty
    BY DEF vars, shared, history
  <1>3. TypeInv' /\ ListInv(r)'
    BY <1>1, <1>2 DEF QueueInv, TypeInv, TypeOK, HoldsNode, ListInv, NodesApart, HeldVisible, InOrder, HeldInOrder,
                      Visible, Retired, InRing, Builds, Retires
  <1>4. SlotsClaimed'
    BY <1>1, <1>2 DEF QueueInv, SlotsClaimed, SlotsFilled, SlotsDrained, IndexBounds, Claims, Visible, Retired, InRing,
                      Builds, Retires
  <1>5. ItemsApart' /\ FifoOrder(r)'
    BY <1>1, <1>2 DEF QueueInv, ItemsApart, FifoOrder, InSlot, Carries, Linking, Queued, Visible, Builds
  <1>6. EmptySeen'
    BY <1>2 DEF QueueInvariant, EmptySeen
  <1>7. QueueInv(r)'
    BY <1>3, <1>4, <1>5 DEF QueueInv
  <1> QED
    BY <1>6, <1>7 DEF QueueInvariant

\* What is invariant of the code as it is: until a held node was reused, the queue
\* is what QueueInvariant says.
OrderlyUntilReuse == heldReused \in BOOLEAN /\ (~heldReused => QueueInvariant)

(* The inductive invariant of the queue holds until a held node is reused:  *)
(* the list from head to tail that enqueue and dequeue maintain with their  *)
(* CASes, the slots claimed with fetch_add, the place of every item, and    *)
(* the order of the items.  Only that reuse can break it.                   *)
THEOREM InvariantCorrect == HistorySpec => []OrderlyUntilReuse
  <1>1. HistoryInit => OrderlyUntilReuse
    BY InitKept DEF HistoryInit, OrderlyUntilReuse
  <1>2. ASSUME OrderlyUntilReuse, HistoryNext PROVE OrderlyUntilReuse'
    <2>1. heldReused' = (heldReused \/ ReusesHeld)
      BY <1>2 DEF HistoryNext, Observe
    <2>2. heldReused' \in BOOLEAN
      BY <2>1
    <2>3. ASSUME ~heldReused' PROVE QueueInvariant'
      <3>1. ~heldReused /\ ~ReusesHeld
        BY <2>1, <2>3
      <3> QED
        BY <1>2, <3>1, NextKept DEF OrderlyUntilReuse
    <2> QED
      BY <2>2, <2>3 DEF OrderlyUntilReuse
  <1>3. ASSUME OrderlyUntilReuse, UNCHANGED <<vars, history>> PROVE OrderlyUntilReuse'
    <2>1. heldReused' = heldReused
      BY <1>3 DEF history
    <2> QED
      BY <1>3, <2>1, StutterKept DEF OrderlyUntilReuse
  <1> QED
    BY <1>1, <1>2, <1>3, PTL DEF HistorySpec

\* A dequeue ends where it found an item, or no next node.
LEMMA DequeueEnds ==
  ASSUME TypeInv, Next, NEW t \in Consumers, Ends(t)
  PROVE  Take(t) \/ TestNext(t) \/ NextHead(t)
  <1>1. t \in Threads /\ t \notin Producers /\ pc[t] # "idle" /\ pc'[t] = "idle"
    BY QueueFacts DEF Ends, At
  <1>2. ASSUME NEW u \in Producers, Produce(u) PROVE FALSE
    <2>1. u \in Threads /\ u # t
      BY <1>1, QueueFacts
    <2>2. Local(u)
      BY <1>2, <2>1, BeginEnqueueEffect, LoadTailEffect, ClaimEnqEffect, ReloadTailEffect, LoadNextEffect,
         AcquireNodeEffect, LinkNodeEffect, SwingTailEffect, PutEffect DEF Produce
    <2> QED
      BY <1>1, <2>1, <2>2 DEF Local
  <1>3. ASSUME NEW u \in Consumers, Consume(u) PROVE Take(t) \/ TestNext(t) \/ NextHead(t)
    <2>1. u \in Threads
      BY QueueFacts
    <2>2. Local(u)
      BY <1>3, <2>1, BeginDequeueEffect, LoadHeadEffect, LoadDeqidxEffect, LoadEnqidxEffect, TestNextEffect,
         ClaimDeqEffect, NextHeadEffect, SwingHeadEffect, RetireEffect, TakeEffect DEF Consume
    <2>3. u = t
      BY <1>1, <2>1, <2>2 DEF Local
    <2> QED
      BY <1>1, <1>3, <2>3, BeginDequeueEffect, LoadHeadEffect, LoadDeqidxEffect, LoadEnqidxEffect,
         ClaimDeqEffect, SwingHeadEffect, RetireEffect DEF Consume
  <1> QED
    BY <1>2, <1>3 DEF Next

\* What Take hands out was in the slot that t claimed, in a visible node.
LEMMA Handed ==
  ASSUME NEW r \in [Nodes -> Int], QueueInv(r), Next, NEW t \in Consumers, NEW x \in Items, Returns(t, x)
  PROVE  \E m \in Nodes, i \in Slots :
            InSlot(x, m, i) /\ r[m] <= r[head] /\ i < node[m].deqidx
  <1>1. TypeInv /\ Ends(t) /\ arg'[t] = x /\ t \in Threads /\ x # Null /\ (pc[t] # "idle" => arg[t] = Null)
    BY QueueFacts DEF QueueInv, Returns, ItemsApart
  <1>2. Take(t)
    BY <1>1, DequeueEnds, TestNextEffect, NextHeadEffect
  <1>3. PICK m \in Nodes, i \in Slots : m = ptr[t] /\ i = idx[t]
    BY <1>1, <1>2, TakeEffect
  <1>4. pc[t] = "take" /\ node[m].items[i] = x
    BY <1>1, <1>2, <1>3, TakeEffect
  <1>5. Visible(m) /\ r[m] <= r[head]
    BY <1>1, <1>3, QueueFacts DEF QueueInv, ListInv, HeldVisible, HeldInOrder
  <1>6. i < node[m].deqidx
    BY <1>1, <1>3, <1>4 DEF QueueInv, SlotsClaimed, IndexBounds
  <1> QED
    BY <1>3, <1>4, <1>5, <1>6 DEF InSlot

(* No item is handed out twice: two calls of dequeue never return the same  *)
(* item, because only the consumer whose fetch_add claimed a slot exchanges *)
(* its item.  Only the reuse of a held node ends that.                      *)
THEOREM HandedOutOnce == HistorySpec => ReturnedOnce
  <1>1. ASSUME OrderlyUntilReuse, HistoryNext, ~heldReused, NEW t \in Consumers, NEW x \in Items, Returns(t, x)
        PROVE  x \notin out
    <2>1. PICK r \in [Nodes -> Int] : QueueInv(r)
      BY <1>1 DEF OrderlyUntilReuse, QueueInvariant
    <2>2. PICK m \in Nodes, i \in Slots : InSlot(x, m, i)
      BY <1>1, <2>1, Handed DEF HistoryNext
    <2> QED
      BY <2>1, <2>2 DEF QueueInv, ItemsApart
  <1>2. OrderlyUntilReuse /\ [HistoryNext]_<<vars, history>> =>
           [\A t \in Consumers, x \in Items : ~heldReused /\ Returns(t, x) => x \notin out]_<<vars, history>>
    BY <1>1
  <1> QED
    BY <1>2, InvariantCorrect, PTL DEF HistorySpec, ReturnedOnce

(* First in, first out: dequeue hands out an item only after every item     *)
(* whose enqueue had ended before the enqueue of this one began was handed  *)
(* out, or its slot claimed by a consumer.  Only the reuse of a held node   *)
(* ends that.                                                               *)
THEOREM InOrderOfEnqueues == HistorySpec => FirstInFirstOut
  <1>1. ASSUME OrderlyUntilReuse, HistoryNext, ~heldReused, NEW t \in Consumers, NEW x \in Items, Returns(t, x),
               NEW y \in before[x], y \notin out
        PROVE  y \in Claimed
    <2>1. PICK r \in [Nodes -> Int] : QueueInv(r)
      BY <1>1 DEF OrderlyUntilReuse, QueueInvariant
    <2>2. PICK m \in Nodes, i \in Slots : InSlot(x, m, i) /\ r[m] <= r[head] /\ i < node[m].deqidx
      BY <1>1, <2>1, Handed DEF HistoryNext
    <2>3. y \in ended /\ y \in Items /\ Queued(y)
      BY <1>1, <2>1 DEF QueueInv, ItemsApart, FifoOrder
    <2>4. PICK n \in Nodes, s \in Slots : InSlot(y, n, s)
      BY <2>3 DEF Queued
    <2>5. r[n] < r[m] \/ (n = m /\ s < i)
      BY <1>1, <2>1, <2>2, <2>4 DEF QueueInv, FifoOrder
    <2>6. s < node[n].deqidx
      <3>1. node[n].deqidx \in Nat /\ s \in Nat /\ i \in Nat /\ NodeSize \in Nat /\ s < NodeSize /\ head \in Nodes
        BY <2>1, QueueFacts DEF QueueInv, TypeInv, TypeOK
      <3>2. CASE n = m /\ s < i
        BY <2>2, <3>1, <3>2
      <3>3. CASE r[n] < r[m]
        <4>1. Visible(n) /\ r[n] < r[head]
          BY <2>2, <2>4, <3>1, <3>3 DEF InSlot
        <4>2. Retired(n)
          BY <2>1, <4>1 DEF QueueInv, ListInv, InOrder
        <4> QED
          BY <2>1, <3>1, <4>2 DEF QueueInv, SlotsClaimed, SlotsDrained
      <3> QED
        BY <2>5, <3>2, <3>3
    <2>7. PICK u \in Consumers : Claims(u, n, s)
      BY <2>1, <2>3, <2>4, <2>6, QueueFacts DEF InSlot, QueueInv, SlotsClaimed, SlotsFilled
    <2> QED
      BY <2>4, <2>7 DEF InSlot, Claims, Claimed, At
  <1>2. OrderlyUntilReuse /\ [HistoryNext]_<<vars, history>> =>
           [\A t \in Consumers, x \in Items :
               ~heldReused /\ Returns(t, x) => before[x] \subseteq out \cup Claimed]_<<vars, history>>
    BY <1>1
  <1> QED
    BY <1>2, InvariantCorrect, PTL DEF HistorySpec, FirstInFirstOut

(* A dequeue that returns nothing is honest: at some point during the call  *)
(* no item was left that had been enqueued and no consumer had claimed.     *)
(* Only the reuse of a held node ends that (the run queue_reuse).           *)
THEOREM EmptyCorrect == HistorySpec => EmptyIsHonest
  <1>1. ASSUME OrderlyUntilReuse, HistoryNext, ~heldReused, NEW t \in Consumers, Returns(t, Null)
        PROVE  sawEmpty[t]
    <2>1. PICK r \in [Nodes -> Int] : QueueInv(r)
      BY <1>1 DEF OrderlyUntilReuse, QueueInvariant
    <2>2. TypeInv /\ Ends(t) /\ arg'[t] = Null /\ t \in Threads /\ pc'[t] = "idle"
      BY <1>1, <2>1, QueueFacts DEF QueueInv, Returns, Ends, At
    <2>3. ~Take(t)
      BY <2>2, TakeEffect, QueueFacts
    <2>4. pc[t] \in {"testNext", "nextHead"} /\ node[ptr[t]].next = Null
      BY <1>1, <2>2, <2>3, DequeueEnds, TestNextEffect, NextHeadEffect DEF HistoryNext
    <2> QED
      BY <1>1, <2>4 DEF OrderlyUntilReuse, QueueInvariant, EmptySeen
  <1>2. OrderlyUntilReuse /\ [HistoryNext]_<<vars, history>> =>
           [\A t \in Consumers : ~heldReused /\ Returns(t, Null) => sawEmpty[t]]_<<vars, history>>
    BY <1>1
  <1> QED
    BY <1>2, InvariantCorrect, PTL DEF HistorySpec, EmptyIsHonest
=============================================================================
