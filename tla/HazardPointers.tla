--------------------------- MODULE HazardPointers ---------------------------
(***************************************************************************)
(* HazardPointersManager, one atomic access per step: the hazard records,  *)
(* the reuse ring (RingBufferLockFree) that takes the retired nodes, the   *)
(* nodes it has no room for, and gcCollect, which destroys those of them   *)
(* that no record names.  A collector that finds a record between its two  *)
(* stores completes setHazardPtr on behalf of the owner.                   *)
(*                                                                         *)
(* The users are the threads of one FAAArrayQueue, reduced to what they do *)
(* with nodes: they protect the node that head or tail points to, use it,  *)
(* append a node or unlink the first one and retire it.                    *)
(*                                                                         *)
(* Accesses are sequentially consistent here.                              *)
(***************************************************************************)
EXTENDS Integers, FiniteSets

CONSTANTS
    Threads,
    Tokenless,          \* threads that acquire a record for each operation
    Collectors,         \* bound: threads that ever come to collect (the others
                        \* do not reach COLLECT_INTERVAL)
    RecordsCount,       \* bound: records that are ever added, 32 by 32, to the
                        \* first chunk; one that is not added yet is free
    Nodes,              \* addresses of nodes
    ReuseQueueLength,
    CountWrap,          \* the count is unsigned: 2^32 in the code
    MinDeletes,         \* MinPerThreadDeleteQSize
    MaxNodes,         \* bound: the list has at most that many nodes
    Null, Reset, Free   \* nullptr; RESET_VALUE and FREE_VALUE of a record

Records == 1 .. RecordsCount
RingSlots == 0 .. ReuseQueueLength - 1
Sources == {"head", "tail"}     \* the atomic pointers of the queue

ASSUME HazardAssumption ==
    /\ IsFiniteSet(Threads)
    /\ Tokenless \subseteq Threads /\ Collectors \subseteq Threads
    /\ RecordsCount \in Nat /\ RecordsCount >= Cardinality(Threads)
    /\ ReuseQueueLength \in Nat \ {0}
    /\ CountWrap \in Nat /\ CountWrap > ReuseQueueLength
    /\ MinDeletes \in Nat /\ MaxNodes \in Nat \ {0}
    /\ {Null, Reset, Free} \cap (Nodes \cup Records) = {}
    /\ Null # Reset /\ Null # Free /\ Reset # Free

VARIABLES
    headPtr, tailPtr,   \* head and tail of the queue
    next,               \* per node
    heap,               \* addresses that are not allocated
    hazardPtr, storePtr,    \* the records: hazardPtr, hazardPtrStorePtr
    buffer, tail, head, count,  \* the ring
    deleting,           \* deletingPtrs of each thread
    pc,
    rec,                \* the record a thread owns
    source,             \* the pointer it protects
    held,               \* the node setHazardPtr returned, being used or retired
    new,                \* the node it appends, or took from the full ring
    idx, goal,          \* inside push and pop: the index, and what for
    gcAt, expected, loaded, referenced  \* inside gcCollect and getHazardPtr

listVars == <<headPtr, tailPtr, next>>
recordVars == <<hazardPtr, storePtr>>
ringVars == <<buffer, tail, head, count>>
useVars == <<rec, source, held, new>>
gcVars == <<gcAt, expected, loaded, referenced>>
vars == <<listVars, heap, recordVars, ringVars, deleting, pc, useVars, idx, goal, gcVars>>

IsValid(v) == v \in Nodes

UseSteps == {"idle", "acquire", "storePtr", "resetPtr", "getPtr", "loadSource", "casPtr", "use",
             "construct", "casNext", "casTail", "keep", "clearStore", "clearPtr", "freePtr"}
RingSteps == {"pushLoad", "pushTest", "pushCas", "pushStore", "pushCount",
              "popLoad", "popTest", "popCas", "popTake", "popCount"}
GcSteps == {"gcPtr", "gcStore", "helpPtr", "helpStore", "helpSource", "helpCas", "helpReload", "delete"}

TypeOK ==
    /\ headPtr \in Nodes /\ tailPtr \in Nodes
    /\ next \in [Nodes -> Nodes \cup {Null}]
    /\ heap \in SUBSET Nodes
    /\ hazardPtr \in [Records -> Nodes \cup {Reset, Free}]
    /\ storePtr \in [Records -> Sources \cup {Reset}]
    /\ buffer \in [RingSlots -> Nodes \cup {Null}]
    /\ tail \in RingSlots /\ head \in RingSlots /\ count \in 0 .. CountWrap - 1
    /\ deleting \in [Threads -> SUBSET (Nodes \cup {Null})]
    /\ pc \in [Threads -> UseSteps \cup RingSteps \cup GcSteps]
    /\ rec \in [Threads -> Records \cup {Null}]
    /\ source \in [Threads -> Sources]
    /\ held \in [Threads -> Nodes \cup {Null}] /\ new \in [Threads -> Nodes \cup {Null}]
    /\ idx \in [Threads -> RingSlots]
    /\ goal \in [Threads -> {"none", "retire", "makeRoom", "replace", "reuse"}]
    /\ gcAt \in [Threads -> Records]
    /\ expected \in [Threads -> {Reset, Free}]
    /\ loaded \in [Threads -> Nodes \cup {Reset}]
    /\ referenced \in [Threads -> SUBSET Nodes]

At(t, step) == pc[t] = step
Goto(t, step) == pc' = [pc EXCEPT ![t] = step]

\* Threads with a token acquired their record when the token was made.
Init ==
    /\ \E n \in Nodes : headPtr = n /\ tailPtr = n /\ heap = Nodes \ {n}
    /\ next = [n \in Nodes |-> Null]
    /\ \E r \in [Threads \ Tokenless -> Records] :
          /\ \A s, t \in DOMAIN r : r[s] = r[t] => s = t
          /\ rec = [t \in Threads |-> IF t \in DOMAIN r THEN r[t] ELSE Null]
          /\ hazardPtr = [i \in Records |-> IF \E t \in DOMAIN r : r[t] = i THEN Reset ELSE Free]
    /\ storePtr = [i \in Records |-> Reset]
    /\ buffer = [s \in RingSlots |-> Null]
    /\ tail = 0 /\ head = 0 /\ count = 0
    /\ deleting = [t \in Threads |-> {}]
    /\ pc = [t \in Threads |-> "idle"]
    /\ source = [t \in Threads |-> "head"]
    /\ held = [t \in Threads |-> Null] /\ new = [t \in Threads |-> Null]
    /\ idx = [t \in Threads |-> 0] /\ goal = [t \in Threads |-> "none"]
    /\ gcAt = [t \in Threads |-> 1]
    /\ expected = [t \in Threads |-> Reset] /\ loaded = [t \in Threads |-> Reset]
    /\ referenced = [t \in Threads |-> {}]

\* The value of head or tail, the atomic pointer s names.
Deref(s) == IF s = "head" THEN headPtr ELSE tailPtr

-----------------------------------------------------------------------------
(* A record, by its owner.                                                  *)

Begin(t, s) ==
    /\ At(t, "idle")
    /\ source' = [source EXCEPT ![t] = s]
    /\ Goto(t, IF t \in Tokenless THEN "acquire" ELSE "storePtr")
    /\ UNCHANGED <<listVars, heap, recordVars, ringVars, deleting, rec, held, new, idx, goal, gcVars>>

\* A CAS that fails, even spuriously, goes on to the next record, and after the
\* last one addChunk adds free ones, up to the bound.
AcquireRecord(t) ==
    /\ At(t, "acquire")
    /\ \E r \in Records :
          /\ hazardPtr[r] = Free
          /\ hazardPtr' = [hazardPtr EXCEPT ![r] = Reset]
          /\ rec' = [rec EXCEPT ![t] = r]
    /\ Goto(t, "storePtr")
    /\ UNCHANGED <<listVars, heap, storePtr, ringVars, deleting, source, held, new, idx, goal, gcVars>>

\* setHazardPtr
StorePtr(t) ==
    /\ At(t, "storePtr")
    /\ storePtr' = [storePtr EXCEPT ![rec[t]] = source[t]]
    /\ Goto(t, "resetPtr")
    /\ UNCHANGED <<listVars, heap, hazardPtr, ringVars, deleting, useVars, idx, goal, gcVars>>

ResetPtr(t) ==
    /\ At(t, "resetPtr")
    /\ hazardPtr' = [hazardPtr EXCEPT ![rec[t]] = Reset]
    /\ Goto(t, "getPtr")
    /\ UNCHANGED <<listVars, heap, storePtr, ringVars, deleting, useVars, idx, goal, gcVars>>

\* getHazardPtr: a collector may have stored the pointer already.
GetPtr(t) ==
    /\ At(t, "getPtr")
    /\ LET curr == hazardPtr[rec[t]]
       IN  IF IsValid(curr)
           THEN held' = [held EXCEPT ![t] = curr] /\ Goto(t, "use") /\ UNCHANGED expected
           ELSE expected' = [expected EXCEPT ![t] = curr] /\ Goto(t, "loadSource") /\ UNCHANGED held
    /\ UNCHANGED <<listVars, heap, recordVars, ringVars, deleting, rec, source, new, idx, goal, gcAt, loaded, referenced>>

LoadSource(t) ==
    /\ At(t, "loadSource")
    /\ loaded' = [loaded EXCEPT ![t] = Deref(source[t])]
    /\ Goto(t, "casPtr")
    /\ UNCHANGED <<listVars, heap, recordVars, ringVars, deleting, useVars, idx, goal, gcAt, expected, referenced>>

\* Mutant of CasPtr: the pointer is stored whatever a collector stored before.
StoreLoaded(t) ==
    /\ At(t, "casPtr")
    /\ hazardPtr' = [hazardPtr EXCEPT ![rec[t]] = loaded[t]]
    /\ held' = [held EXCEPT ![t] = loaded[t]]
    /\ Goto(t, "use")
    /\ loaded' = [loaded EXCEPT ![t] = Reset] /\ expected' = [expected EXCEPT ![t] = Reset]
    /\ UNCHANGED <<listVars, heap, storePtr, ringVars, deleting, rec, source, new, idx, goal, gcAt, referenced>>

\* The CAS of getHazardPtr: either way the pointer that is in the record now.
CasPtr(t) ==
    /\ At(t, "casPtr")
    /\ LET r == rec[t]
           now == IF hazardPtr[r] = expected[t] THEN loaded[t] ELSE hazardPtr[r]
       IN  /\ hazardPtr' = [hazardPtr EXCEPT ![r] = now]
           /\ held' = [held EXCEPT ![t] = now]
    /\ Goto(t, "use")
    /\ loaded' = [loaded EXCEPT ![t] = Reset] /\ expected' = [expected EXCEPT ![t] = Reset]
    /\ UNCHANGED <<listVars, heap, storePtr, ringVars, deleting, rec, source, new, idx, goal, gcAt, referenced>>

\* reset(), at the end of the use.
ClearStore(t) ==
    /\ At(t, "clearStore")
    /\ storePtr' = [storePtr EXCEPT ![rec[t]] = Reset]
    /\ Goto(t, "clearPtr")
    /\ UNCHANGED <<listVars, heap, hazardPtr, ringVars, deleting, useVars, idx, goal, gcVars>>

\* Then the unlinked node is retired, or the operation returns.
ClearPtr(t) ==
    /\ At(t, "clearPtr")
    /\ hazardPtr' = [hazardPtr EXCEPT ![rec[t]] = Reset]
    /\ Goto(t, IF goal[t] = "retire" THEN "pushLoad" ELSE IF t \in Tokenless THEN "freePtr" ELSE "idle")
    /\ held' = [held EXCEPT ![t] = IF goal[t] = "retire" THEN @ ELSE Null]
    /\ source' = [source EXCEPT ![t] = "head"]
    /\ UNCHANGED <<listVars, heap, storePtr, ringVars, deleting, rec, new, idx, goal, gcVars>>

\* free(), when the token of the operation is destroyed; the pointer to the
\* source was reset before.
FreePtr(t) ==
    /\ At(t, "freePtr")
    /\ hazardPtr' = [hazardPtr EXCEPT ![rec[t]] = Free]
    /\ rec' = [rec EXCEPT ![t] = Null]
    /\ Goto(t, "idle")
    /\ UNCHANGED <<listVars, heap, storePtr, ringVars, deleting, source, held, new, idx, goal, gcVars>>

-----------------------------------------------------------------------------
(* The queue that uses a protected node.                                    *)

\* The thread puts an item into the node, takes one or finds none.
FinishUse(t) ==
    /\ At(t, "use")
    /\ Goto(t, "clearStore")
    /\ UNCHANGED <<listVars, heap, recordVars, ringVars, deleting, useVars, idx, goal, gcVars>>

\* The loop starts again: another thread moved head or tail, or the claimed slot
\* of the node was lost to another thread.
Retry(t) ==
    /\ At(t, "use")
    /\ held' = [held EXCEPT ![t] = Null]
    /\ Goto(t, "storePtr")
    /\ UNCHANGED <<listVars, heap, recordVars, ringVars, deleting, rec, source, new, idx, goal, gcVars>>

\* casHead succeeds.
Unlink(t) ==
    /\ At(t, "use") /\ source[t] = "head"
    /\ held[t] = headPtr /\ next[held[t]] # Null
    /\ headPtr' = next[held[t]]
    /\ goal' = [goal EXCEPT ![t] = "retire"]
    /\ Goto(t, "clearStore")
    /\ UNCHANGED <<tailPtr, next, heap, recordVars, ringVars, deleting, useVars, idx, gcVars>>

\* Node n can be reached from head: a set of other nodes that has head does not have
\* the next node of each of its nodes.
InList(n) ==
    \A S \in SUBSET (Nodes \ {n}) :
        headPtr \in S => \E m \in S : next[m] \notin S \cup {Null}

Linked == {n \in Nodes : InList(n)}

\* The last node is full: take a node from the ring (dequeueDelete).
NeedNode(t) ==
    /\ At(t, "use") /\ source[t] = "tail"
    /\ held[t] = tailPtr /\ next[held[t]] = Null
    /\ Cardinality(Linked) < MaxNodes
    /\ goal' = [goal EXCEPT ![t] = "reuse"]
    /\ Goto(t, "popLoad")
    /\ UNCHANGED <<listVars, heap, recordVars, ringVars, deleting, useVars, idx, gcVars>>

\* casTail on behalf of the thread that linked the next node.
HelpTail(t) ==
    /\ At(t, "use") /\ source[t] = "tail"
    /\ held[t] = tailPtr /\ next[held[t]] # Null
    /\ tailPtr' = next[held[t]]
    /\ held' = [held EXCEPT ![t] = Null]
    /\ Goto(t, "storePtr")
    /\ UNCHANGED <<headPtr, next, heap, recordVars, ringVars, deleting, rec, source, new, idx, goal, gcVars>>

\* A node from the ring, whoever protects it, or else a new one, is constructed.
Construct(t) ==
    /\ At(t, "construct")
    /\ \E n \in IF new[t] = Null THEN heap ELSE {new[t]} :
          /\ new' = [new EXCEPT ![t] = n]
          /\ heap' = heap \ {n}
          /\ next' = [next EXCEPT ![n] = Null]
    /\ Goto(t, "casNext")
    /\ UNCHANGED <<headPtr, tailPtr, recordVars, ringVars, deleting, rec, source, held, idx, goal, gcVars>>

\* casNext succeeds, or the new node is destroyed and the loop starts again.
Link(t) ==
    /\ At(t, "casNext")
    /\ goal' = [goal EXCEPT ![t] = "none"]
    /\ IF next[held[t]] = Null
       THEN /\ next' = [next EXCEPT ![held[t]] = new[t]]
            /\ Goto(t, "casTail")
            /\ UNCHANGED <<heap, held, new>>
       ELSE /\ heap' = heap \cup {new[t]}
            /\ held' = [held EXCEPT ![t] = Null] /\ new' = [new EXCEPT ![t] = Null]
            /\ Goto(t, "storePtr")
            /\ UNCHANGED next
    /\ UNCHANGED <<headPtr, tailPtr, recordVars, ringVars, deleting, rec, source, idx, gcVars>>

MoveTail(t) ==
    /\ At(t, "casTail")
    /\ tailPtr' = IF tailPtr = held[t] THEN new[t] ELSE tailPtr
    /\ new' = [new EXCEPT ![t] = Null]
    /\ Goto(t, "clearStore")
    /\ UNCHANGED <<headPtr, next, heap, recordVars, ringVars, deleting, rec, source, held, idx, goal, gcVars>>

-----------------------------------------------------------------------------
(* RingBufferLockFree, enqueueDelete and dequeueDelete.                     *)

\* moduloIdx(i + 1)
After(i) == (i + 1) % ReuseQueueLength

PushLoad(t) ==
    /\ At(t, "pushLoad")
    /\ idx' = [idx EXCEPT ![t] = tail]
    /\ Goto(t, "pushTest")
    /\ UNCHANGED <<listVars, heap, recordVars, ringVars, deleting, useVars, goal, gcVars>>

\* A full ring: enqueueDelete makes room first, and gives up after that.
PushTest(t) ==
    /\ At(t, "pushTest")
    /\ IF count = ReuseQueueLength
       THEN /\ IF goal[t] = "retire"
               THEN goal' = [goal EXCEPT ![t] = "makeRoom"] /\ Goto(t, "popLoad")
               ELSE Goto(t, "keep") /\ UNCHANGED goal
            /\ idx' = [idx EXCEPT ![t] = 0]
       ELSE Goto(t, "pushCas") /\ UNCHANGED <<idx, goal>>
    /\ UNCHANGED <<listVars, heap, recordVars, ringVars, deleting, useVars, gcVars>>

\* The CAS is a weak one, which may fail spuriously, and loads tail if it fails.
PushCas(t) ==
    /\ At(t, "pushCas")
    /\ \/ /\ tail = idx[t]
          /\ tail' = After(tail)
          /\ idx' = [idx EXCEPT ![t] = After(@)]
          /\ Goto(t, "pushStore")
       \/ /\ idx' = [idx EXCEPT ![t] = tail]
          /\ Goto(t, "pushTest")
          /\ UNCHANGED tail
    /\ UNCHANGED <<listVars, heap, recordVars, buffer, head, count, deleting, useVars, goal, gcVars>>

PushStore(t) ==
    /\ At(t, "pushStore")
    /\ buffer' = [buffer EXCEPT ![idx[t]] = held[t]]
    /\ Goto(t, "pushCount")
    /\ UNCHANGED <<listVars, heap, recordVars, tail, head, count, deleting, useVars, idx, goal, gcVars>>

\* The node is retired; dequeue goes on with the next one.
PushCount(t) ==
    /\ At(t, "pushCount")
    /\ count' = (count + 1) % CountWrap
    /\ idx' = [idx EXCEPT ![t] = 0]
    /\ IF goal[t] = "retire"
       THEN /\ held' = [held EXCEPT ![t] = Null] /\ goal' = [goal EXCEPT ![t] = "none"]
            /\ Goto(t, "storePtr")
       ELSE Goto(t, "keep") /\ UNCHANGED <<held, goal>>
    /\ UNCHANGED <<listVars, heap, recordVars, buffer, tail, head, deleting, rec, source, new, gcVars>>

\* pop() returns: the enqueuer goes on to append, enqueueDelete to push again.
Popped(t) ==
    IF goal[t] = "reuse"
    THEN Goto(t, "construct") /\ UNCHANGED goal
    ELSE Goto(t, "pushLoad") /\ goal' = [goal EXCEPT ![t] = "replace"]

PopLoad(t) ==
    /\ At(t, "popLoad")
    /\ idx' = [idx EXCEPT ![t] = head]
    /\ Goto(t, "popTest")
    /\ UNCHANGED <<listVars, heap, recordVars, ringVars, deleting, useVars, goal, gcVars>>

PopTest(t) ==
    /\ At(t, "popTest")
    /\ IF count = 0
       THEN Popped(t) /\ idx' = [idx EXCEPT ![t] = 0]
       ELSE Goto(t, "popCas") /\ UNCHANGED <<idx, goal>>
    /\ UNCHANGED <<listVars, heap, recordVars, ringVars, deleting, useVars, gcVars>>

PopCas(t) ==
    /\ At(t, "popCas")
    /\ IF head = idx[t]
       THEN /\ head' = After(head)
            /\ idx' = [idx EXCEPT ![t] = After(@)]
            /\ Goto(t, "popTake")
       ELSE /\ idx' = [idx EXCEPT ![t] = head]
            /\ Goto(t, "popTest")
            /\ UNCHANGED head
    /\ UNCHANGED <<listVars, heap, recordVars, buffer, tail, count, deleting, useVars, goal, gcVars>>

\* Mutant of PopTake: the slot is loaded, not exchanged for nullptr.
PopRead(t) ==
    /\ At(t, "popTake")
    /\ new' = [new EXCEPT ![t] = buffer[idx[t]]]
    /\ Goto(t, "popCount")
    /\ UNCHANGED <<listVars, heap, recordVars, ringVars, deleting, rec, source, held, idx, goal, gcVars>>

PopTake(t) ==
    /\ At(t, "popTake")
    /\ new' = [new EXCEPT ![t] = buffer[idx[t]]]
    /\ buffer' = [buffer EXCEPT ![idx[t]] = Null]
    /\ Goto(t, "popCount")
    /\ UNCHANGED <<listVars, heap, recordVars, tail, head, count, deleting, rec, source, held, idx, goal, gcVars>>

PopCount(t) ==
    /\ At(t, "popCount")
    /\ count' = (count - 1) % CountWrap
    /\ idx' = [idx EXCEPT ![t] = 0]
    /\ Popped(t)
    /\ UNCHANGED <<listVars, heap, recordVars, buffer, tail, head, deleting, useVars, gcVars>>

\* The node that made room joins deletingPtrs; after COLLECT_INTERVAL, and with
\* enough of them, collect.
Keep(t) ==
    /\ At(t, "keep")
    /\ deleting' = [deleting EXCEPT ![t] = @ \cup {new[t]}]
    /\ held' = [held EXCEPT ![t] = Null] /\ new' = [new EXCEPT ![t] = Null]
    /\ goal' = [goal EXCEPT ![t] = "none"]
    /\ \/ Goto(t, "storePtr")
       \/ t \in Collectors /\ Cardinality(deleting'[t]) >= MinDeletes /\ Goto(t, "gcPtr")
    /\ UNCHANGED <<listVars, heap, recordVars, ringVars, rec, source, idx, gcVars>>

-----------------------------------------------------------------------------
(* gcCollect                                                                *)

NextRecord(t) ==
    IF gcAt[t] + 1 \in Records
    THEN gcAt' = [gcAt EXCEPT ![t] = @ + 1] /\ Goto(t, "gcPtr")
    ELSE gcAt' = [gcAt EXCEPT ![t] = 1] /\ Goto(t, "delete")

\* Record gcAt is dealt with; v is the pointer in it, if any.
Reference(t, v) ==
    /\ referenced' = [referenced EXCEPT ![t] = @ \cup ({v} \cap Nodes)]
    /\ expected' = [expected EXCEPT ![t] = Reset] /\ loaded' = [loaded EXCEPT ![t] = Reset]
    /\ NextRecord(t)

GcPtr(t) ==
    /\ At(t, "gcPtr")
    /\ IF IsValid(hazardPtr[gcAt[t]])
       THEN Reference(t, hazardPtr[gcAt[t]])
       ELSE Goto(t, "gcStore") /\ UNCHANGED gcVars
    /\ UNCHANGED <<listVars, heap, recordVars, ringVars, deleting, useVars, idx, goal>>

GcStore(t) ==
    /\ At(t, "gcStore")
    /\ IF storePtr[gcAt[t]] \in Sources
       THEN Goto(t, "helpPtr") /\ UNCHANGED gcVars
       ELSE Reference(t, Reset)
    /\ UNCHANGED <<listVars, heap, recordVars, ringVars, deleting, useVars, idx, goal>>

\* getHazardPtr, on a record of another thread, which may go on, reset the
\* record, free it or protect another pointer between any two of the steps.
HelpPtr(t) ==
    /\ At(t, "helpPtr")
    /\ LET curr == hazardPtr[gcAt[t]]
       IN  IF IsValid(curr)
           THEN Reference(t, curr)
           ELSE /\ expected' = [expected EXCEPT ![t] = curr]
                /\ Goto(t, "helpStore")
                /\ UNCHANGED <<gcAt, loaded, referenced>>
    /\ UNCHANGED <<listVars, heap, recordVars, ringVars, deleting, useVars, idx, goal>>

HelpStore(t) ==
    /\ At(t, "helpStore")
    /\ LET s == storePtr[gcAt[t]]
       IN  IF s \in Sources
           THEN \* the address is loaded now, the pointer behind it in HelpSource
                source' = [source EXCEPT ![t] = s] /\ Goto(t, "helpSource")
           ELSE Goto(t, "helpCas") /\ UNCHANGED source
    /\ UNCHANGED <<listVars, heap, recordVars, ringVars, deleting, rec, held, new, idx, goal, gcVars>>

HelpSource(t) ==
    /\ At(t, "helpSource")
    /\ loaded' = [loaded EXCEPT ![t] = Deref(source[t])]
    /\ source' = [source EXCEPT ![t] = "head"]
    /\ Goto(t, "helpCas")
    /\ UNCHANGED <<listVars, heap, recordVars, ringVars, deleting, rec, held, new, idx, goal, gcAt, expected, referenced>>

HelpCas(t) ==
    /\ At(t, "helpCas")
    /\ LET r == gcAt[t]
       IN  IF hazardPtr[r] = expected[t]
           THEN /\ hazardPtr' = [hazardPtr EXCEPT ![r] = loaded[t]]
                /\ Goto(t, "helpReload")
                /\ UNCHANGED gcVars
           ELSE Reference(t, hazardPtr[r]) /\ UNCHANGED hazardPtr
    /\ UNCHANGED <<listVars, heap, storePtr, ringVars, deleting, useVars, idx, goal>>

HelpReload(t) ==
    /\ At(t, "helpReload")
    /\ Reference(t, hazardPtr[gcAt[t]])
    /\ UNCHANGED <<listVars, heap, recordVars, ringVars, deleting, useVars, idx, goal>>

\* What no record names is destroyed; then dequeue goes on.
Delete(t) ==
    /\ At(t, "delete")
    /\ heap' = heap \cup ((deleting[t] \cap Nodes) \ referenced[t])
    /\ deleting' = [deleting EXCEPT ![t] = @ \cap referenced[t]]
    /\ referenced' = [referenced EXCEPT ![t] = {}]
    /\ Goto(t, "storePtr")
    /\ UNCHANGED <<listVars, recordVars, ringVars, useVars, idx, goal, gcAt, expected, loaded>>

-----------------------------------------------------------------------------
RecordStep(t) ==
    \/ \E s \in Sources : Begin(t, s)
    \/ AcquireRecord(t) \/ StorePtr(t) \/ ResetPtr(t) \/ GetPtr(t) \/ LoadSource(t) \/ CasPtr(t)
    \/ ClearStore(t) \/ ClearPtr(t) \/ FreePtr(t)

QueueStep(t) ==
    \/ FinishUse(t) \/ Retry(t) \/ Unlink(t) \/ NeedNode(t) \/ HelpTail(t)
    \/ Construct(t) \/ Link(t) \/ MoveTail(t)

RingStep(t) ==
    \/ PushLoad(t) \/ PushTest(t) \/ PushCas(t) \/ PushStore(t) \/ PushCount(t)
    \/ PopLoad(t) \/ PopTest(t) \/ PopCas(t) \/ PopTake(t) \/ PopCount(t) \/ Keep(t)

GcStep(t) ==
    \/ GcPtr(t) \/ GcStore(t) \/ HelpPtr(t) \/ HelpStore(t) \/ HelpSource(t)
    \/ HelpCas(t) \/ HelpReload(t) \/ Delete(t)

Next == \E t \in Threads : RecordStep(t) \/ QueueStep(t) \/ RingStep(t) \/ GcStep(t)

Spec == Init /\ [][Next]_vars

-----------------------------------------------------------------------------
\* The places that hold node n.
Owners(n) ==
    (IF InList(n) THEN {<<"linked", n>>} ELSE {})
      \cup {<<"ring", s>> : s \in {r \in RingSlots : buffer[r] = n}}
      \cup {<<"deleting", t>> : t \in {u \in Threads : n \in deleting[u]}}
      \cup {<<"new", t>> : t \in {u \in Threads : new[u] = n /\ ~At(u, "casTail")}}
      \cup {<<"retiring", t>> : t \in {u \in Threads :
                held[u] = n /\ goal[u] \in {"retire", "makeRoom", "replace"} /\ pc[u] # "pushCount" /\ pc[u] # "keep"}}

\* However pushes and pops overlap in the ring, a node is never in two hands:
\* not given to two enqueuers, not reused and destroyed, not destroyed twice,
\* not in use in the list and in the ring.
OneOwner == \A n \in Nodes : Cardinality(Owners(n)) + (IF n \in heap THEN 1 ELSE 0) <= 1
=============================================================================
