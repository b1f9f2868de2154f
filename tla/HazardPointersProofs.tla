------------------------ MODULE HazardPointersProofs ------------------------
(***************************************************************************)
(* Proofs about HazardPointers, for every number of threads, records,      *)
(* nodes and slots of the ring: that records and nodes have one owner,     *)
(* whatever the threads do and however the operations of the ring overlap; *)
(* and that a node in use is not destroyed until one of three things has   *)
(* happened, which the code does not prevent: a protected node is reused,  *)
(* two threads collect at once, or head overtakes tail.                    *)
(***************************************************************************)
EXTENDS HazardHistory, FiniteSetTheorems, TLAPS

(***************************************************************************)
(* Records. Every record has one owner, and a thread that uses a node has  *)
(* it in its record. The invariant goes by the step a thread is at: what   *)
(* it is pushing or popping for, the state of its record, the nodes it     *)
(* holds.                                                                  *)
(***************************************************************************)
\* A step of thread t.
Step(t) == RecordStep(t) \/ QueueStep(t) \/ RingStep(t) \/ GcStep(t)

\* Thread t has a node to retire: it is in enqueueDelete, or about to be.
Retires(t) == goal[t] \in {"retire", "makeRoom", "replace"}
PushSteps == {"pushLoad", "pushTest", "pushCas", "pushStore", "pushCount"}
PopSteps == {"popLoad", "popTest", "popCas", "popTake", "popCount"}

\* What the index operations of the ring are done for.
GoalOK(t) ==
    /\ pc[t] \in PushSteps => goal[t] \in {"retire", "replace"}
    /\ pc[t] \in PopSteps => goal[t] \in {"reuse", "makeRoom"}
    /\ pc[t] = "keep" => goal[t] = "replace"
    /\ pc[t] \in {"construct", "casNext"} => goal[t] = "reuse"
    /\ pc[t] \in {"clearStore", "clearPtr"} => goal[t] \in {"none", "retire"}
    /\ pc[t] \in GcSteps \cup {"idle", "acquire", "storePtr", "resetPtr", "getPtr", "loadSource",
                               "casPtr", "use", "casTail", "freePtr"} => goal[t] = "none"

\* The record of t: the owner set the source before it reads the pointer, and
\* the node it uses is in the record.
RecordOK(t) ==
    /\ pc[t] \in {"acquire", "freePtr"} => t \in Tokenless
    /\ IF t \in Tokenless /\ pc[t] \in {"idle", "acquire"} THEN rec[t] = Null ELSE rec[t] \in Records
    /\ rec[t] \in Records => hazardPtr[rec[t]] # Free
    /\ Using(t) => hazardPtr[rec[t]] = held[t]
    /\ Using(t) \/ pc[t] \in {"resetPtr", "getPtr", "loadSource", "casPtr", "clearStore"}
          => storePtr[rec[t]] = source[t]

\* The nodes of t.
NodesOK(t) ==
    /\ pc[t] \in {"loadSource", "casPtr"} => expected[t] = Reset
    /\ pc[t] = "casPtr" => loaded[t] \in Nodes
    /\ pc[t] \notin {"casPtr", "helpCas", "helpReload"} => loaded[t] = Reset
    /\ Using(t) \/ pc[t] \in {"clearStore", "clearPtr"} \/ Retires(t) => held[t] \in Nodes
    /\ pc[t] \in {"casNext", "casTail"} => new[t] \in Nodes

\* Only a collector collects, and it begins with the first record.
GcOK(t) ==
    /\ pc[t] \notin GcSteps \ {"delete"} => gcAt[t] = 1
    /\ pc[t] \in GcSteps => t \in Collectors

\* No record has two owners.
RecordOwned == \A s, t \in Threads : rec[s] = rec[t] /\ rec[s] # Null => s = t

ThreadOK(t) == GoalOK(t) /\ RecordOK(t) /\ NodesOK(t) /\ GcOK(t)

RecInv == TypeOK /\ RecordOwned /\ \A t \in Threads : ThreadOK(t)

\* The special values are not nodes and differ; nullptr is no record.
LEMMA Values == /\ Null \notin Nodes /\ Reset \notin Nodes /\ Free \notin Nodes
                /\ Null # Reset /\ Null # Free /\ Reset # Free
                /\ Null \notin Records
  BY HazardAssumption

\* There is a record, as soon as there is a thread.
LEMMA FirstRecord == Threads # {} => 1 \in Records
  <1>1. IsFiniteSet(Threads) /\ RecordsCount \in Nat /\ RecordsCount >= Cardinality(Threads)
    BY HazardAssumption
  <1>2. Threads # {} => Cardinality(Threads) # 0 /\ Cardinality(Threads) \in Nat
    BY <1>1, FS_CardinalityType, FS_EmptySet
  <1>3. QED
    BY <1>1, <1>2 DEF Records

\* Indices and counts stay in their range.
LEMMA Ranges ==
    /\ 0 \in RingSlots /\ 0 \in 0 .. CountWrap - 1
    /\ \A i \in RingSlots : After(i) \in RingSlots
    /\ \A i \in 0 .. CountWrap - 1 : (i + 1) % CountWrap \in 0 .. CountWrap - 1
                                     /\ (i - 1) % CountWrap \in 0 .. CountWrap - 1
  BY HazardAssumption DEF After, RingSlots

\* A collector that is done with a record keeps to the types.
LEMMA ReferenceType ==
  ASSUME TypeOK, NEW t \in Threads, NEW v, Reference(t, v)
  PROVE  /\ gcAt' \in [Threads -> Records] /\ expected' \in [Threads -> {Reset, Free}]
         /\ loaded' \in [Threads -> Nodes \cup {Reset}] /\ referenced' \in [Threads -> SUBSET Nodes]
         /\ pc' \in [Threads -> UseSteps \cup RingSteps \cup GcSteps]
  <1>1. gcAt' \in [Threads -> Records] /\ pc' \in [Threads -> UseSteps \cup RingSteps \cup GcSteps]
    BY FirstRecord DEF Reference, NextRecord, Goto, TypeOK, GcSteps
  <1>2. referenced' \in [Threads -> SUBSET Nodes]
    BY DEF Reference, TypeOK
  <1>3. QED
    BY <1>1, <1>2 DEF Reference, TypeOK

\* A step keeps to the types.
LEMMA TypeKept == ASSUME RecInv, NEW t \in Threads, Step(t) PROVE TypeOK'
  <1>0. TypeOK /\ GoalOK(t) /\ RecordOK(t) /\ NodesOK(t)
    BY DEF RecInv, ThreadOK
  <1> USE <1>0, FirstRecord, Ranges, Values DEF Deref, TypeOK, At, Goto,
          IsValid, listVars, recordVars, ringVars, useVars, gcVars
  <1>1. ASSUME NEW s \in Sources, Begin(t, s) PROVE TypeOK'
    BY <1>1 DEF Begin, UseSteps
  <1>2. CASE AcquireRecord(t)
    BY <1>2 DEF AcquireRecord, UseSteps, RingSteps, GcSteps
  <1>3. CASE StorePtr(t)
    BY <1>3 DEF StorePtr, UseSteps, RingSteps, GcSteps
  <1>4. CASE ResetPtr(t)
    BY <1>4 DEF ResetPtr, UseSteps, RingSteps, GcSteps
  <1>5. CASE GetPtr(t)
    <2>1. rec[t] \in Records /\ hazardPtr[rec[t]] \in Nodes \cup {Reset, Free}
      BY <1>5 DEF GetPtr, RecordOK
    <2>2. pc' \in [Threads -> UseSteps \cup RingSteps \cup GcSteps]
      BY <1>5 DEF GetPtr, UseSteps
    <2>3. held' \in [Threads -> Nodes \cup {Null}]
      BY <1>5 DEF GetPtr
    <2>4. expected' \in [Threads -> {Reset, Free}]
      BY <1>5, <2>1 DEF GetPtr
    <2>5. UNCHANGED <<listVars, heap, recordVars, ringVars, deleting, rec, source, new, idx, goal,
                      gcAt, loaded, referenced>>
      BY <1>5 DEF GetPtr
    <2>6. QED
      BY <2>2, <2>3, <2>4, <2>5
  <1>6. CASE LoadSource(t)
    BY <1>6 DEF LoadSource, UseSteps, RingSteps, GcSteps
  <1>7. CASE CasPtr(t)
    <2> DEFINE now == IF hazardPtr[rec[t]] = expected[t] THEN loaded[t] ELSE hazardPtr[rec[t]]
    <2>1. now \in Nodes
      <3>1. rec[t] \in Records /\ hazardPtr[rec[t]] # Free
        BY <1>7 DEF CasPtr, RecordOK
      <3>2. expected[t] = Reset /\ loaded[t] \in Nodes
        BY <1>7 DEF CasPtr, NodesOK
      <3>3. QED
        BY <3>1, <3>2
    <2>2. /\ hazardPtr' = [hazardPtr EXCEPT ![rec[t]] = now] /\ held' = [held EXCEPT ![t] = now]
          /\ pc' = [pc EXCEPT ![t] = "use"]
          /\ loaded' = [loaded EXCEPT ![t] = Reset] /\ expected' = [expected EXCEPT ![t] = Reset]
          /\ UNCHANGED <<listVars, heap, storePtr, ringVars, deleting, rec, source, new, idx, goal, gcAt, referenced>>
      BY <1>7 DEF CasPtr
    <2> HIDE DEF now
    <2>3. QED
      BY <2>1, <2>2 DEF UseSteps
  <1>8. CASE ClearStore(t)
    BY <1>8 DEF ClearStore, UseSteps, RingSteps, GcSteps
  <1>9. CASE ClearPtr(t)
    <2>1. pc' \in [Threads -> UseSteps \cup RingSteps \cup GcSteps]
      BY <1>9 DEF ClearPtr, UseSteps, RingSteps
    <2>2. held' \in [Threads -> Nodes \cup {Null}]
      BY <1>9 DEF ClearPtr
    <2>3. hazardPtr' \in [Records -> Nodes \cup {Reset, Free}] /\ source' \in [Threads -> Sources]
      BY <1>9 DEF ClearPtr, Sources
    <2>4. UNCHANGED <<listVars, heap, storePtr, ringVars, deleting, rec, new, idx, goal, gcVars>>
      BY <1>9 DEF ClearPtr
    <2>5. QED
      BY <2>1, <2>2, <2>3, <2>4
  <1>10. CASE FreePtr(t)
    BY <1>10 DEF FreePtr, UseSteps, RingSteps, GcSteps
  <1>11. CASE FinishUse(t)
    BY <1>11 DEF FinishUse, UseSteps, RingSteps, GcSteps
  <1>12. CASE Retry(t)
    BY <1>12 DEF Retry, UseSteps, RingSteps, GcSteps
  <1>13. CASE Unlink(t)
    BY <1>13 DEF Unlink, UseSteps, RingSteps, GcSteps
  <1>14. CASE NeedNode(t)
    BY <1>14 DEF NeedNode, UseSteps, RingSteps, GcSteps
  <1>15. CASE HelpTail(t)
    BY <1>15 DEF HelpTail, UseSteps, RingSteps, GcSteps
  <1>16. CASE Construct(t)
    BY <1>16 DEF Construct, UseSteps, RingSteps, GcSteps
  <1>17. CASE Link(t)
    <2>1. new[t] \in Nodes
      BY <1>17 DEF Link, NodesOK
    <2>2. pc' \in [Threads -> UseSteps \cup RingSteps \cup GcSteps]
      BY <1>17 DEF Link, UseSteps
    <2>3. next' \in [Nodes -> Nodes \cup {Null}] /\ heap' \in SUBSET Nodes
      BY <1>17, <2>1 DEF Link
    <2>4. held' \in [Threads -> Nodes \cup {Null}] /\ new' \in [Threads -> Nodes \cup {Null}]
      BY <1>17 DEF Link
    <2>5. goal' = [goal EXCEPT ![t] = "none"]
          /\ UNCHANGED <<headPtr, tailPtr, recordVars, ringVars, deleting, rec, source, idx, gcVars>>
      BY <1>17 DEF Link
    <2>6. QED
      BY <2>2, <2>3, <2>4, <2>5
  <1>18. CASE MoveTail(t)
    <2>1. new[t] \in Nodes
      BY <1>18 DEF MoveTail, NodesOK
    <2>2. QED
      BY <1>18, <2>1 DEF MoveTail, UseSteps
  <1>18a. CASE PushLoad(t)
    BY <1>18a DEF PushLoad, UseSteps, RingSteps, GcSteps
  <1>19. CASE PushTest(t)
    BY <1>19 DEF PushTest, UseSteps, RingSteps, GcSteps
  <1>20. CASE PushCas(t)
    BY <1>20 DEF PushCas, UseSteps, RingSteps, GcSteps
  <1>21. CASE PushStore(t)
    BY <1>21 DEF PushStore, UseSteps, RingSteps, GcSteps
  <1>22. CASE PushCount(t)
    <2>1. pc' \in [Threads -> UseSteps \cup RingSteps \cup GcSteps]
      BY <1>22 DEF PushCount, UseSteps
    <2>2. held' \in [Threads -> Nodes \cup {Null}] /\ idx' \in [Threads -> RingSlots]
      BY <1>22 DEF PushCount
    <2>3. goal' \in [Threads -> {"none", "retire", "makeRoom", "replace", "reuse"}]
      BY <1>22 DEF PushCount
    <2>4. count' \in 0 .. CountWrap - 1
      BY <1>22 DEF PushCount
    <2>5. UNCHANGED <<listVars, heap, recordVars, buffer, tail, head, deleting, rec, source, new, gcVars>>
      BY <1>22 DEF PushCount
    <2>6. QED
      BY <2>1, <2>2, <2>3, <2>4, <2>5
  <1>22a. CASE PopLoad(t)
    BY <1>22a DEF PopLoad, UseSteps, RingSteps, GcSteps
  <1>23. CASE PopTest(t)
    <2>1. pc' \in [Threads -> UseSteps \cup RingSteps \cup GcSteps]
      BY <1>23 DEF PopTest, Popped, UseSteps, RingSteps
    <2>2. goal' \in [Threads -> {"none", "retire", "makeRoom", "replace", "reuse"}]
      BY <1>23 DEF PopTest, Popped
    <2>3. idx' \in [Threads -> RingSlots]
      BY <1>23 DEF PopTest
    <2>4. UNCHANGED <<listVars, heap, recordVars, ringVars, deleting, useVars, gcVars>>
      BY <1>23 DEF PopTest
    <2>5. QED
      BY <2>1, <2>2, <2>3, <2>4
  <1>24. CASE PopCas(t)
    BY <1>24 DEF PopCas, UseSteps, RingSteps, GcSteps
  <1>25. CASE PopTake(t)
    BY <1>25 DEF PopTake, UseSteps, RingSteps, GcSteps
  <1>26. CASE PopCount(t)
    <2>1. pc' \in [Threads -> UseSteps \cup RingSteps \cup GcSteps]
      BY <1>26 DEF PopCount, Popped, UseSteps, RingSteps
    <2>2. goal' \in [Threads -> {"none", "retire", "makeRoom", "replace", "reuse"}]
      BY <1>26 DEF PopCount, Popped
    <2>3. count' \in 0 .. CountWrap - 1 /\ idx' \in [Threads -> RingSlots]
      BY <1>26 DEF PopCount
    <2>4. UNCHANGED <<listVars, heap, recordVars, buffer, tail, head, deleting, useVars, gcVars>>
      BY <1>26 DEF PopCount
    <2>5. QED
      BY <2>1, <2>2, <2>3, <2>4
  <1>27. CASE Keep(t)
    BY <1>27 DEF Keep, UseSteps, RingSteps, GcSteps
  <1>28. CASE GcPtr(t)
    <2>1. CASE IsValid(hazardPtr[gcAt[t]])
      <3>1. /\ Reference(t, hazardPtr[gcAt[t]])
            /\ UNCHANGED <<listVars, heap, recordVars, ringVars, deleting, useVars, idx, goal>>
        BY <1>28, <2>1 DEF GcPtr
      <3>2. QED
        BY <3>1, ReferenceType
    <2>2. CASE ~(IsValid(hazardPtr[gcAt[t]]))
      BY <1>28, <2>2 DEF GcPtr, GcSteps
    <2>3. QED
      BY <2>1, <2>2
  <1>29. CASE GcStore(t)
    <2>1. CASE storePtr[gcAt[t]] \notin Sources
      <3>1. /\ Reference(t, Reset)
            /\ UNCHANGED <<listVars, heap, recordVars, ringVars, deleting, useVars, idx, goal>>
        BY <1>29, <2>1 DEF GcStore
      <3>2. QED
        BY <3>1, ReferenceType
    <2>2. CASE ~(storePtr[gcAt[t]] \notin Sources)
      BY <1>29, <2>2 DEF GcStore, GcSteps
    <2>3. QED
      BY <2>1, <2>2
  <1>30. CASE HelpPtr(t)
    <2>1. CASE IsValid(hazardPtr[gcAt[t]])
      <3>1. /\ Reference(t, hazardPtr[gcAt[t]])
            /\ UNCHANGED <<listVars, heap, recordVars, ringVars, deleting, useVars, idx, goal>>
        BY <1>30, <2>1 DEF HelpPtr
      <3>2. QED
        BY <3>1, ReferenceType
    <2>2. CASE ~(IsValid(hazardPtr[gcAt[t]]))
      BY <1>30, <2>2 DEF HelpPtr, GcSteps
    <2>3. QED
      BY <2>1, <2>2
  <1>31. CASE HelpStore(t)
    BY <1>31 DEF HelpStore, UseSteps, RingSteps, GcSteps
  <1>32. CASE HelpSource(t)
    <2>1. "head" \in Sources /\ Deref(source[t]) \in Nodes /\ "helpCas" \in GcSteps
      BY DEF Sources, Deref, GcSteps
    <2>2. /\ loaded' = [loaded EXCEPT ![t] = Deref(source[t])]
          /\ source' = [source EXCEPT ![t] = "head"]
          /\ pc' = [pc EXCEPT ![t] = "helpCas"]
          /\ UNCHANGED <<listVars, heap, recordVars, ringVars, deleting, rec, held, new, idx, goal,
                         gcAt, expected, referenced>>
      BY <1>32 DEF HelpSource, Goto
    <2>3. QED
      BY <2>1, <2>2
  <1>33. CASE HelpCas(t)
    <2>1. CASE hazardPtr[gcAt[t]] # expected[t]
      <3>1. /\ Reference(t, hazardPtr[gcAt[t]])
            /\ UNCHANGED <<listVars, heap, recordVars, ringVars, deleting, useVars, idx, goal>>
        BY <1>33, <2>1 DEF HelpCas
      <3>2. QED
        BY <3>1, ReferenceType
    <2>2. CASE ~(hazardPtr[gcAt[t]] # expected[t])
      BY <1>33, <2>2 DEF HelpCas, GcSteps
    <2>3. QED
      BY <2>1, <2>2
  <1>34. CASE HelpReload(t)
    <2>1. /\ Reference(t, hazardPtr[gcAt[t]])
          /\ UNCHANGED <<listVars, heap, recordVars, ringVars, deleting, useVars, idx, goal>>
      BY <1>34 DEF HelpReload
    <2>2. QED
      BY <2>1, ReferenceType
  <1>35. CASE Delete(t)
    <2>1. heap' \in SUBSET Nodes
      BY <1>35 DEF Delete
    <2>2. deleting' \in [Threads -> SUBSET (Nodes \cup {Null})]
      BY <1>35 DEF Delete
    <2>3. referenced' \in [Threads -> SUBSET Nodes]
      BY <1>35 DEF Delete
    <2>4. source' \in [Threads -> Sources] /\ pc' \in [Threads -> UseSteps \cup RingSteps \cup GcSteps]
      BY <1>35 DEF Delete, Sources, UseSteps
    <2>5. UNCHANGED <<listVars, recordVars, ringVars, rec, held, new, idx, goal, gcAt, expected, loaded>>
      BY <1>35 DEF Delete
    <2>6. QED
      BY <2>1, <2>2, <2>3, <2>4, <2>5
  <1> HIDE <1>0, FirstRecord, Ranges, Values DEF TypeOK, At, Goto
  <1>36. QED
    BY <1>1, <1>2, <1>3, <1>4, <1>5, <1>6, <1>7, <1>8, <1>9, <1>10, <1>11, <1>12, <1>13, <1>14,
       <1>15, <1>16, <1>17, <1>18, <1>18a, <1>19, <1>20, <1>21, <1>22, <1>22a, <1>23, <1>24, <1>25, <1>26, <1>27,
       <1>28, <1>29, <1>30, <1>31, <1>32, <1>33, <1>34, <1>35 DEF Step, RecordStep, QueueStep,
       RingStep, GcStep

\* A step of t leaves t in order.
LEMMA MoverOK == ASSUME RecInv, NEW t \in Threads, Step(t) PROVE ThreadOK(t)'
  <1> USE FirstRecord, Values DEF RecInv, TypeOK, ThreadOK, GoalOK, RecordOK, NodesOK, GcOK,
          Using, Retires, PushSteps, PopSteps, At, Goto, IsValid, Deref, Sources, listVars,
          recordVars, ringVars, useVars, gcVars
  <1>1. CASE \E s \in Sources : Begin(t, s)
    BY <1>1 DEF Begin, UseSteps, RingSteps, GcSteps
  <1>2. CASE AcquireRecord(t)
    BY <1>2 DEF AcquireRecord, UseSteps, RingSteps, GcSteps
  <1>3. CASE StorePtr(t)
    BY <1>3 DEF StorePtr, UseSteps, RingSteps, GcSteps
  <1>4. CASE ResetPtr(t)
    BY <1>4 DEF ResetPtr, UseSteps, RingSteps, GcSteps
  <1>5. CASE GetPtr(t)
    BY <1>5 DEF GetPtr, UseSteps, RingSteps, GcSteps
  <1>6. CASE LoadSource(t)
    BY <1>6 DEF LoadSource, UseSteps, RingSteps, GcSteps
  <1>7. CASE CasPtr(t)
    BY <1>7 DEF CasPtr, UseSteps, RingSteps, GcSteps
  <1>8. CASE ClearStore(t)
    BY <1>8 DEF ClearStore, UseSteps, RingSteps, GcSteps
  <1>9. CASE ClearPtr(t)
    BY <1>9 DEF ClearPtr, UseSteps, RingSteps, GcSteps
  <1>10. CASE FreePtr(t)
    BY <1>10 DEF FreePtr, UseSteps, RingSteps, GcSteps
  <1>11. CASE FinishUse(t)
    BY <1>11 DEF FinishUse, UseSteps, RingSteps, GcSteps
  <1>12. CASE Retry(t)
    BY <1>12 DEF Retry, UseSteps, RingSteps, GcSteps
  <1>13. CASE Unlink(t)
    BY <1>13 DEF Unlink, UseSteps, RingSteps, GcSteps
  <1>14. CASE NeedNode(t)
    BY <1>14 DEF NeedNode, UseSteps, RingSteps, GcSteps
  <1>15. CASE HelpTail(t)
    BY <1>15 DEF HelpTail, UseSteps, RingSteps, GcSteps
  <1>16. CASE Construct(t)
    BY <1>16 DEF Construct, UseSteps, RingSteps, GcSteps
  <1>17. CASE Link(t)
    BY <1>17 DEF Link, UseSteps, RingSteps, GcSteps
  <1>18. CASE MoveTail(t)
    BY <1>18 DEF MoveTail, UseSteps, RingSteps, GcSteps
  <1>18a. CASE PushLoad(t)
    BY <1>18a DEF PushLoad, UseSteps, RingSteps, GcSteps
  <1>19. CASE PushTest(t)
    BY <1>19 DEF PushTest, UseSteps, RingSteps, GcSteps
  <1>20. CASE PushCas(t)
    BY <1>20 DEF PushCas, UseSteps, RingSteps, GcSteps
  <1>21. CASE PushStore(t)
    BY <1>21 DEF PushStore, UseSteps, RingSteps, GcSteps
  <1>22. CASE PushCount(t)
    BY <1>22 DEF PushCount, UseSteps, RingSteps, GcSteps
  <1>22a. CASE PopLoad(t)
    BY <1>22a DEF PopLoad, UseSteps, RingSteps, GcSteps
  <1>23. CASE PopTest(t)
    BY <1>23 DEF PopTest, Popped, UseSteps, RingSteps, GcSteps
  <1>24. CASE PopCas(t)
    BY <1>24 DEF PopCas, UseSteps, RingSteps, GcSteps
  <1>25. CASE PopTake(t)
    BY <1>25 DEF PopTake, UseSteps, RingSteps, GcSteps
  <1>26. CASE PopCount(t)
    BY <1>26 DEF PopCount, Popped, UseSteps, RingSteps, GcSteps
  <1>27. CASE Keep(t)
    BY <1>27 DEF Keep, UseSteps, RingSteps, GcSteps
  <1>28. CASE GcPtr(t)
    BY <1>28 DEF GcPtr, Reference, NextRecord, UseSteps, RingSteps, GcSteps
  <1>29. CASE GcStore(t)
    BY <1>29 DEF GcStore, Reference, NextRecord, UseSteps, RingSteps, GcSteps
  <1>30. CASE HelpPtr(t)
    BY <1>30 DEF HelpPtr, Reference, NextRecord, UseSteps, RingSteps, GcSteps
  <1>31. CASE HelpStore(t)
    BY <1>31 DEF HelpStore, UseSteps, RingSteps, GcSteps
  <1>32. CASE HelpSource(t)
    BY <1>32 DEF HelpSource, UseSteps, RingSteps, GcSteps
  <1>33. CASE HelpCas(t)
    BY <1>33 DEF HelpCas, Reference, NextRecord, UseSteps, RingSteps, GcSteps
  <1>34. CASE HelpReload(t)
    BY <1>34 DEF HelpReload, Reference, NextRecord, UseSteps, RingSteps, GcSteps
  <1>35. CASE Delete(t)
    BY <1>35 DEF Delete, UseSteps, RingSteps, GcSteps
  <1>36. QED
    BY <1>1, <1>2, <1>3, <1>4, <1>5, <1>6, <1>7, <1>8, <1>9, <1>10, <1>11, <1>12, <1>13, <1>14,
       <1>15, <1>16, <1>17, <1>18, <1>18a, <1>19, <1>20, <1>21, <1>22, <1>22a, <1>23, <1>24, <1>25, <1>26, <1>27,
       <1>28, <1>29, <1>30, <1>31, <1>32, <1>33, <1>34, <1>35 DEF Step, RecordStep, QueueStep,
       RingStep, GcStep

\* Nothing that is local to u changes.
Same(u) ==
    /\ pc'[u] = pc[u] /\ rec'[u] = rec[u] /\ source'[u] = source[u] /\ held'[u] = held[u]
    /\ new'[u] = new[u] /\ idx'[u] = idx[u] /\ goal'[u] = goal[u] /\ deleting'[u] = deleting[u]
    /\ gcAt'[u] = gcAt[u] /\ expected'[u] = expected[u] /\ loaded'[u] = loaded[u]
    /\ referenced'[u] = referenced[u]

\* A step of t changes nothing that is local to another thread.
LEMMA OthersSame ==
  ASSUME TypeOK, NEW t \in Threads, NEW u \in Threads \ {t}, Step(t) PROVE Same(u)
  <1> USE DEF TypeOK, Same, Goto, listVars, recordVars, ringVars, useVars, gcVars
  <1>1. CASE \E s \in Sources : Begin(t, s)
    BY <1>1 DEF Begin
  <1>2. CASE AcquireRecord(t)
    BY <1>2 DEF AcquireRecord
  <1>3. CASE StorePtr(t)
    BY <1>3 DEF StorePtr
  <1>4. CASE ResetPtr(t)
    BY <1>4 DEF ResetPtr
  <1>5. CASE GetPtr(t)
    BY <1>5 DEF GetPtr
  <1>6. CASE LoadSource(t)
    BY <1>6 DEF LoadSource
  <1>7. CASE CasPtr(t)
    BY <1>7 DEF CasPtr
  <1>8. CASE ClearStore(t)
    BY <1>8 DEF ClearStore
  <1>9. CASE ClearPtr(t)
    BY <1>9 DEF ClearPtr
  <1>10. CASE FreePtr(t)
    BY <1>10 DEF FreePtr
  <1>11. CASE FinishUse(t)
    BY <1>11 DEF FinishUse
  <1>12. CASE Retry(t)
    BY <1>12 DEF Retry
  <1>13. CASE Unlink(t)
    BY <1>13 DEF Unlink
  <1>14. CASE NeedNode(t)
    BY <1>14 DEF NeedNode
  <1>15. CASE HelpTail(t)
    BY <1>15 DEF HelpTail
  <1>16. CASE Construct(t)
    BY <1>16 DEF Construct
  <1>17. CASE Link(t)
    BY <1>17 DEF Link
  <1>18. CASE MoveTail(t)
    BY <1>18 DEF MoveTail
  <1>18a. CASE PushLoad(t)
    BY <1>18a DEF PushLoad
  <1>19. CASE PushTest(t)
    BY <1>19 DEF PushTest
  <1>20. CASE PushCas(t)
    BY <1>20 DEF PushCas
  <1>21. CASE PushStore(t)
    BY <1>21 DEF PushStore
  <1>22. CASE PushCount(t)
    BY <1>22 DEF PushCount
  <1>22a. CASE PopLoad(t)
    BY <1>22a DEF PopLoad
  <1>23. CASE PopTest(t)
    BY <1>23 DEF PopTest, Popped
  <1>24. CASE PopCas(t)
    BY <1>24 DEF PopCas
  <1>25. CASE PopTake(t)
    BY <1>25 DEF PopTake
  <1>26. CASE PopCount(t)
    BY <1>26 DEF PopCount, Popped
  <1>27. CASE Keep(t)
    BY <1>27 DEF Keep
  <1>28. CASE GcPtr(t)
    BY <1>28 DEF GcPtr, Reference, NextRecord
  <1>29. CASE GcStore(t)
    BY <1>29 DEF GcStore, Reference, NextRecord
  <1>30. CASE HelpPtr(t)
    BY <1>30 DEF HelpPtr, Reference, NextRecord
  <1>31. CASE HelpStore(t)
    BY <1>31 DEF HelpStore
  <1>32. CASE HelpSource(t)
    BY <1>32 DEF HelpSource
  <1>33. CASE HelpCas(t)
    BY <1>33 DEF HelpCas, Reference, NextRecord
  <1>34. CASE HelpReload(t)
    BY <1>34 DEF HelpReload, Reference, NextRecord
  <1>35. CASE Delete(t)
    BY <1>35 DEF Delete
  <1>36. QED
    BY <1>1, <1>2, <1>3, <1>4, <1>5, <1>6, <1>7, <1>8, <1>9, <1>10, <1>11, <1>12, <1>13, <1>14,
       <1>15, <1>16, <1>17, <1>18, <1>18a, <1>19, <1>20, <1>21, <1>22, <1>22a, <1>23, <1>24, <1>25, <1>26, <1>27,
       <1>28, <1>29, <1>30, <1>31, <1>32, <1>33, <1>34, <1>35 DEF Step, RecordStep, QueueStep,
       RingStep, GcStep

\* What a step of t may do to the pointers in the records, and to whose they are.
RecordEffect(t) ==
    \/ hazardPtr' = hazardPtr /\ rec' = rec /\ pc[t] # "clearPtr"
    \/ /\ pc[t] = "acquire" /\ pc'[t] = "storePtr"
       /\ rec'[t] \in Records /\ hazardPtr[rec'[t]] = Free
       /\ hazardPtr' = [hazardPtr EXCEPT ![rec'[t]] = Reset]
    \/ /\ pc[t] \in {"resetPtr", "clearPtr"} /\ rec' = rec
       /\ hazardPtr' = [hazardPtr EXCEPT ![rec[t]] = Reset]
    \/ /\ pc[t] = "casPtr" /\ pc'[t] = "use" /\ rec' = rec
       /\ \/ hazardPtr' = hazardPtr /\ hazardPtr[rec[t]] # Reset
          \/ hazardPtr[rec[t]] = Reset /\ hazardPtr' = [hazardPtr EXCEPT ![rec[t]] = loaded[t]]
    \/ /\ pc[t] = "freePtr" /\ pc'[t] = "idle" /\ rec'[t] = Null
       /\ hazardPtr' = [hazardPtr EXCEPT ![rec[t]] = Free]
    \/ /\ pc[t] = "helpCas" /\ pc'[t] = "helpReload" /\ rec' = rec
       /\ hazardPtr[gcAt[t]] = expected[t] /\ gcAt'[t] = gcAt[t]
       /\ hazardPtr' = [hazardPtr EXCEPT ![gcAt[t]] = loaded[t]]

\* What it may do to the sources in the records.
StoreEffect(t) ==
    \/ storePtr' = storePtr /\ pc[t] # "storePtr" /\ pc[t] # "clearStore"
    \/ /\ pc[t] = "storePtr" /\ pc'[t] = "resetPtr"
       /\ storePtr' = [storePtr EXCEPT ![rec[t]] = source[t]]
    \/ /\ pc[t] = "clearStore" /\ pc'[t] = "clearPtr"
       /\ storePtr' = [storePtr EXCEPT ![rec[t]] = Reset]

\* Every step does one of these things to the pointers in the records.
LEMMA RecordsChange ==
  ASSUME RecInv, NEW t \in Threads, Step(t) PROVE RecordEffect(t)
  <1> USE DEF RecInv, TypeOK, RecordEffect, At, Goto, listVars, recordVars, ringVars, useVars,
              gcVars
  <1>1. CASE \E s \in Sources : Begin(t, s)
    BY <1>1 DEF Begin
  <1>2. CASE AcquireRecord(t)
    BY <1>2 DEF AcquireRecord
  <1>3. CASE StorePtr(t)
    BY <1>3 DEF StorePtr
  <1>4. CASE ResetPtr(t)
    BY <1>4 DEF ResetPtr
  <1>5. CASE GetPtr(t)
    BY <1>5 DEF GetPtr
  <1>6. CASE LoadSource(t)
    BY <1>6 DEF LoadSource
  <1>7. CASE CasPtr(t)
    <2>1. rec[t] \in Records /\ expected[t] = Reset /\ pc[t] = "casPtr"
      BY <1>7 DEF CasPtr, RecInv, ThreadOK, RecordOK, NodesOK
    <2>2. pc'[t] = "use" /\ rec' = rec
      BY <1>7 DEF CasPtr
    <2>3. CASE hazardPtr[rec[t]] = Reset
      BY <1>7, <2>1, <2>2, <2>3 DEF CasPtr
    <2>4. CASE hazardPtr[rec[t]] # Reset
      <3>1. hazardPtr' = [hazardPtr EXCEPT ![rec[t]] = hazardPtr[rec[t]]]
        BY <1>7, <2>1, <2>4 DEF CasPtr
      <3>2. hazardPtr' = hazardPtr
        BY <3>1
      <3>3. QED
        BY <2>1, <2>2, <2>4, <3>2
    <2>5. QED
      BY <2>3, <2>4
  <1>8. CASE ClearStore(t)
    BY <1>8 DEF ClearStore
  <1>9. CASE ClearPtr(t)
    BY <1>9 DEF ClearPtr
  <1>10. CASE FreePtr(t)
    BY <1>10 DEF FreePtr
  <1>11. CASE FinishUse(t)
    BY <1>11 DEF FinishUse
  <1>12. CASE Retry(t)
    BY <1>12 DEF Retry
  <1>13. CASE Unlink(t)
    BY <1>13 DEF Unlink
  <1>14. CASE NeedNode(t)
    BY <1>14 DEF NeedNode
  <1>15. CASE HelpTail(t)
    BY <1>15 DEF HelpTail
  <1>16. CASE Construct(t)
    BY <1>16 DEF Construct
  <1>17. CASE Link(t)
    BY <1>17 DEF Link
  <1>18. CASE MoveTail(t)
    BY <1>18 DEF MoveTail
  <1>18a. CASE PushLoad(t)
    BY <1>18a DEF PushLoad
  <1>19. CASE PushTest(t)
    BY <1>19 DEF PushTest
  <1>20. CASE PushCas(t)
    BY <1>20 DEF PushCas
  <1>21. CASE PushStore(t)
    BY <1>21 DEF PushStore
  <1>22. CASE PushCount(t)
    BY <1>22 DEF PushCount
  <1>22a. CASE PopLoad(t)
    BY <1>22a DEF PopLoad
  <1>23. CASE PopTest(t)
    BY <1>23 DEF PopTest, Popped
  <1>24. CASE PopCas(t)
    BY <1>24 DEF PopCas
  <1>25. CASE PopTake(t)
    BY <1>25 DEF PopTake
  <1>26. CASE PopCount(t)
    BY <1>26 DEF PopCount, Popped
  <1>27. CASE Keep(t)
    BY <1>27 DEF Keep
  <1>28. CASE GcPtr(t)
    BY <1>28 DEF GcPtr, Reference, NextRecord
  <1>29. CASE GcStore(t)
    BY <1>29 DEF GcStore, Reference, NextRecord
  <1>30. CASE HelpPtr(t)
    BY <1>30 DEF HelpPtr, Reference, NextRecord
  <1>31. CASE HelpStore(t)
    BY <1>31 DEF HelpStore
  <1>32. CASE HelpSource(t)
    BY <1>32 DEF HelpSource
  <1>33. CASE HelpCas(t)
    BY <1>33 DEF HelpCas, Reference, NextRecord
  <1>34. CASE HelpReload(t)
    BY <1>34 DEF HelpReload, Reference, NextRecord
  <1>35. CASE Delete(t)
    BY <1>35 DEF Delete
  <1>36. QED
    BY <1>1, <1>2, <1>3, <1>4, <1>5, <1>6, <1>7, <1>8, <1>9, <1>10, <1>11, <1>12, <1>13, <1>14,
       <1>15, <1>16, <1>17, <1>18, <1>18a, <1>19, <1>20, <1>21, <1>22, <1>22a, <1>23, <1>24, <1>25, <1>26, <1>27,
       <1>28, <1>29, <1>30, <1>31, <1>32, <1>33, <1>34, <1>35 DEF Step, RecordStep, QueueStep,
       RingStep, GcStep

\* And one of these to the sources.
LEMMA StoresChange ==
  ASSUME TypeOK, NEW t \in Threads, Step(t) PROVE StoreEffect(t)
  <1> USE DEF TypeOK, StoreEffect, At, Goto, listVars, recordVars, ringVars, useVars, gcVars
  <1>1. CASE \E s \in Sources : Begin(t, s)
    BY <1>1 DEF Begin
  <1>2. CASE AcquireRecord(t)
    BY <1>2 DEF AcquireRecord
  <1>3. CASE StorePtr(t)
    BY <1>3 DEF StorePtr
  <1>4. CASE ResetPtr(t)
    BY <1>4 DEF ResetPtr
  <1>5. CASE GetPtr(t)
    BY <1>5 DEF GetPtr
  <1>6. CASE LoadSource(t)
    BY <1>6 DEF LoadSource
  <1>7. CASE CasPtr(t)
    BY <1>7 DEF CasPtr
  <1>8. CASE ClearStore(t)
    BY <1>8 DEF ClearStore
  <1>9. CASE ClearPtr(t)
    BY <1>9 DEF ClearPtr
  <1>10. CASE FreePtr(t)
    BY <1>10 DEF FreePtr
  <1>11. CASE FinishUse(t)
    BY <1>11 DEF FinishUse
  <1>12. CASE Retry(t)
    BY <1>12 DEF Retry
  <1>13. CASE Unlink(t)
    BY <1>13 DEF Unlink
  <1>14. CASE NeedNode(t)
    BY <1>14 DEF NeedNode
  <1>15. CASE HelpTail(t)
    BY <1>15 DEF HelpTail
  <1>16. CASE Construct(t)
    BY <1>16 DEF Construct
  <1>17. CASE Link(t)
    BY <1>17 DEF Link
  <1>18. CASE MoveTail(t)
    BY <1>18 DEF MoveTail
  <1>18a. CASE PushLoad(t)
    BY <1>18a DEF PushLoad
  <1>19. CASE PushTest(t)
    BY <1>19 DEF PushTest
  <1>20. CASE PushCas(t)
    BY <1>20 DEF PushCas
  <1>21. CASE PushStore(t)
    BY <1>21 DEF PushStore
  <1>22. CASE PushCount(t)
    BY <1>22 DEF PushCount
  <1>22a. CASE PopLoad(t)
    BY <1>22a DEF PopLoad
  <1>23. CASE PopTest(t)
    BY <1>23 DEF PopTest, Popped
  <1>24. CASE PopCas(t)
    BY <1>24 DEF PopCas
  <1>25. CASE PopTake(t)
    BY <1>25 DEF PopTake
  <1>26. CASE PopCount(t)
    BY <1>26 DEF PopCount, Popped
  <1>27. CASE Keep(t)
    BY <1>27 DEF Keep
  <1>28. CASE GcPtr(t)
    BY <1>28 DEF GcPtr, Reference, NextRecord
  <1>29. CASE GcStore(t)
    BY <1>29 DEF GcStore, Reference, NextRecord
  <1>30. CASE HelpPtr(t)
    BY <1>30 DEF HelpPtr, Reference, NextRecord
  <1>31. CASE HelpStore(t)
    BY <1>31 DEF HelpStore
  <1>32. CASE HelpSource(t)
    BY <1>32 DEF HelpSource
  <1>33. CASE HelpCas(t)
    BY <1>33 DEF HelpCas, Reference, NextRecord
  <1>34. CASE HelpReload(t)
    BY <1>34 DEF HelpReload, Reference, NextRecord
  <1>35. CASE Delete(t)
    BY <1>35 DEF Delete
  <1>36. QED
    BY <1>1, <1>2, <1>3, <1>4, <1>5, <1>6, <1>7, <1>8, <1>9, <1>10, <1>11, <1>12, <1>13, <1>14,
       <1>15, <1>16, <1>17, <1>18, <1>18a, <1>19, <1>20, <1>21, <1>22, <1>22a, <1>23, <1>24, <1>25, <1>26, <1>27,
       <1>28, <1>29, <1>30, <1>31, <1>32, <1>33, <1>34, <1>35 DEF Step, RecordStep, QueueStep,
       RingStep, GcStep

\* A record keeps a single owner: one that is acquired was free.
LEMMA OwnedKept == ASSUME RecInv, NEW t \in Threads, Step(t) PROVE RecordOwned'
  <1>1. RecordEffect(t) /\ \A u \in Threads \ {t} : Same(u)
    BY RecordsChange, OthersSame DEF RecInv
  <1>2. \A u \in Threads : rec[u] \in Records => hazardPtr[rec[u]] # Free
    BY DEF RecInv, ThreadOK, RecordOK
  <1>3. \A u \in Threads : rec[u] \in Records \cup {Null}
    BY DEF RecInv, TypeOK
  <1>4. \A u \in Threads \ {t} : rec'[u] = rec[u]
    BY <1>1 DEF Same
  <1>5. rec'[t] = rec[t] \/ rec'[t] = Null \/ hazardPtr[rec'[t]] = Free
    BY <1>1 DEF RecordEffect
  <1>6. QED
    BY <1>2, <1>3, <1>4, <1>5 DEF RecInv, RecordOwned

\* In the record of another thread, a step changes at most the pointer, and only
\* as a collector that completes setHazardPtr for the owner.
LEMMA OtherRecord ==
  ASSUME RecInv, NEW t \in Threads, NEW u \in Threads \ {t}, Step(t), rec[u] \in Records
  PROVE  /\ storePtr'[rec[u]] = storePtr[rec[u]]
         /\ \/ hazardPtr'[rec[u]] = hazardPtr[rec[u]]
            \/ /\ pc[t] = "helpCas" /\ rec[u] = gcAt[t] /\ hazardPtr[rec[u]] = Reset
               /\ expected[t] = Reset
               /\ hazardPtr'[rec[u]] = loaded[t] /\ loaded[t] \in Nodes \cup {Reset}
  <1>1. RecordEffect(t) /\ StoreEffect(t)
    BY RecordsChange, StoresChange DEF RecInv
  <1>2. rec[t] # rec[u] /\ hazardPtr[rec[u]] # Free
    BY Values DEF RecInv, RecordOwned, ThreadOK, RecordOK
  <1>3. storePtr'[rec[u]] = storePtr[rec[u]]
    BY <1>1, <1>2 DEF StoreEffect, RecInv, TypeOK
  <1>4. expected[t] \in {Reset, Free} /\ loaded[t] \in Nodes \cup {Reset} /\ gcAt[t] \in Records
    BY DEF RecInv, TypeOK
  <1>5. hazardPtr \in [Records -> Nodes \cup {Reset, Free}]
    BY DEF RecInv, TypeOK
  <1>6. QED
    BY <1>1, <1>2, <1>3, <1>4, <1>5 DEF RecordEffect

\* A step of t leaves the other threads in order.
LEMMA OthersOK == ASSUME RecInv, NEW t \in Threads, NEW u \in Threads \ {t}, Step(t) PROVE ThreadOK(u)'
  <1>1. Same(u) /\ ThreadOK(u)
    BY OthersSame DEF RecInv
  <1>2. rec[u] \in Records => hazardPtr[rec[u]] # Free
    BY <1>1 DEF ThreadOK, RecordOK
  <1>3. rec[u] \in Records => storePtr'[rec[u]] = storePtr[rec[u]] /\ hazardPtr'[rec[u]] # Free
    BY <1>2, OtherRecord, Values
  <1>4. rec[u] \in Records /\ hazardPtr[rec[u]] \in Nodes => hazardPtr'[rec[u]] = hazardPtr[rec[u]]
    BY OtherRecord, Values
  <1>5. Using(u) => rec[u] \in Records /\ hazardPtr[rec[u]] \in Nodes
    BY <1>1 DEF ThreadOK, RecordOK, NodesOK, Using, RingSteps
  <1>6. GoalOK(u)' /\ NodesOK(u)' /\ GcOK(u)'
    BY <1>1 DEF ThreadOK, GoalOK, NodesOK, GcOK, Same, Using, Retires
  <1>7. RecordOK(u)'
    BY <1>1, <1>3, <1>4, <1>5 DEF ThreadOK, RecordOK, Same, Using
  <1>8. QED
    BY <1>6, <1>7 DEF ThreadOK

\* The invariant of the records at the start.
LEMMA InitRec == Init => RecInv
  <1> SUFFICES ASSUME Init PROVE RecInv
    OBVIOUS
  <1> USE Values, FirstRecord, Ranges
  <1>1. PICK r \in [Threads \ Tokenless -> Records] :
          /\ \A s, t \in DOMAIN r : r[s] = r[t] => s = t
          /\ rec = [t \in Threads |-> IF t \in DOMAIN r THEN r[t] ELSE Null]
          /\ hazardPtr = [i \in Records |-> IF \E t \in DOMAIN r : r[t] = i THEN Reset ELSE Free]
    BY DEF Init
  <1>2. headPtr \in Nodes /\ tailPtr \in Nodes /\ heap \in SUBSET Nodes
    BY DEF Init
  <1>3. hazardPtr \in [Records -> Nodes \cup {Reset, Free}] /\ rec \in [Threads -> Records \cup {Null}]
    BY <1>1
  <1>4. TypeOK
    BY <1>2, <1>3 DEF Init, TypeOK, Sources, UseSteps
  <1>5. RecordOwned
    BY <1>1 DEF RecordOwned
  <1>6. \A t \in Threads : ThreadOK(t)
    <2> SUFFICES ASSUME NEW t \in Threads PROVE ThreadOK(t)
      OBVIOUS
    <2>1. pc[t] = "idle" /\ goal[t] = "none" /\ gcAt[t] = 1 /\ loaded[t] = Reset
      BY DEF Init
    <2>2. IF t \in Tokenless THEN rec[t] = Null ELSE rec[t] \in Records
      BY <1>1
    <2>3. rec[t] \in Records => hazardPtr[rec[t]] = Reset
      BY <1>1
    <2>4. QED
      BY <2>1, <2>2, <2>3 DEF ThreadOK, GoalOK, RecordOK, NodesOK, GcOK, Using, Retires,
           PushSteps, PopSteps, RingSteps, GcSteps
  <1>7. QED
    BY <1>4, <1>5, <1>6 DEF RecInv

\* A step is a step of some thread.
LEMMA StepOf == ASSUME Next PROVE \E t \in Threads : Step(t)
  BY DEF Next, Step

\* Every step keeps the invariant of the records.
LEMMA NextRec == RecInv /\ [Next]_vars => RecInv'
  <1> SUFFICES ASSUME RecInv, [Next]_vars PROVE RecInv'
    OBVIOUS
  <1>1. CASE Next
    <2>1. PICK t \in Threads : Step(t)
      BY <1>1, StepOf
    <2>2. \A u \in Threads : ThreadOK(u)'
      BY <2>1, MoverOK, OthersOK
    <2>3. QED
      BY <2>1, <2>2, TypeKept, OwnedKept DEF RecInv
  <1>2. CASE UNCHANGED vars
    BY <1>2 DEF vars, listVars, recordVars, ringVars, useVars, gcVars, RecInv, TypeOK, RecordOwned,
         ThreadOK, GoalOK, RecordOK, NodesOK, GcOK, Using, Retires
  <1>3. QED
    BY <1>1, <1>2

\* A record has one owner; a thread that uses a node has it in its record, whoever
\* stored it there; and the source of a record is set before its pointer is read.
THEOREM RecordsOwned == Spec => []RecInv
  <1>1. QED
    BY InitRec, NextRec, PTL DEF Spec

\* Type correctness.
THEOREM TypeCorrect == Spec => []TypeOK
  <1>1. RecInv => TypeOK
    BY DEF RecInv
  <1>2. QED
    BY <1>1, RecordsOwned, PTL

(***************************************************************************)
(* One owner. A function own says where each node is: in the list, in a    *)
(* slot of the ring, in deletingPtrs of a thread, in the hands of a thread *)
(* that took it or that retires it, or not allocated. The invariant is     *)
(* that some such function agrees with every place that holds a node, so   *)
(* that no node is in two of them.                                         *)
(***************************************************************************)
\* Thread t is between the test that made it append and casNext.
Appending(t) == pc[t] \in {"construct", "casNext"} \/ (pc[t] \in RingSteps /\ goal[t] = "reuse")
\* The node that t retires is in its hands, not in the ring or in deletingPtrs yet.
Retiring(t) == Retires(t) /\ pc[t] # "pushCount" /\ pc[t] # "keep"
\* Node n is in the list.
In(own, n) == own[n] = <<"linked", n>>

\* Every place that holds a node is the one own says.
Placed(own) ==
    /\ \A s \in RingSlots : buffer[s] \in Nodes => own[buffer[s]] = <<"ring", s>>
    /\ \A t \in Threads : \A n \in deleting[t] \cap Nodes : own[n] = <<"deleting", t>>
    /\ \A t \in Threads : new[t] \in Nodes /\ pc[t] # "casTail" => own[new[t]] = <<"new", t>>
    /\ \A t \in Threads : Retiring(t) => own[held[t]] = <<"retiring", t>>
    /\ \A n \in heap : own[n] = <<"heap", n>>

\* Nodes of the list, and those a thread is about to link.
Live(own, m) == In(own, m) \/ \E t \in Threads : pc[t] = "casNext" /\ new[t] = m

\* The list: its nodes follow one another from the head, none follows two.
Chained(own) ==
    /\ In(own, headPtr)
    /\ \A m \in Nodes : Live(own, m) => next[m] # headPtr /\ (next[m] # Null => In(own, next[m]))
    /\ \A m, k \in Nodes : Live(own, m) /\ Live(own, k) /\ next[m] = next[k] /\ next[m] # Null => m = k

PlaceInv(own) == Placed(own) /\ Chained(own)

\* A step of t unlinks the first node or links the new one, or the list stays.
Relinked(own, o, t) ==
    \A n \in Nodes : In(o, n) <=> \/ In(own, n) /\ (n = headPtr => headPtr' = headPtr)
                                  \/ n = new[t] /\ pc[t] = "casNext" /\ pc'[t] = "casTail"

\* The step moves no node.
Quiet(t) ==
    /\ UNCHANGED <<listVars, heap, buffer, deleting, new>>
    /\ Retiring(t)' => Retiring(t) /\ held'[t] = held[t]
    /\ pc'[t] = "casTail" <=> pc[t] = "casTail"
    /\ pc[t] = "casTail" => held'[t] = held[t]
    /\ pc'[t] = "casNext" <=> pc[t] = "casNext"
    /\ Appending(t)' => held'[t] = held[t] /\ (Appending(t) \/ held[t] = tailPtr)

\* The steps that move a node, or head or tail.
LEMMA QuietStep ==
  ASSUME RecInv, NEW t \in Threads, Step(t)
  PROVE  \/ Quiet(t) \/ Unlink(t) \/ HelpTail(t) \/ Construct(t) \/ Link(t)
         \/ MoveTail(t) \/ PushStore(t) \/ PopTake(t) \/ Keep(t) \/ Delete(t)
  <1> USE DEF RecInv, TypeOK, Quiet, Retiring, Retires, Appending, ThreadOK, GoalOK, PushSteps,
              PopSteps, At, Goto, listVars, recordVars, ringVars, useVars, gcVars
  <1>1. CASE \E s \in Sources : Begin(t, s)
    BY <1>1 DEF Begin, UseSteps, RingSteps, GcSteps
  <1>2. CASE AcquireRecord(t)
    BY <1>2 DEF AcquireRecord, UseSteps, RingSteps, GcSteps
  <1>3. CASE StorePtr(t)
    BY <1>3 DEF StorePtr, UseSteps, RingSteps, GcSteps
  <1>4. CASE ResetPtr(t)
    BY <1>4 DEF ResetPtr, UseSteps, RingSteps, GcSteps
  <1>5. CASE GetPtr(t)
    BY <1>5 DEF GetPtr, UseSteps, RingSteps, GcSteps
  <1>6. CASE LoadSource(t)
    BY <1>6 DEF LoadSource, UseSteps, RingSteps, GcSteps
  <1>7. CASE CasPtr(t)
    BY <1>7 DEF CasPtr, UseSteps, RingSteps, GcSteps
  <1>8. CASE ClearStore(t)
    BY <1>8 DEF ClearStore, UseSteps, RingSteps, GcSteps
  <1>9. CASE ClearPtr(t)
    BY <1>9 DEF ClearPtr, UseSteps, RingSteps, GcSteps
  <1>10. CASE FreePtr(t)
    BY <1>10 DEF FreePtr, UseSteps, RingSteps, GcSteps
  <1>11. CASE FinishUse(t)
    BY <1>11 DEF FinishUse, UseSteps, RingSteps, GcSteps
  <1>12. CASE Retry(t)
    BY <1>12 DEF Retry, UseSteps, RingSteps, GcSteps
  <1>13. CASE Unlink(t)
    BY <1>13
  <1>14. CASE NeedNode(t)
    BY <1>14 DEF NeedNode, UseSteps, RingSteps, GcSteps
  <1>15. CASE HelpTail(t)
    BY <1>15
  <1>16. CASE Construct(t)
    BY <1>16
  <1>17. CASE Link(t)
    BY <1>17
  <1>18. CASE MoveTail(t)
    BY <1>18
  <1>18a. CASE PushLoad(t)
    BY <1>18a DEF PushLoad, UseSteps, RingSteps, GcSteps
  <1>19. CASE PushTest(t)
    BY <1>19 DEF PushTest, UseSteps, RingSteps, GcSteps
  <1>20. CASE PushCas(t)
    BY <1>20 DEF PushCas, UseSteps, RingSteps, GcSteps
  <1>21. CASE PushStore(t)
    BY <1>21
  <1>22. CASE PushCount(t)
    BY <1>22 DEF PushCount, UseSteps, RingSteps, GcSteps
  <1>22a. CASE PopLoad(t)
    BY <1>22a DEF PopLoad, UseSteps, RingSteps, GcSteps
  <1>23. CASE PopTest(t)
    BY <1>23 DEF PopTest, Popped, UseSteps, RingSteps, GcSteps
  <1>24. CASE PopCas(t)
    BY <1>24 DEF PopCas, UseSteps, RingSteps, GcSteps
  <1>25. CASE PopTake(t)
    BY <1>25
  <1>26. CASE PopCount(t)
    BY <1>26 DEF PopCount, Popped, UseSteps, RingSteps, GcSteps
  <1>27. CASE Keep(t)
    BY <1>27
  <1>28. CASE GcPtr(t)
    BY <1>28 DEF GcPtr, Reference, NextRecord, UseSteps, RingSteps, GcSteps
  <1>29. CASE GcStore(t)
    BY <1>29 DEF GcStore, Reference, NextRecord, UseSteps, RingSteps, GcSteps
  <1>30. CASE HelpPtr(t)
    BY <1>30 DEF HelpPtr, Reference, NextRecord, UseSteps, RingSteps, GcSteps
  <1>31. CASE HelpStore(t)
    BY <1>31 DEF HelpStore, UseSteps, RingSteps, GcSteps
  <1>32. CASE HelpSource(t)
    BY <1>32 DEF HelpSource, UseSteps, RingSteps, GcSteps
  <1>33. CASE HelpCas(t)
    BY <1>33 DEF HelpCas, Reference, NextRecord, UseSteps, RingSteps, GcSteps
  <1>34. CASE HelpReload(t)
    BY <1>34 DEF HelpReload, Reference, NextRecord, UseSteps, RingSteps, GcSteps
  <1>35. CASE Delete(t)
    BY <1>35
  <1>36. QED
    BY <1>1, <1>2, <1>3, <1>4, <1>5, <1>6, <1>7, <1>8, <1>9, <1>10, <1>11, <1>12, <1>13, <1>14,
       <1>15, <1>16, <1>17, <1>18, <1>18a, <1>19, <1>20, <1>21, <1>22, <1>22a, <1>23, <1>24, <1>25, <1>26, <1>27,
       <1>28, <1>29, <1>30, <1>31, <1>32, <1>33, <1>34, <1>35 DEF Step, RecordStep, QueueStep,
       RingStep, GcStep

\* What a step loads is head or tail.
LEMMA LoadedChange ==
  ASSUME TypeOK, NEW t \in Threads, Step(t) PROVE loaded'[t] \in {loaded[t], Reset, headPtr, tailPtr}
  <1> USE DEF TypeOK, At, Goto, Deref, listVars, recordVars, ringVars, useVars, gcVars
  <1>1. CASE \E s \in Sources : Begin(t, s)
    BY <1>1 DEF Begin
  <1>2. CASE AcquireRecord(t)
    BY <1>2 DEF AcquireRecord
  <1>3. CASE StorePtr(t)
    BY <1>3 DEF StorePtr
  <1>4. CASE ResetPtr(t)
    BY <1>4 DEF ResetPtr
  <1>5. CASE GetPtr(t)
    BY <1>5 DEF GetPtr
  <1>6. CASE LoadSource(t)
    BY <1>6 DEF LoadSource
  <1>7. CASE CasPtr(t)
    BY <1>7 DEF CasPtr
  <1>8. CASE ClearStore(t)
    BY <1>8 DEF ClearStore
  <1>9. CASE ClearPtr(t)
    BY <1>9 DEF ClearPtr
  <1>10. CASE FreePtr(t)
    BY <1>10 DEF FreePtr
  <1>11. CASE FinishUse(t)
    BY <1>11 DEF FinishUse
  <1>12. CASE Retry(t)
    BY <1>12 DEF Retry
  <1>13. CASE Unlink(t)
    BY <1>13 DEF Unlink
  <1>14. CASE NeedNode(t)
    BY <1>14 DEF NeedNode
  <1>15. CASE HelpTail(t)
    BY <1>15 DEF HelpTail
  <1>16. CASE Construct(t)
    BY <1>16 DEF Construct
  <1>17. CASE Link(t)
    BY <1>17 DEF Link
  <1>18. CASE MoveTail(t)
    BY <1>18 DEF MoveTail
  <1>18a. CASE PushLoad(t)
    BY <1>18a DEF PushLoad
  <1>19. CASE PushTest(t)
    BY <1>19 DEF PushTest
  <1>20. CASE PushCas(t)
    BY <1>20 DEF PushCas
  <1>21. CASE PushStore(t)
    BY <1>21 DEF PushStore
  <1>22. CASE PushCount(t)
    BY <1>22 DEF PushCount
  <1>22a. CASE PopLoad(t)
    BY <1>22a DEF PopLoad
  <1>23. CASE PopTest(t)
    BY <1>23 DEF PopTest, Popped
  <1>24. CASE PopCas(t)
    BY <1>24 DEF PopCas
  <1>25. CASE PopTake(t)
    BY <1>25 DEF PopTake
  <1>26. CASE PopCount(t)
    BY <1>26 DEF PopCount, Popped
  <1>27. CASE Keep(t)
    BY <1>27 DEF Keep
  <1>28. CASE GcPtr(t)
    BY <1>28 DEF GcPtr, Reference, NextRecord
  <1>29. CASE GcStore(t)
    BY <1>29 DEF GcStore, Reference, NextRecord
  <1>30. CASE HelpPtr(t)
    BY <1>30 DEF HelpPtr, Reference, NextRecord
  <1>31. CASE HelpStore(t)
    BY <1>31 DEF HelpStore
  <1>32. CASE HelpSource(t)
    BY <1>32 DEF HelpSource
  <1>33. CASE HelpCas(t)
    BY <1>33 DEF HelpCas, Reference, NextRecord
  <1>34. CASE HelpReload(t)
    BY <1>34 DEF HelpReload, Reference, NextRecord
  <1>35. CASE Delete(t)
    BY <1>35 DEF Delete
  <1>36. QED
    BY <1>1, <1>2, <1>3, <1>4, <1>5, <1>6, <1>7, <1>8, <1>9, <1>10, <1>11, <1>12, <1>13, <1>14,
       <1>15, <1>16, <1>17, <1>18, <1>18a, <1>19, <1>20, <1>21, <1>22, <1>22a, <1>23, <1>24, <1>25, <1>26, <1>27,
       <1>28, <1>29, <1>30, <1>31, <1>32, <1>33, <1>34, <1>35 DEF Step, RecordStep, QueueStep,
       RingStep, GcStep

\* A node that comes to be protected was head or tail.
LEMMA ProtectedChange ==
  ASSUME RecInv, NEW t \in Threads, Step(t), NEW n \in Nodes, n \in Protected'
  PROVE  n \in Protected \/ n = headPtr \/ n = tailPtr
  <1>1. RecordEffect(t) /\ loaded'[t] \in {loaded[t], Reset, headPtr, tailPtr}
        /\ \A u \in Threads \ {t} : loaded'[u] = loaded[u]
    BY RecordsChange, LoadedChange, OthersSame DEF RecInv, Same
  <1>2. n # Reset /\ n # Free
    BY Values
  <1>3. ASSUME NEW u \in Threads, n = loaded'[u] PROVE n \in Protected \/ n = headPtr \/ n = tailPtr
    BY <1>1, <1>2, <1>3 DEF Protected
  <1>4. ASSUME NEW r \in Records, n = hazardPtr'[r] PROVE n \in Protected
    <2>1. hazardPtr'[r] \in {hazardPtr[r], Reset, Free, loaded[t]}
      BY <1>1 DEF RecordEffect, RecInv, TypeOK
    <2>2. QED
      BY <2>1, <1>2, <1>4 DEF Protected
  <1>5. QED
    BY <1>3, <1>4 DEF Protected

\* The list stays in order where no link changes.
LEMMA ChainKept ==
  ASSUME RecInv, NEW own, PlaceInv(own), NEW t \in Threads, Step(t), UNCHANGED <<headPtr, next>>,
         NEW o, \A n \in Nodes : In(o, n) <=> In(own, n),
         pc'[t] = "casNext" => pc[t] = "casNext" /\ new'[t] = new[t]
  PROVE  Chained(o)'
  <1>1. \A u \in Threads \ {t} : Same(u)
    BY OthersSame DEF RecInv
  <1>2. headPtr \in Nodes /\ next \in [Nodes -> Nodes \cup {Null}]
    BY DEF RecInv, TypeOK
  <1>3. ASSUME NEW m \in Nodes, Live(o, m)' PROVE Live(own, m)
    BY <1>1, <1>3 DEF Live, In, Same
  <1>4. QED
    BY <1>2, <1>3 DEF PlaceInv, Chained, In

\* No change of the list, as Relinked.
LEMMA SameList ==
  ASSUME NEW own, NEW o, NEW t, \A n \in Nodes : In(o, n) <=> In(own, n), headPtr' = headPtr,
         pc[t] # "casNext" \/ pc'[t] # "casTail"
  PROVE  Relinked(own, o, t)
  BY DEF Relinked

\* A quiet step leaves every node where it is.
LEMMA QuietPlaces ==
  ASSUME RecInv, NEW own, PlaceInv(own), NEW t \in Threads, Step(t), Quiet(t)
  PROVE  PlaceInv(own)' /\ Relinked(own, own, t)
  <1>1. \A u \in Threads \ {t} : Same(u)
    BY OthersSame DEF RecInv
  <1>2. UNCHANGED <<headPtr, tailPtr, next, heap, buffer, deleting, new>>
    BY DEF Quiet, listVars
  <1>3. Placed(own)'
    <2>1. \A u \in Threads : Retiring(u)' => Retiring(u) /\ held'[u] = held[u]
      BY <1>1 DEF Quiet, Retiring, Retires, Same
    <2>2. \A u \in Threads : pc'[u] # "casTail" => pc[u] # "casTail"
      BY <1>1 DEF Quiet, Same
    <2>3. QED
      BY <1>2, <2>1, <2>2 DEF PlaceInv, Placed
  <1>4. Chained(own)'
    BY <1>2, ChainKept DEF Quiet
  <1>5. Relinked(own, own, t)
    BY <1>2, SameList DEF Quiet
  <1>6. QED
    BY <1>3, <1>4, <1>5 DEF PlaceInv

\* Unlink: the first node passes from the list to the thread.
LEMMA UnlinkPlaces ==
  ASSUME RecInv, NEW own, PlaceInv(own), NEW t \in Threads, Step(t), Unlink(t)
  PROVE  \E o : PlaceInv(o)' /\ Relinked(own, o, t)
  <1>1. \A u \in Threads \ {t} : Same(u)
    BY OthersSame DEF RecInv
  <1>2. PICK h \in Nodes : h = headPtr /\ h = held[t]
    BY DEF Unlink, RecInv, TypeOK
  <1>3. /\ next[h] # Null /\ headPtr' = next[h] /\ pc[t] = "use" /\ pc'[t] = "clearStore"
        /\ UNCHANGED <<tailPtr, next, heap, buffer, deleting, held, new>>
    BY <1>2 DEF Unlink, ringVars, useVars, At, Goto, RecInv, TypeOK
  <1> DEFINE o == [n \in Nodes |-> IF n = h THEN <<"retiring", t>> ELSE own[n]]
  <1>4. o[h] = <<"retiring", t>> /\ own[h] = <<"linked", h>>
        /\ \A n \in Nodes : n # h => o[n] = own[n]
    BY <1>2 DEF PlaceInv, Chained, In
  <1>5. \A n \in Nodes : In(o, n) <=> In(own, n) /\ n # h
    BY <1>4 DEF In
  <1>t. headPtr' \in Nodes /\ tailPtr \in Nodes /\ next \in [Nodes -> Nodes \cup {Null}]
        /\ heap \in SUBSET Nodes /\ new \in [Threads -> Nodes \cup {Null}]
        /\ \A u \in Threads : Retiring(u) => held[u] \in Nodes
    BY <1>2, <1>3, Values DEF RecInv, TypeOK, ThreadOK, NodesOK, Retiring
  <1> HIDE DEF o
  <1>6. Placed(o)'
    <2>1. \A u \in Threads \ {t} : Retiring(u)' <=> Retiring(u)
      BY <1>1 DEF Same, Retiring, Retires
    <2>2. \A u \in Threads : pc'[u] = "casTail" <=> pc[u] = "casTail"
      BY <1>1, <1>3 DEF Same
    <2>3. Placed(own)
      BY DEF PlaceInv
    <2>4. \A s \in RingSlots : buffer'[s] \in Nodes => o[buffer'[s]] = <<"ring", s>>
      BY <1>3, <1>4, <2>3 DEF Placed
    <2>5. \A u \in Threads : \A n \in deleting'[u] \cap Nodes : o[n] = <<"deleting", u>>
      BY <1>3, <1>4, <2>3 DEF Placed
    <2>6. \A u \in Threads : new'[u] \in Nodes /\ pc'[u] # "casTail" => o[new'[u]] = <<"new", u>>
      BY <1>3, <1>4, <2>2, <2>3 DEF Placed
    <2>7. \A u \in Threads : Retiring(u)' => o[held'[u]] = <<"retiring", u>>
      <3>1. ASSUME NEW u \in Threads \ {t}, Retiring(u)' PROVE o[held'[u]] = <<"retiring", u>>
        <4>1. held[u] \in Nodes /\ own[held[u]] = <<"retiring", u>>
          BY <2>1, <2>3, <3>1, <1>t DEF Placed
        <4>2. held[u] # h
          BY <1>4, <4>1
        <4>3. QED
          BY <1>3, <1>4, <4>1, <4>2
      <3>2. o[held'[t]] = <<"retiring", t>>
        BY <1>2, <1>3, <1>4
      <3>3. QED
        BY <3>1, <3>2
    <2>8. \A n \in heap' : o[n] = <<"heap", n>>
      BY <1>3, <1>4, <2>3, <1>t DEF Placed
    <2>9. QED
      BY <2>4, <2>5, <2>6, <2>7, <2>8 DEF Placed
  <1>7. ASSUME NEW m \in Nodes, Live(o, m)' PROVE Live(own, m) /\ m # h
    <2>1. CASE In(o, m)
      BY <1>5, <2>1 DEF Live
    <2>2. CASE \E u \in Threads : pc'[u] = "casNext" /\ new'[u] = m
      <3>1. PICK u \in Threads : pc[u] = "casNext" /\ new[u] = m
        BY <1>1, <1>3, <2>2 DEF Same
      <3>2. own[m] = <<"new", u>>
        BY <3>1 DEF PlaceInv, Placed
      <3>3. QED
        BY <1>4, <3>1, <3>2 DEF Live
    <2>3. QED
      BY <1>7, <2>1, <2>2 DEF Live, In
  <1>8. Chained(o)'
    <2>1. Live(own, h) /\ In(own, headPtr') /\ headPtr' # h
      BY <1>2, <1>3, <1>4, <1>t DEF PlaceInv, Chained, Live, In
    <2>2. In(o, headPtr')
      BY <1>5, <1>t, <2>1
    <2>3. \A m \in Nodes : Live(o, m)' => next'[m] # headPtr' /\ (next'[m] # Null => In(o, next'[m]))
      BY <1>2, <1>3, <1>5, <1>7, <1>t, <2>1 DEF PlaceInv, Chained
    <2>4. \A m, k \in Nodes : Live(o, m)' /\ Live(o, k)' /\ next'[m] = next'[k] /\ next'[m] # Null => m = k
      BY <1>3, <1>7 DEF PlaceInv, Chained
    <2>5. QED
      BY <2>2, <2>3, <2>4 DEF Chained, In
  <1>9. Relinked(own, o, t)
    BY <1>2, <1>3, <1>5, <1>8, <1>4, <1>t DEF Relinked, PlaceInv, Chained, Live, In
  <1>10. QED
    BY <1>6, <1>8, <1>9 DEF PlaceInv

\* PushStore: the node passes from the thread to the slot; what the slot held is
\* in no place any more.
LEMMA PushStorePlaces ==
  ASSUME RecInv, NEW own, PlaceInv(own), NEW t \in Threads, Step(t), PushStore(t)
  PROVE  \E o : PlaceInv(o)' /\ Relinked(own, o, t)
  <1>1. \A u \in Threads \ {t} : Same(u)
    BY OthersSame DEF RecInv
  <1>2. /\ pc[t] = "pushStore" /\ pc'[t] = "pushCount" /\ goal' = goal
        /\ buffer' = [buffer EXCEPT ![idx[t]] = held[t]]
        /\ UNCHANGED <<listVars, heap, deleting, held, new>>
    BY DEF PushStore, useVars, At, Goto, RecInv, TypeOK
  <1>3. Retiring(t) /\ ~Appending(t)' /\ ~Retiring(t)'
    BY <1>2 DEF RecInv, ThreadOK, GoalOK, PushSteps, Retiring, Retires, Appending, RingSteps
  <1>4. PICK h \in Nodes : h = held[t]
    BY <1>3 DEF RecInv, ThreadOK, NodesOK, Retiring
  <1>5. PICK i \in RingSlots : i = idx[t]
    BY DEF RecInv, TypeOK
  <1> DEFINE o == [n \in Nodes |-> IF n = h THEN <<"ring", i>> ELSE own[n]]
  <1>p. Placed(own)
    BY DEF PlaceInv
  <1>6. o[h] = <<"ring", i>> /\ own[h] = <<"retiring", t>> /\ \A n \in Nodes : n # h => o[n] = own[n]
    BY <1>3, <1>4, <1>p DEF Placed
  <1>7. \A n \in Nodes : In(o, n) <=> In(own, n)
    BY <1>6 DEF In
  <1>t. /\ heap \in SUBSET Nodes /\ buffer \in [RingSlots -> Nodes \cup {Null}]
        /\ \A u \in Threads : Retiring(u) => held[u] \in Nodes
    BY DEF RecInv, TypeOK, ThreadOK, NodesOK, Retiring
  <1> HIDE DEF o
  <1>8. Placed(o)'
    <2>1. \A u \in Threads \ {t} : Retiring(u)' => Retiring(u) /\ held[u] # h
      BY <1>1, <1>6, <1>p DEF Same, Retiring, Retires, Placed
    <2>2. \A u \in Threads : pc'[u] = "casTail" <=> pc[u] = "casTail"
      BY <1>1, <1>2 DEF Same
    <2>3. \A s \in RingSlots : buffer'[s] \in Nodes => o[buffer'[s]] = <<"ring", s>>
      <3>1. \A s \in RingSlots : buffer[s] # h
        BY <1>6, <1>5, <1>p DEF Placed
      <3>2. QED
        BY <1>2, <1>4, <1>5, <1>6, <1>t, <1>p, <3>1 DEF Placed
    <2>4. \A u \in Threads : \A n \in deleting'[u] \cap Nodes : o[n] = <<"deleting", u>>
      BY <1>2, <1>6, <1>p DEF Placed
    <2>5. \A u \in Threads : new'[u] \in Nodes /\ pc'[u] # "casTail" => o[new'[u]] = <<"new", u>>
      <3>1. \A u \in Threads : new[u] \in Nodes /\ pc[u] # "casTail" => own[new[u]] = <<"new", u>> /\ new[u] # h
        BY <1>6, <1>p DEF Placed
      <3>2. QED
        BY <1>2, <1>6, <2>2, <3>1
    <2>6. \A u \in Threads : Retiring(u)' => o[held'[u]] = <<"retiring", u>>
      <3>1. SUFFICES ASSUME NEW u \in Threads, Retiring(u)' PROVE o[held'[u]] = <<"retiring", u>>
        OBVIOUS
      <3>2. Retiring(u) /\ held[u] \in Nodes /\ held[u] # h /\ held'[u] = held[u]
        BY <3>1, <2>1, <1>2, <1>3, <1>t
      <3>3. QED
        BY <3>2, <1>6, <1>p DEF Placed
    <2>7. \A n \in heap' : o[n] = <<"heap", n>>
      BY <1>2, <1>6, <1>p, <1>t DEF Placed
    <2>8. QED
      BY <2>3, <2>4, <2>5, <2>6, <2>7 DEF Placed
  <1>9. Chained(o)' /\ Relinked(own, o, t)
    <2>1. UNCHANGED <<headPtr, next>> /\ pc'[t] # "casNext"
      BY <1>2, <1>3, <1>7 DEF listVars
    <2>2. Chained(o)'
      BY <1>2, <1>3, <1>7, <2>1, ChainKept
    <2>3. Relinked(own, o, t)
      BY <1>2, <1>3, <1>7, <2>1, SameList
    <2>4. QED
      BY <2>2, <2>3
  <1>10. QED
    BY <1>8, <1>9 DEF PlaceInv

\* PopTake: the node passes from the slot, which is emptied, to the thread.
LEMMA PopTakePlaces ==
  ASSUME RecInv, NEW own, PlaceInv(own), NEW t \in Threads, Step(t), PopTake(t)
  PROVE  \E o : PlaceInv(o)' /\ Relinked(own, o, t)
  <1>1. \A u \in Threads \ {t} : Same(u)
    BY OthersSame DEF RecInv
  <1>2. PICK i \in RingSlots, b \in Nodes \cup {Null} : i = idx[t] /\ b = buffer[i]
    BY DEF RecInv, TypeOK
  <1>3. /\ pc[t] = "popTake" /\ pc'[t] = "popCount" /\ goal' = goal
        /\ buffer' = [buffer EXCEPT ![i] = Null] /\ new'[t] = b
        /\ UNCHANGED <<listVars, heap, deleting, held>>
    BY <1>2 DEF PopTake, useVars, At, Goto, RecInv, TypeOK
  <1>4. (Retiring(t)' => Retiring(t)) /\ (Appending(t)' => Appending(t))
    BY <1>3 DEF Retiring, Retires, Appending, RingSteps
  <1> DEFINE o == [n \in Nodes |-> IF n = b THEN <<"new", t>> ELSE own[n]]
  <1>p. Placed(own)
    BY DEF PlaceInv
  <1>5. (b \in Nodes => o[b] = <<"new", t>> /\ own[b] = <<"ring", i>>)
        /\ \A n \in Nodes : n # b => o[n] = own[n]
    BY <1>2, <1>p DEF Placed
  <1>6. \A n \in Nodes : In(o, n) <=> In(own, n)
    BY <1>5 DEF In
  <1>t. /\ heap \in SUBSET Nodes /\ buffer \in [RingSlots -> Nodes \cup {Null}]
        /\ new \in [Threads -> Nodes \cup {Null}] /\ Null \notin Nodes
        /\ \A u \in Threads : Retiring(u) => held[u] \in Nodes
    BY Values DEF RecInv, TypeOK, ThreadOK, NodesOK, Retiring
  <1> HIDE DEF o
  <1>7. Placed(o)'
    <2>1. \A s \in RingSlots : buffer'[s] \in Nodes => o[buffer'[s]] = <<"ring", s>>
      <3>1. \A s \in RingSlots \ {i} : buffer[s] \in Nodes => buffer[s] # b
        BY <1>5, <1>p DEF Placed
      <3>2. QED
        BY <1>3, <1>5, <1>t, <1>p, <3>1 DEF Placed
    <2>2. \A u \in Threads : \A n \in deleting'[u] \cap Nodes : o[n] = <<"deleting", u>>
      BY <1>3, <1>5, <1>p DEF Placed
    <2>3. \A u \in Threads : new'[u] \in Nodes /\ pc'[u] # "casTail" => o[new'[u]] = <<"new", u>>
      <3>1. ASSUME NEW u \in Threads \ {t}, new'[u] \in Nodes, pc'[u] # "casTail" PROVE o[new'[u]] = <<"new", u>>
        <4>1. new'[u] = new[u] /\ pc[u] # "casTail"
          BY <1>1, <3>1 DEF Same
        <4>2. own[new[u]] = <<"new", u>>
          BY <3>1, <4>1, <1>p DEF Placed
        <4>3. QED
          BY <1>5, <3>1, <4>1, <4>2
      <3>2. QED
        BY <1>3, <1>5, <3>1
    <2>4. \A u \in Threads : Retiring(u)' => o[held'[u]] = <<"retiring", u>>
      <3>1. SUFFICES ASSUME NEW u \in Threads, Retiring(u)' PROVE o[held'[u]] = <<"retiring", u>>
        OBVIOUS
      <3>2. Retiring(u) /\ held[u] \in Nodes /\ held'[u] = held[u]
        BY <3>1, <1>1, <1>3, <1>4, <1>t DEF Same, Retiring, Retires
      <3>3. QED
        BY <3>2, <1>5, <1>p DEF Placed
    <2>5. \A n \in heap' : o[n] = <<"heap", n>>
      BY <1>3, <1>5, <1>p, <1>t DEF Placed
    <2>6. QED
      BY <2>1, <2>2, <2>3, <2>4, <2>5 DEF Placed
  <1>8. Chained(o)' /\ Relinked(own, o, t)
    <2>1. UNCHANGED <<headPtr, next>> /\ pc'[t] # "casNext"
      BY <1>3, <1>4, <1>6 DEF listVars
    <2>2. Chained(o)'
      BY <1>3, <1>4, <1>6, <2>1, ChainKept
    <2>3. Relinked(own, o, t)
      BY <1>3, <1>4, <1>6, <2>1, SameList
    <2>4. QED
      BY <2>2, <2>3
  <1>9. QED
    BY <1>7, <1>8 DEF PlaceInv

\* Keep: the node that made room passes from the thread to its deletingPtrs.
LEMMA KeepPlaces ==
  ASSUME RecInv, NEW own, PlaceInv(own), NEW t \in Threads, Step(t), Keep(t)
  PROVE  \E o : PlaceInv(o)' /\ Relinked(own, o, t)
  <1>1. \A u \in Threads \ {t} : Same(u)
    BY OthersSame DEF RecInv
  <1>2. PICK x \in Nodes \cup {Null} : x = new[t]
    BY DEF RecInv, TypeOK
  <1>3. /\ pc[t] = "keep" /\ pc'[t] \in {"storePtr", "gcPtr"} /\ goal'[t] = "none" /\ new'[t] = Null
        /\ deleting'[t] = deleting[t] \cup {x}
        /\ UNCHANGED <<listVars, heap, buffer>>
    BY <1>2 DEF Keep, ringVars, At, Goto, RecInv, TypeOK
  <1>4. ~Retiring(t)' /\ ~Appending(t)'
    BY <1>3 DEF Retiring, Retires, Appending, RingSteps
  <1> DEFINE o == [n \in Nodes |-> IF n = x THEN <<"deleting", t>> ELSE own[n]]
  <1>p. Placed(own)
    BY DEF PlaceInv
  <1>5. (x \in Nodes => o[x] = <<"deleting", t>> /\ own[x] = <<"new", t>>)
        /\ \A n \in Nodes : n # x => o[n] = own[n]
    BY <1>2, <1>3, <1>p DEF Placed
  <1>6. \A n \in Nodes : In(o, n) <=> In(own, n)
    BY <1>5 DEF In
  <1>t. /\ heap \in SUBSET Nodes /\ Null \notin Nodes
        /\ \A u \in Threads : Retiring(u) => held[u] \in Nodes
    BY Values DEF RecInv, TypeOK, ThreadOK, NodesOK, Retiring
  <1> HIDE DEF o
  <1>7. Placed(o)'
    <2>1. \A s \in RingSlots : buffer'[s] \in Nodes => o[buffer'[s]] = <<"ring", s>>
      <3>1. \A s \in RingSlots : buffer[s] \in Nodes => own[buffer[s]] = <<"ring", s>> /\ buffer[s] # x
        BY <1>5, <1>p DEF Placed
      <3>2. QED
        BY <1>3, <1>5, <3>1
    <2>2. \A u \in Threads : \A n \in deleting'[u] \cap Nodes : o[n] = <<"deleting", u>>
      <3>1. ASSUME NEW u \in Threads \ {t}, NEW n \in deleting'[u] \cap Nodes PROVE o[n] = <<"deleting", u>>
        BY <1>1, <1>5, <1>p, <3>1 DEF Placed, Same
      <3>2. ASSUME NEW n \in deleting'[t] \cap Nodes PROVE o[n] = <<"deleting", t>>
        BY <1>3, <1>5, <1>p, <3>2 DEF Placed
      <3>3. QED
        BY <3>1, <3>2
    <2>3. \A u \in Threads : new'[u] \in Nodes /\ pc'[u] # "casTail" => o[new'[u]] = <<"new", u>>
      <3>1. SUFFICES ASSUME NEW u \in Threads \ {t}, new'[u] \in Nodes, pc'[u] # "casTail"
                     PROVE o[new'[u]] = <<"new", u>>
        BY <1>3, <1>t
      <3>2. new'[u] = new[u] /\ pc[u] # "casTail"
        BY <1>1, <3>1 DEF Same
      <3>3. own[new[u]] = <<"new", u>>
        BY <3>1, <3>2, <1>p DEF Placed
      <3>4. QED
        BY <1>5, <3>1, <3>2, <3>3
    <2>4. \A u \in Threads : Retiring(u)' => o[held'[u]] = <<"retiring", u>>
      <3>1. SUFFICES ASSUME NEW u \in Threads \ {t}, Retiring(u)' PROVE o[held'[u]] = <<"retiring", u>>
        BY <1>4
      <3>2. Retiring(u) /\ held[u] \in Nodes /\ held'[u] = held[u]
        BY <3>1, <1>1, <1>3, <1>4, <1>t DEF Same, Retiring, Retires
      <3>3. QED
        BY <3>2, <1>5, <1>p DEF Placed
    <2>5. \A n \in heap' : o[n] = <<"heap", n>>
      BY <1>3, <1>5, <1>p, <1>t DEF Placed
    <2>6. QED
      BY <2>1, <2>2, <2>3, <2>4, <2>5 DEF Placed
  <1>8. Chained(o)' /\ Relinked(own, o, t)
    <2>1. UNCHANGED <<headPtr, next>> /\ pc'[t] # "casNext"
      BY <1>3, <1>4, <1>6 DEF listVars
    <2>2. Chained(o)'
      BY <1>3, <1>4, <1>6, <2>1, ChainKept
    <2>3. Relinked(own, o, t)
      BY <1>3, <1>4, <1>6, <2>1, SameList
    <2>4. QED
      BY <2>2, <2>3
  <1>9. QED
    BY <1>7, <1>8 DEF PlaceInv

\* Delete: what is not referenced passes from deletingPtrs to the allocator.
LEMMA DeletePlaces ==
  ASSUME RecInv, NEW own, PlaceInv(own), NEW t \in Threads, Step(t), Delete(t)
  PROVE  \E o : PlaceInv(o)' /\ Relinked(own, o, t)
  <1>1. \A u \in Threads \ {t} : Same(u)
    BY OthersSame DEF RecInv
  <1>2. PICK D \in SUBSET Nodes : D = (deleting[t] \cap Nodes) \ referenced[t]
    OBVIOUS
  <1>3. /\ pc[t] = "delete" /\ pc'[t] = "storePtr" /\ goal' = goal
        /\ heap' = heap \cup D /\ deleting'[t] = deleting[t] \cap referenced[t]
        /\ UNCHANGED <<listVars, buffer, held, new>>
    BY <1>2 DEF Delete, ringVars, useVars, At, Goto, RecInv, TypeOK
  <1>4. ~Appending(t)' /\ ~Retiring(t)'
    BY <1>3 DEF RecInv, ThreadOK, GoalOK, GcSteps, Retiring, Retires, Appending, RingSteps
  <1> DEFINE o == [n \in Nodes |-> IF n \in D THEN <<"heap", n>> ELSE own[n]]
  <1>p. Placed(own)
    BY DEF PlaceInv
  <1>5. /\ \A n \in D : o[n] = <<"heap", n>> /\ own[n] = <<"deleting", t>>
        /\ \A n \in Nodes \ D : o[n] = own[n]
    BY <1>2, <1>p DEF Placed
  <1>6. \A n \in Nodes : In(o, n) <=> In(own, n)
    <2>1. ASSUME NEW n \in D PROVE o[n] # <<"linked", n>> /\ own[n] # <<"linked", n>>
      <3>1. n \in Nodes /\ o[n] = <<"heap", n>> /\ own[n] = <<"deleting", t>>
        BY <1>5
      <3>2. QED
        BY <3>1
    <2>2. QED
      BY <1>5, <2>1 DEF In
  <1>t. /\ heap \in SUBSET Nodes /\ Null \notin Nodes
        /\ \A u \in Threads : Retiring(u) => held[u] \in Nodes
    BY Values DEF RecInv, TypeOK, ThreadOK, NodesOK, Retiring
  <1> HIDE DEF o
  <1>7. Placed(o)'
    <2>1. \A s \in RingSlots : buffer'[s] \in Nodes => o[buffer'[s]] = <<"ring", s>>
      <3>1. \A s \in RingSlots : buffer[s] \in Nodes => own[buffer[s]] = <<"ring", s>> /\ buffer[s] \notin D
        BY <1>5, <1>p DEF Placed
      <3>2. QED
        BY <1>3, <1>5, <3>1
    <2>2. \A u \in Threads : \A n \in deleting'[u] \cap Nodes : o[n] = <<"deleting", u>>
      <3>1. ASSUME NEW u \in Threads \ {t}, NEW n \in deleting'[u] \cap Nodes PROVE o[n] = <<"deleting", u>>
        BY <1>1, <1>5, <1>p, <3>1 DEF Placed, Same
      <3>2. ASSUME NEW n \in deleting'[t] \cap Nodes PROVE o[n] = <<"deleting", t>>
        BY <1>2, <1>3, <1>5, <1>p, <3>2 DEF Placed
      <3>3. QED
        BY <3>1, <3>2
    <2>3. \A u \in Threads : new'[u] \in Nodes /\ pc'[u] # "casTail" => o[new'[u]] = <<"new", u>>
      <3>1. SUFFICES ASSUME NEW u \in Threads, new'[u] \in Nodes, pc'[u] # "casTail"
                     PROVE o[new'[u]] = <<"new", u>>
        OBVIOUS
      <3>2. new'[u] = new[u] /\ pc[u] # "casTail"
        BY <1>1, <1>3, <3>1 DEF Same
      <3>3. own[new[u]] = <<"new", u>>
        BY <3>1, <3>2, <1>p DEF Placed
      <3>4. QED
        BY <1>5, <3>1, <3>2, <3>3
    <2>4. \A u \in Threads : Retiring(u)' => o[held'[u]] = <<"retiring", u>>
      <3>1. SUFFICES ASSUME NEW u \in Threads \ {t}, Retiring(u)' PROVE o[held'[u]] = <<"retiring", u>>
        BY <1>4
      <3>2. Retiring(u) /\ held[u] \in Nodes /\ held'[u] = held[u]
        BY <3>1, <1>1, <1>3, <1>4, <1>t DEF Same, Retiring, Retires
      <3>3. QED
        BY <3>2, <1>5, <1>p DEF Placed
    <2>5. \A n \in heap' : o[n] = <<"heap", n>>
      BY <1>3, <1>5, <1>p, <1>t DEF Placed
    <2>6. QED
      BY <2>1, <2>2, <2>3, <2>4, <2>5 DEF Placed
  <1>8. Chained(o)' /\ Relinked(own, o, t)
    <2>1. UNCHANGED <<headPtr, next>> /\ pc'[t] # "casNext"
      BY <1>3, <1>4, <1>6 DEF listVars
    <2>2. Chained(o)'
      BY <1>3, <1>4, <1>6, <2>1, ChainKept
    <2>3. Relinked(own, o, t)
      BY <1>3, <1>4, <1>6, <2>1, SameList
    <2>4. QED
      BY <2>2, <2>3
  <1>9. QED
    BY <1>7, <1>8 DEF PlaceInv

\* HelpTail moves no node.
LEMMA HelpTailPlaces ==
  ASSUME RecInv, NEW own, PlaceInv(own), NEW t \in Threads, Step(t), HelpTail(t)
  PROVE  PlaceInv(own)' /\ Relinked(own, own, t)
  <1>1. \A u \in Threads \ {t} : Same(u)
    BY OthersSame DEF RecInv
  <1>2. /\ pc[t] = "use" /\ pc'[t] = "storePtr" /\ goal' = goal
        /\ next[tailPtr] # Null /\ tailPtr' = next[tailPtr]
        /\ UNCHANGED <<headPtr, next, heap, buffer, deleting, new>>
    BY DEF HelpTail, ringVars, At, Goto, RecInv, TypeOK
  <1>3. ~Retiring(t)' /\ ~Appending(t)'
    BY <1>2 DEF RecInv, ThreadOK, GoalOK, Retiring, Retires, Appending, RingSteps
  <1>4. Placed(own)'
    <2>1. \A u \in Threads : Retiring(u)' => Retiring(u) /\ held'[u] = held[u]
      BY <1>1, <1>3 DEF Retiring, Retires, Same
    <2>2. \A u \in Threads : pc'[u] # "casTail" => pc[u] # "casTail"
      BY <1>1, <1>2 DEF Same
    <2>3. QED
      BY <1>2, <2>1, <2>2 DEF PlaceInv, Placed
  <1>5. Chained(own)' /\ Relinked(own, own, t)
    <2>1. UNCHANGED <<headPtr, next>> /\ pc'[t] # "casNext"
      BY <1>2
    <2>2. Chained(own)'
      BY <1>2, <2>1, ChainKept
    <2>3. Relinked(own, own, t)
      BY <1>2, <2>1, SameList
    <2>4. QED
      BY <2>2, <2>3
  <1>6. QED
    BY <1>4, <1>5 DEF PlaceInv

\* MoveTail: the node it had linked is the list's.
LEMMA MoveTailPlaces ==
  ASSUME RecInv, NEW own, PlaceInv(own), NEW t \in Threads, Step(t), MoveTail(t)
  PROVE  PlaceInv(own)' /\ Relinked(own, own, t)
  <1>1. \A u \in Threads \ {t} : Same(u)
    BY OthersSame DEF RecInv
  <1>2. /\ pc[t] = "casTail" /\ pc'[t] = "clearStore" /\ goal' = goal /\ held' = held
        /\ tailPtr' = (IF tailPtr = held[t] THEN new[t] ELSE tailPtr) /\ new'[t] = Null
        /\ UNCHANGED <<headPtr, next, heap, buffer, deleting>>
    BY DEF MoveTail, ringVars, At, Goto, RecInv, TypeOK
  <1>3. ~Retiring(t)' /\ ~Appending(t)'
    BY <1>2 DEF RecInv, ThreadOK, GoalOK, Retiring, Retires, Appending, RingSteps
  <1>4. Null \notin Nodes
    BY Values
  <1>5. Placed(own)'
    <2>1. \A u \in Threads : Retiring(u)' => Retiring(u) /\ held'[u] = held[u]
      BY <1>1, <1>3 DEF Retiring, Retires, Same
    <2>2. \A u \in Threads : pc'[u] # "casTail" /\ new'[u] \in Nodes => pc[u] # "casTail" /\ new'[u] = new[u]
      BY <1>1, <1>2, <1>4 DEF Same
    <2>3. QED
      BY <1>2, <2>1, <2>2 DEF PlaceInv, Placed
  <1>6. Chained(own)' /\ Relinked(own, own, t)
    <2>1. UNCHANGED <<headPtr, next>> /\ pc'[t] # "casNext"
      BY <1>2
    <2>2. Chained(own)'
      BY <1>2, <2>1, ChainKept
    <2>3. Relinked(own, own, t)
      BY <1>2, <2>1, SameList
    <2>4. QED
      BY <2>2, <2>3
  <1>7. QED
    BY <1>5, <1>6 DEF PlaceInv

\* Construct: a node from the allocator, unless one was taken from the ring.
LEMMA ConstructPlaces ==
  ASSUME RecInv, NEW own, PlaceInv(own), NEW t \in Threads, Step(t), Construct(t)
  PROVE  \E o : PlaceInv(o)' /\ Relinked(own, o, t)
  <1>1. \A u \in Threads \ {t} : Same(u)
    BY OthersSame DEF RecInv
  <1>2. PICK x \in IF new[t] = Null THEN heap ELSE {new[t]} :
          /\ new' = [new EXCEPT ![t] = x] /\ heap' = heap \ {x}
          /\ next' = [next EXCEPT ![x] = Null]
    BY DEF Construct
  <1>3. /\ pc[t] = "construct" /\ pc'[t] = "casNext" /\ goal' = goal /\ held' = held
        /\ hazardPtr' = hazardPtr /\ loaded' = loaded
        /\ UNCHANGED <<headPtr, tailPtr, buffer, deleting>>
    BY DEF Construct, ringVars, recordVars, gcVars, At, Goto, RecInv, TypeOK
  <1>p. Placed(own)
    BY DEF PlaceInv
  <1>4. x \in Nodes /\ own[x] \in {<<"heap", x>>, <<"new", t>>}
    <2>1. heap \in SUBSET Nodes /\ new[t] \in Nodes \cup {Null}
      BY DEF RecInv, TypeOK
    <2>2. CASE new[t] = Null
      BY <1>2, <1>p, <2>1, <2>2 DEF Placed
    <2>3. CASE new[t] # Null
      BY <1>2, <1>3, <1>p, <2>1, <2>3 DEF Placed
    <2>4. QED
      BY <2>2, <2>3
  <1>5. ~Retiring(t)' /\ Appending(t)
    BY <1>3 DEF RecInv, ThreadOK, GoalOK, Retiring, Retires, Appending, RingSteps
  <1>6. new'[t] = x /\ next'[x] = Null /\ \A n \in Nodes \ {x} : next'[n] = next[n]
    BY <1>2, <1>4 DEF RecInv, TypeOK
  <1> DEFINE o == [n \in Nodes |-> IF n = x THEN <<"new", t>> ELSE own[n]]
  <1>7. o[x] = <<"new", t>> /\ \A n \in Nodes : n # x => o[n] = own[n]
    BY <1>4
  <1>8. \A n \in Nodes : In(own, n) => n # x
    BY <1>4 DEF In
  <1>t. /\ heap \in SUBSET Nodes /\ Null \notin Nodes /\ headPtr \in Nodes /\ tailPtr \in Nodes
        /\ next \in [Nodes -> Nodes \cup {Null}]
        /\ \A u \in Threads : Retiring(u) => held[u] \in Nodes
    BY Values DEF RecInv, TypeOK, ThreadOK, NodesOK, Retiring
  <1> HIDE DEF o
  <1>9. \A n \in Nodes : In(o, n) <=> In(own, n)
    BY <1>7, <1>8 DEF In
  <1>10. Placed(o)'
    <2>1. \A s \in RingSlots : buffer'[s] \in Nodes => o[buffer'[s]] = <<"ring", s>>
      <3>1. \A s \in RingSlots : buffer[s] \in Nodes => own[buffer[s]] = <<"ring", s>> /\ buffer[s] # x
        BY <1>4, <1>p DEF Placed
      <3>2. QED
        BY <1>3, <1>7, <3>1
    <2>2. \A u \in Threads : \A n \in deleting'[u] \cap Nodes : o[n] = <<"deleting", u>>
      <3>1. \A u \in Threads : \A n \in deleting[u] \cap Nodes : own[n] = <<"deleting", u>> /\ n # x
        BY <1>4, <1>p DEF Placed
      <3>2. QED
        BY <1>3, <1>7, <3>1
    <2>3. \A u \in Threads : new'[u] \in Nodes /\ pc'[u] # "casTail" => o[new'[u]] = <<"new", u>>
      <3>1. ASSUME NEW u \in Threads \ {t}, new'[u] \in Nodes, pc'[u] # "casTail" PROVE o[new'[u]] = <<"new", u>>
        <4>1. new'[u] = new[u] /\ pc[u] # "casTail"
          BY <1>1, <3>1 DEF Same
        <4>2. own[new[u]] = <<"new", u>>
          BY <3>1, <4>1, <1>p DEF Placed
        <4>3. new[u] # x
          BY <1>4, <4>2
        <4>4. QED
          BY <1>7, <3>1, <4>1, <4>2, <4>3
      <3>2. QED
        BY <1>6, <1>7, <3>1
    <2>4. \A u \in Threads : Retiring(u)' => o[held'[u]] = <<"retiring", u>>
      <3>1. SUFFICES ASSUME NEW u \in Threads \ {t}, Retiring(u)' PROVE o[held'[u]] = <<"retiring", u>>
        BY <1>5
      <3>2. Retiring(u) /\ held[u] \in Nodes /\ held'[u] = held[u]
        BY <3>1, <1>1, <1>t DEF Same, Retiring, Retires
      <3>3. own[held[u]] = <<"retiring", u>>
        BY <3>2, <1>p DEF Placed
      <3>4. held[u] # x
        BY <1>4, <3>3
      <3>5. QED
        BY <3>2, <3>3, <3>4, <1>7
    <2>5. \A n \in heap' : o[n] = <<"heap", n>>
      BY <1>2, <1>7, <1>p, <1>t DEF Placed
    <2>6. QED
      BY <2>1, <2>2, <2>3, <2>4, <2>5 DEF Placed
  <1>11. ASSUME NEW m \in Nodes, Live(o, m)', m # x PROVE Live(own, m)
    BY <1>1, <1>6, <1>9, <1>11 DEF Live, In, Same
  <1>12. Chained(o)'
    <2>1. In(o, headPtr')
      BY <1>3, <1>9, <1>t DEF PlaceInv, Chained
    <2>2. \A m \in Nodes : Live(o, m)' => next'[m] # headPtr' /\ (next'[m] # Null => In(o, next'[m]))
      BY <1>3, <1>6, <1>9, <1>11, <1>t DEF PlaceInv, Chained
    <2>3. \A m, k \in Nodes : Live(o, m)' /\ Live(o, k)' /\ next'[m] = next'[k] /\ next'[m] # Null => m = k
      BY <1>6, <1>11 DEF PlaceInv, Chained
    <2>4. QED
      BY <2>1, <2>2, <2>3 DEF Chained, In
  <1>13. Relinked(own, o, t)
    BY <1>3, <1>9, SameList
  <1>14. QED
    BY <1>10, <1>12, <1>13 DEF PlaceInv

\* Link succeeds: the new node passes from the thread to the list.
LEMMA LinkPlaces ==
  ASSUME RecInv, NEW own, PlaceInv(own), NEW t \in Threads, Step(t), Link(t), next[held[t]] = Null
  PROVE  \E o : PlaceInv(o)' /\ Relinked(own, o, t)
  <1>1. \A u \in Threads \ {t} : Same(u)
    BY OthersSame DEF RecInv
  <1>2. PICK h \in Nodes, x \in Nodes : h = held[t] /\ x = new[t]
    BY DEF Link, At, RecInv, ThreadOK, NodesOK, Using
  <1>3. /\ pc[t] = "casNext" /\ pc'[t] = "casTail" /\ goal'[t] = "none" /\ held' = held /\ new' = new
        /\ next' = [next EXCEPT ![h] = x] /\ next[h] = Null
        /\ UNCHANGED <<headPtr, tailPtr, heap, buffer, deleting>>
    BY <1>2 DEF Link, ringVars, recordVars, At, Goto, RecInv, TypeOK
  <1>p. Placed(own)
    BY DEF PlaceInv
  <1>4. own[x] = <<"new", t>>
    BY <1>2, <1>3, <1>p DEF Placed
  <1>6. ~Retiring(t)' /\ ~Appending(t)'
    BY <1>3 DEF Retiring, Retires, Appending, RingSteps
  <1>7. ~In(own, x) /\ Live(own, x)
    BY <1>2, <1>3, <1>4 DEF In, Live
  <1>t. /\ heap \in SUBSET Nodes /\ Null \notin Nodes /\ headPtr \in Nodes /\ tailPtr \in Nodes
        /\ next \in [Nodes -> Nodes \cup {Null}]
        /\ \A u \in Threads : Retiring(u) => held[u] \in Nodes
    BY Values DEF RecInv, TypeOK, ThreadOK, NodesOK, Retiring
  <1>8. next'[h] = x /\ \A n \in Nodes \ {h} : next'[n] = next[n]
    BY <1>3, <1>t
  <1> DEFINE o == [n \in Nodes |-> IF n = x THEN <<"linked", x>> ELSE own[n]]
  <1>9. o[x] = <<"linked", x>> /\ \A n \in Nodes : n # x => o[n] = own[n]
    OBVIOUS
  <1> HIDE DEF o
  <1>10. \A n \in Nodes : In(o, n) <=> In(own, n) \/ n = x
    BY <1>9 DEF In
  <1>11. Placed(o)'
    <2>1. \A s \in RingSlots : buffer'[s] \in Nodes => o[buffer'[s]] = <<"ring", s>>
      <3>1. \A s \in RingSlots : buffer[s] \in Nodes => own[buffer[s]] = <<"ring", s>> /\ buffer[s] # x
        BY <1>4, <1>p DEF Placed
      <3>2. QED
        BY <1>3, <1>9, <3>1
    <2>2. \A u \in Threads : \A n \in deleting'[u] \cap Nodes : o[n] = <<"deleting", u>>
      <3>1. \A u \in Threads : \A n \in deleting[u] \cap Nodes : own[n] = <<"deleting", u>> /\ n # x
        BY <1>4, <1>p DEF Placed
      <3>2. QED
        BY <1>3, <1>9, <3>1
    <2>3. \A u \in Threads : new'[u] \in Nodes /\ pc'[u] # "casTail" => o[new'[u]] = <<"new", u>>
      <3>1. SUFFICES ASSUME NEW u \in Threads \ {t}, new'[u] \in Nodes, pc'[u] # "casTail"
                     PROVE o[new'[u]] = <<"new", u>>
        BY <1>3
      <3>2. new'[u] = new[u] /\ pc[u] # "casTail"
        BY <1>1, <3>1 DEF Same
      <3>3. own[new[u]] = <<"new", u>>
        BY <3>1, <3>2, <1>p DEF Placed
      <3>4. new[u] # x
        BY <1>4, <3>3
      <3>5. QED
        BY <1>9, <3>1, <3>2, <3>3, <3>4
    <2>4. \A u \in Threads : Retiring(u)' => o[held'[u]] = <<"retiring", u>>
      <3>1. SUFFICES ASSUME NEW u \in Threads \ {t}, Retiring(u)' PROVE o[held'[u]] = <<"retiring", u>>
        BY <1>6
      <3>2. Retiring(u) /\ held[u] \in Nodes /\ held'[u] = held[u]
        BY <3>1, <1>1, <1>t DEF Same, Retiring, Retires
      <3>3. own[held[u]] = <<"retiring", u>>
        BY <3>2, <1>p DEF Placed
      <3>4. held[u] # x
        BY <1>4, <3>3
      <3>5. QED
        BY <3>2, <3>3, <3>4, <1>9
    <2>5. \A n \in heap' : o[n] = <<"heap", n>>
      <3>1. \A n \in heap : own[n] = <<"heap", n>> /\ n # x
        BY <1>4, <1>p DEF Placed
      <3>2. QED
        BY <1>3, <1>9, <1>t, <3>1
    <2>6. QED
      BY <2>1, <2>2, <2>3, <2>4, <2>5 DEF Placed
  <1>12. ASSUME NEW m \in Nodes, Live(o, m)' PROVE Live(own, m)
    <2>1. CASE In(o, m)
      BY <1>7, <1>10, <2>1 DEF Live
    <2>2. CASE \E u \in Threads : pc'[u] = "casNext" /\ new'[u] = m
      BY <1>1, <1>3, <2>2 DEF Live, Same
    <2>3. QED
      BY <1>12, <2>1, <2>2 DEF Live, In
  <1>13. Chained(o)'
    <2>1. Chained(own)
      BY DEF PlaceInv
    <2>2. In(o, headPtr') /\ headPtr' # x
      BY <1>3, <1>7, <1>10, <1>t, <2>1 DEF Chained
    <2>3. ASSUME NEW m \in Nodes, Live(o, m)'
          PROVE  next'[m] # headPtr' /\ (next'[m] # Null => In(o, next'[m]))
      <3>1. CASE m = h
        BY <1>8, <1>10, <2>2, <3>1
      <3>2. CASE m # h
        BY <1>3, <1>8, <1>10, <1>12, <1>t, <2>1, <2>3, <3>2 DEF Chained
      <3>3. QED
        BY <3>1, <3>2
    <2>4. \A m \in Nodes : Live(own, m) => next[m] # x
      BY <1>7, <1>t, <2>1 DEF Chained
    <2>5. ASSUME NEW m \in Nodes, NEW k \in Nodes, Live(o, m)', Live(o, k)', next'[m] = next'[k], next'[m] # Null
          PROVE  m = k
      <3>1. Live(own, m) /\ Live(own, k)
        BY <1>12, <2>5
      <3>2. (m # h /\ k # h) \/ m = k
        BY <1>8, <2>4, <2>5, <3>1
      <3>3. QED
        BY <1>8, <2>1, <2>5, <3>1, <3>2 DEF Chained
    <2>6. QED
      BY <2>2, <2>3, <2>5 DEF Chained, In
  <1>14. Relinked(own, o, t)
    BY <1>2, <1>3, <1>10 DEF Relinked
  <1>15. QED
    BY <1>11, <1>13, <1>14 DEF PlaceInv

\* Link fails: the new node goes back to the allocator.
LEMMA LinkFailsPlaces ==
  ASSUME RecInv, NEW own, PlaceInv(own), NEW t \in Threads, Step(t), Link(t), next[held[t]] # Null
  PROVE  \E o : PlaceInv(o)' /\ Relinked(own, o, t)
  <1>1. \A u \in Threads \ {t} : Same(u)
    BY OthersSame DEF RecInv
  <1>2. PICK x \in Nodes : x = new[t]
    BY DEF Link, At, RecInv, ThreadOK, NodesOK
  <1>3. /\ pc[t] = "casNext" /\ pc'[t] = "storePtr" /\ goal'[t] = "none" /\ new'[t] = Null
        /\ heap' = heap \cup {x}
        /\ UNCHANGED <<listVars, buffer, deleting>>
    BY <1>2 DEF Link, ringVars, recordVars, listVars, At, Goto, RecInv, TypeOK
  <1>p. Placed(own)
    BY DEF PlaceInv
  <1>4. own[x] = <<"new", t>>
    BY <1>2, <1>3, <1>p DEF Placed
  <1>5. ~Retiring(t)' /\ ~Appending(t)'
    BY <1>3 DEF Retiring, Retires, Appending, RingSteps
  <1>t. /\ heap \in SUBSET Nodes /\ Null \notin Nodes
        /\ \A u \in Threads : Retiring(u) => held[u] \in Nodes
    BY Values DEF RecInv, TypeOK, ThreadOK, NodesOK, Retiring
  <1> DEFINE o == [n \in Nodes |-> IF n = x THEN <<"heap", x>> ELSE own[n]]
  <1>6. o[x] = <<"heap", x>> /\ \A n \in Nodes : n # x => o[n] = own[n]
    OBVIOUS
  <1> HIDE DEF o
  <1>7. \A n \in Nodes : In(o, n) <=> In(own, n)
    BY <1>4, <1>6 DEF In
  <1>8. Placed(o)'
    <2>1. \A s \in RingSlots : buffer'[s] \in Nodes => o[buffer'[s]] = <<"ring", s>>
      <3>1. \A s \in RingSlots : buffer[s] \in Nodes => own[buffer[s]] = <<"ring", s>> /\ buffer[s] # x
        BY <1>4, <1>p DEF Placed
      <3>2. QED
        BY <1>3, <1>6, <3>1
    <2>2. \A u \in Threads : \A n \in deleting'[u] \cap Nodes : o[n] = <<"deleting", u>>
      <3>1. \A u \in Threads : \A n \in deleting[u] \cap Nodes : own[n] = <<"deleting", u>> /\ n # x
        BY <1>4, <1>p DEF Placed
      <3>2. QED
        BY <1>3, <1>6, <3>1
    <2>3. \A u \in Threads : new'[u] \in Nodes /\ pc'[u] # "casTail" => o[new'[u]] = <<"new", u>>
      <3>1. SUFFICES ASSUME NEW u \in Threads \ {t}, new'[u] \in Nodes, pc'[u] # "casTail"
                     PROVE o[new'[u]] = <<"new", u>>
        BY <1>3, <1>t
      <3>2. new'[u] = new[u] /\ pc[u] # "casTail"
        BY <1>1, <3>1 DEF Same
      <3>3. own[new[u]] = <<"new", u>>
        BY <3>1, <3>2, <1>p DEF Placed
      <3>4. new[u] # x
        BY <1>4, <3>3
      <3>5. QED
        BY <1>6, <3>1, <3>2, <3>3, <3>4
    <2>4. \A u \in Threads : Retiring(u)' => o[held'[u]] = <<"retiring", u>>
      <3>1. SUFFICES ASSUME NEW u \in Threads \ {t}, Retiring(u)' PROVE o[held'[u]] = <<"retiring", u>>
        BY <1>5
      <3>2. Retiring(u) /\ held[u] \in Nodes /\ held'[u] = held[u]
        BY <3>1, <1>1, <1>t DEF Same, Retiring, Retires
      <3>3. own[held[u]] = <<"retiring", u>>
        BY <3>2, <1>p DEF Placed
      <3>4. held[u] # x
        BY <1>4, <3>3
      <3>5. QED
        BY <3>2, <3>3, <3>4, <1>6
    <2>5. \A n \in heap' : o[n] = <<"heap", n>>
      BY <1>3, <1>6, <1>t, <1>p DEF Placed
    <2>6. QED
      BY <2>1, <2>2, <2>3, <2>4, <2>5 DEF Placed
  <1>9. Chained(o)' /\ Relinked(own, o, t)
    <2>1. UNCHANGED <<headPtr, next>> /\ pc'[t] # "casNext"
      BY <1>3, <1>5, <1>7 DEF listVars
    <2>2. Chained(o)'
      BY <1>3, <1>5, <1>7, <2>1, ChainKept
    <2>3. Relinked(own, o, t)
      BY <1>3, <1>5, <1>7, <2>1, SameList
    <2>4. QED
      BY <2>2, <2>3
  <1>10. QED
    BY <1>8, <1>9 DEF PlaceInv

\* After every step there is such a function again.
LEMMA PlacesChange ==
  ASSUME RecInv, NEW own, PlaceInv(own), NEW t \in Threads, Step(t)
  PROVE  \E o : PlaceInv(o)' /\ Relinked(own, o, t)
  <1>1. CASE Quiet(t) \/ HelpTail(t) \/ MoveTail(t)
    BY <1>1, QuietPlaces, HelpTailPlaces, MoveTailPlaces
  <1>2. CASE Unlink(t) \/ Construct(t) \/ Link(t)
    BY <1>2, UnlinkPlaces, ConstructPlaces, LinkPlaces, LinkFailsPlaces
  <1>3. CASE PushStore(t) \/ PopTake(t) \/ Keep(t) \/ Delete(t)
    BY <1>3, PushStorePlaces, PopTakePlaces, KeepPlaces, DeletePlaces
  <1>4. QED
    BY <1>1, <1>2, <1>3, QuietStep

\* Without a step it is the same one.
LEMMA PlacesStay == ASSUME NEW own, PlaceInv(own), UNCHANGED vars PROVE PlaceInv(own)'
  BY DEF vars, listVars, recordVars, ringVars, useVars, gcVars, PlaceInv, Placed, Chained, Live, In,
         Retiring, Retires

\* At the start one node is in the list, the others are not allocated.
LEMMA InitPlaces == Init => \E own : PlaceInv(own)
  <1> SUFFICES ASSUME Init PROVE \E own : PlaceInv(own)
    OBVIOUS
  <1>1. PICK h \in Nodes : headPtr = h /\ tailPtr = h /\ heap = Nodes \ {h}
    BY DEF Init
  <1> DEFINE own == [n \in Nodes |-> IF n = h THEN <<"linked", h>> ELSE <<"heap", n>>]
  <1>2. own[h] = <<"linked", h>> /\ \A n \in Nodes : n # h => own[n] = <<"heap", n>>
    OBVIOUS
  <1> HIDE DEF own
  <1>3. Placed(own)
    BY <1>1, <1>2, Values DEF Init, Placed, Retiring, Retires
  <1>4. Chained(own)
    <2>1. \A m \in Nodes : next[m] = Null
      BY DEF Init
    <2>2. QED
      BY <1>1, <1>2, <2>1, Values DEF Chained, In
  <1>5. QED
    BY <1>3, <1>4 DEF PlaceInv

\* What can be reached from the head is in the list.
LEMMA LinkedPlaces ==
  ASSUME RecInv, NEW own, PlaceInv(own), NEW n \in Linked
  PROVE  n \in Nodes /\ In(own, n)
  <1> DEFINE L == {m \in Nodes : In(own, m)}
  <1>1. L \in SUBSET Nodes /\ headPtr \in L /\ \A m \in L : next[m] \in L \cup {Null}
    BY DEF RecInv, TypeOK, PlaceInv, Chained, Live
  <1>2. n \in Nodes /\ n \in L
    <2>1. n \in Nodes /\ InList(n)
      BY DEF Linked
    <2>2. n \notin L => L \in SUBSET (Nodes \ {n})
      BY <1>1
    <2>3. QED
      BY <1>1, <2>1, <2>2 DEF InList
  <1>3. QED
    BY <1>2

\* OneOwner follows.
LEMMA PlacesGiveOneOwner ==
  ASSUME RecInv, NEW own, PlaceInv(own) PROVE OneOwner
  <1> SUFFICES ASSUME NEW n \in Nodes
               PROVE  Cardinality(Owners(n)) + (IF n \in heap THEN 1 ELSE 0) <= 1
    BY DEF OneOwner
  <1>p. Placed(own)
    BY DEF PlaceInv
  <1>1. InList(n) => own[n] = <<"linked", n>>
    BY LinkedPlaces DEF In, Linked
  <1>2. \A s \in {r \in RingSlots : buffer[r] = n} : own[n] = <<"ring", s>>
    BY <1>p DEF Placed
  <1>3. \A t \in {u \in Threads : n \in deleting[u]} : own[n] = <<"deleting", t>>
    BY <1>p DEF Placed
  <1>4. \A t \in {u \in Threads : new[u] = n /\ ~At(u, "casTail")} : own[n] = <<"new", t>>
    BY <1>p DEF Placed, At
  <1>5. \A t \in {u \in Threads : held[u] = n /\ goal[u] \in {"retire", "makeRoom", "replace"}
                                    /\ pc[u] # "pushCount" /\ pc[u] # "keep"} : own[n] = <<"retiring", t>>
    BY <1>p DEF Placed, Retiring, Retires
  <1>6. Owners(n) \subseteq {own[n]}
    BY <1>1, <1>2, <1>3, <1>4, <1>5 DEF Owners
  <1>7. n \in heap => Owners(n) = {}
    <2>1. n \in heap => own[n] = <<"heap", n>>
      BY <1>p DEF Placed
    <2>2. n \in heap => <<"heap", n>> \notin Owners(n)
      BY DEF Owners
    <2>3. QED
      BY <1>6, <2>1, <2>2
  <1>8. Owners(n) = {} \/ Owners(n) = {own[n]}
    BY <1>6
  <1>9. CASE n \in heap
    BY <1>7, <1>9, FS_EmptySet
  <1>10. CASE n \notin heap
    <2>1. Cardinality(Owners(n)) \in {0, 1}
      BY <1>8, FS_EmptySet, FS_Singleton
    <2>2. QED
      BY <1>10, <2>1
  <1>11. QED
    BY <1>9, <1>10

\* The inductive invariant behind OneOwner.
PlacesInv == RecInv /\ \E own : PlaceInv(own)

\* Every node is in one place: there is always a function that says which.
THEOREM PlacesKept == Spec => []PlacesInv
  <1>1. Init => PlacesInv
    BY InitRec, InitPlaces DEF PlacesInv
  <1>2. PlacesInv /\ [Next]_vars => PlacesInv'
    <2> SUFFICES ASSUME PlacesInv, [Next]_vars PROVE PlacesInv'
      OBVIOUS
    <2>1. PICK own : PlaceInv(own)
      BY DEF PlacesInv
    <2>2. CASE Next
      <3>1. PICK t \in Threads : Step(t)
        BY <2>2, StepOf
      <3>2. \E o : PlaceInv(o)'
        BY <2>1, <3>1, PlacesChange DEF PlacesInv
      <3>3. QED
        BY <3>2, NextRec DEF PlacesInv
    <2>3. CASE UNCHANGED vars
      <3>1. PlaceInv(own)'
        BY <2>1, <2>3, PlacesStay
      <3>2. QED
        BY <3>1, NextRec DEF PlacesInv
    <2>4. QED
      BY <2>2, <2>3
  <1>3. QED
    BY <1>1, <1>2, PTL DEF Spec

\* A node has one owner: it is not in two slots, not in the list and in the ring,
\* not taken from the ring twice, not destroyed twice.  Whatever is
\* reused, for any number of collectors, and however far tail lags.
THEOREM NodeHasOneOwner == Spec => []OneOwner
  <1>1. PlacesInv => OneOwner
    BY PlacesGiveOneOwner DEF PlacesInv
  <1>2. QED
    BY <1>1, PlacesKept, PTL

(***************************************************************************)
(* The lagging tail, where no protected node is reused. An enqueuer links  *)
(* a node first and moves tail then: in between tail is one node behind,   *)
(* and if the other threads have dequeued that node meanwhile, it is not   *)
(* in the list any more. Then it is in the record of the enqueuer, which   *)
(* has yet to move tail.                                                   *)
(***************************************************************************)
\* Tail is the last node, or the one before it while the enqueuer is at casTail.
TailLags(own) ==
    /\ next[tailPtr] = Null => In(own, tailPtr)
    /\ next[tailPtr] # Null =>
          /\ In(own, next[tailPtr]) /\ next[next[tailPtr]] = Null
          /\ \E u \in Threads : pc[u] = "casTail" /\ held[u] = tailPtr

\* Thread t appends to the last node, a node that nobody protects.
AppendOK(t) ==
    /\ Appending(t) /\ next[held[t]] = Null => held[t] = tailPtr
    /\ pc[t] = "casNext" => next[new[t]] = Null /\ new[t] \notin Protected
    /\ pc[t] = "casTail" => next[held[t]] = new[t]

TailInv(own) == TailLags(own) /\ \A t \in Threads : AppendOK(t)

\* The node a thread appends to is in its record.
LEMMA UsingFacts ==
  ASSUME RecInv, NEW u \in Threads, Appending(u) \/ pc[u] = "casTail"
  PROVE  held[u] \in Nodes /\ held[u] \in Protected
  <1>1. ThreadOK(u) /\ Using(u)
    BY DEF RecInv, Appending, Using
  <1>2. rec[u] \in Records /\ hazardPtr[rec[u]] = held[u] /\ held[u] \in Nodes
    BY <1>1 DEF ThreadOK, RecordOK, NodesOK, Using, RingSteps
  <1>3. QED
    BY <1>2 DEF Protected

\* Head is in the list; tail is, or is protected; neither is a node to be linked.
LEMMA TailFacts ==
  ASSUME RecInv, NEW own, PlaceInv(own), TailInv(own)
  PROVE  /\ In(own, tailPtr) \/ tailPtr \in Protected
         /\ In(own, headPtr)
         /\ \A u \in Threads : pc[u] = "casNext" => new[u] # headPtr /\ new[u] # tailPtr
  <1>1. In(own, tailPtr) \/ tailPtr \in Protected
    BY UsingFacts DEF TailInv, TailLags
  <1>2. ASSUME NEW u \in Threads, pc[u] = "casNext" PROVE new[u] # headPtr /\ new[u] # tailPtr
    <2>1. new[u] \in Nodes /\ own[new[u]] = <<"new", u>>
      BY <1>2 DEF RecInv, ThreadOK, NodesOK, PlaceInv, Placed
    <2>2. ~In(own, new[u]) /\ next[new[u]] = Null
      BY <1>2, <2>1 DEF In, TailInv, AppendOK
    <2>3. QED
      BY <2>2 DEF PlaceInv, TailInv, Chained, TailLags, In
  <1>3. QED
    BY <1>1, <1>2 DEF PlaceInv, Chained

\* A node about to be linked stays unprotected.
LEMMA NewUnprotected ==
  ASSUME RecInv, NEW own, PlaceInv(own), TailInv(own), NEW t \in Threads, Step(t),
         NEW u \in Threads, pc[u] = "casNext", new'[u] = new[u]
  PROVE  new'[u] \notin Protected'
  <1>1. new[u] \in Nodes /\ new[u] \notin Protected
    BY DEF RecInv, ThreadOK, NodesOK, TailInv, AppendOK
  <1>2. new[u] # headPtr /\ new[u] # tailPtr
    BY TailFacts
  <1>3. PICK x : x = new[u]
    OBVIOUS
  <1>4. x \notin Protected'
    BY <1>1, <1>2, <1>3, ProtectedChange
  <1>5. QED
    BY <1>3, <1>4

\* A step that links and unlinks nothing leaves the nodes of the list the same.
LEMMA SameIn ==
  ASSUME NEW own, NEW o, NEW t, Relinked(own, o, t), headPtr' = headPtr, pc[t] # "casNext" \/ pc'[t] # "casTail"
  PROVE  \A n \in Nodes : In(o, n) <=> In(own, n)
  BY DEF Relinked

\* Steps that do not touch the list.
LEMMA TailStays ==
  ASSUME RecInv, NEW own, PlaceInv(own), TailInv(own), NEW t \in Threads, Step(t),
         NEW o, Relinked(own, o, t), UNCHANGED listVars,
         (pc'[t] = "casTail" <=> pc[t] = "casTail") /\ (pc'[t] = "casTail" => held'[t] = held[t] /\ new'[t] = new[t]),
         pc'[t] = "casNext" => pc[t] = "casNext" /\ new'[t] = new[t],
         Appending(t)' => held'[t] = held[t] /\ (Appending(t) \/ held[t] = tailPtr)
  PROVE  TailInv(o)'
  <1>1. \A u \in Threads \ {t} : Same(u)
    BY OthersSame DEF RecInv
  <1>2. UNCHANGED <<headPtr, tailPtr, next>>
    BY DEF listVars
  <1>3. headPtr \in Nodes /\ tailPtr \in Nodes /\ next \in [Nodes -> Nodes \cup {Null}]
    BY DEF RecInv, TypeOK
  <1>4. \A n \in Nodes : In(o, n) <=> In(own, n)
    BY <1>2, SameIn
  <1>5. TailLags(o)'
    <2>1. \A u \in Threads : pc[u] = "casTail" => pc'[u] = "casTail" /\ held'[u] = held[u]
      BY <1>1 DEF Same
    <2>2. QED
      BY <1>2, <1>3, <1>4, <2>1 DEF TailInv, TailLags, In
  <1>6. ASSUME NEW u \in Threads PROVE AppendOK(u)'
    <2>1. AppendOK(u)
      BY DEF TailInv
    <2>2. Appending(u)' => held'[u] = held[u] /\ (Appending(u) \/ held[u] = tailPtr)
      BY <1>1 DEF Same, Appending
    <2>3. /\ pc'[u] = "casTail" => pc[u] = "casTail" /\ held'[u] = held[u] /\ new'[u] = new[u]
          /\ pc'[u] = "casNext" => pc[u] = "casNext" /\ new'[u] = new[u]
      BY <1>1 DEF Same
    <2>4. pc'[u] = "casNext" => new'[u] \notin Protected'
      BY <2>3, NewUnprotected
    <2>5. QED
      BY <1>2, <2>1, <2>2, <2>3, <2>4 DEF AppendOK
  <1>7. QED
    BY <1>5, <1>6 DEF TailInv

\* Unlink: tail may be the node that leaves the list.
LEMMA UnlinkTail ==
  ASSUME RecInv, NEW own, PlaceInv(own), TailInv(own), NEW t \in Threads, Step(t), Unlink(t),
         NEW o, Relinked(own, o, t)
  PROVE  TailInv(o)'
  <1>1. \A u \in Threads \ {t} : Same(u)
    BY OthersSame DEF RecInv
  <1>2. PICK h \in Nodes : h = headPtr /\ h = held[t]
    BY DEF Unlink, RecInv, TypeOK
  <1>3. /\ next[h] # Null /\ headPtr' = next[h] /\ pc[t] = "use" /\ pc'[t] = "clearStore"
        /\ UNCHANGED <<tailPtr, next, held, new>>
    BY <1>2 DEF Unlink, ringVars, useVars, At, Goto, RecInv, TypeOK
  <1>t. tailPtr \in Nodes /\ next \in [Nodes -> Nodes \cup {Null}]
    BY DEF RecInv, TypeOK
  <1>4. next[h] # h
    BY <1>2 DEF PlaceInv, Chained, Live
  <1>5. \A n \in Nodes : In(o, n) <=> In(own, n) /\ n # h
    BY <1>2, <1>3, <1>4 DEF Relinked
  <1>6. TailLags(o)'
    <2>1. \A u \in Threads : pc[u] = "casTail" => pc'[u] = "casTail" /\ held'[u] = held[u]
      BY <1>1, <1>3 DEF Same
    <2>2. TailLags(own)
      BY DEF TailInv
    <2>3. next'[tailPtr'] = Null => In(o, tailPtr')
      BY <1>3, <1>5, <1>t, <2>2 DEF TailLags
    <2>4. next'[tailPtr'] # Null => In(o, next'[tailPtr']) /\ next'[next'[tailPtr']] = Null
      BY <1>3, <1>5, <1>t, <2>2 DEF TailLags
    <2>5. QED
      BY <1>3, <2>1, <2>2, <2>3, <2>4 DEF TailLags, In
  <1>7. ASSUME NEW u \in Threads PROVE AppendOK(u)'
    <2>1. Appending(u)' => Appending(u) /\ held'[u] = held[u]
      BY <1>1, <1>3 DEF Same, Appending, RingSteps
    <2>2. pc'[u] = "casNext" => pc[u] = "casNext" /\ new'[u] \notin Protected'
      BY <1>1, <1>3, NewUnprotected DEF Same
    <2>3. pc'[u] = "casTail" => pc[u] = "casTail"
      BY <1>1, <1>3 DEF Same
    <2>4. QED
      BY <1>3, <2>1, <2>2, <2>3 DEF TailInv, AppendOK
  <1>8. QED
    BY <1>6, <1>7 DEF TailInv

\* HelpTail: tail is the last node again.
LEMMA HelpTailTail ==
  ASSUME RecInv, NEW own, PlaceInv(own), TailInv(own), NEW t \in Threads, Step(t), HelpTail(t),
         NEW o, Relinked(own, o, t)
  PROVE  TailInv(o)'
  <1>1. \A u \in Threads \ {t} : Same(u)
    BY OthersSame DEF RecInv
  <1>2. /\ pc[t] = "use" /\ pc'[t] = "storePtr" /\ goal' = goal
        /\ next[tailPtr] # Null /\ tailPtr' = next[tailPtr]
        /\ UNCHANGED <<headPtr, next, new>>
    BY DEF HelpTail, At, Goto, RecInv, TypeOK
  <1>3. ~Appending(t)'
    BY <1>2 DEF Appending, RingSteps
  <1>4. \A n \in Nodes : In(o, n) <=> In(own, n)
    BY <1>2, SameIn
  <1>5. tailPtr' \in Nodes /\ In(own, tailPtr') /\ next'[tailPtr'] = Null
    BY <1>2 DEF TailInv, TailLags, RecInv, TypeOK
  <1>6. TailLags(o)'
    BY <1>4, <1>5 DEF TailLags, In
  <1>7. ASSUME NEW u \in Threads PROVE AppendOK(u)'
    <2>1. AppendOK(u)
      BY DEF TailInv
    <2>2. Appending(u)' => held'[u] = held[u] /\ Appending(u)
      BY <1>1, <1>3 DEF Same, Appending
    <2>3. /\ pc'[u] = "casTail" => pc[u] = "casTail" /\ held'[u] = held[u]
          /\ pc'[u] = "casNext" => pc[u] = "casNext"
      BY <1>1, <1>2 DEF Same
    <2>4. pc'[u] = "casNext" => new'[u] \notin Protected'
      BY <1>2, <2>3, NewUnprotected
    <2>5. QED
      BY <1>2, <2>1, <2>2, <2>3, <2>4 DEF AppendOK
  <1>8. QED
    BY <1>6, <1>7 DEF TailInv

\* MoveTail: so it is, whether this thread moved it or another did.
LEMMA MoveTailTail ==
  ASSUME RecInv, NEW own, PlaceInv(own), TailInv(own), NEW t \in Threads, Step(t), MoveTail(t),
         NEW o, Relinked(own, o, t)
  PROVE  TailInv(o)'
  <1>1. \A u \in Threads \ {t} : Same(u)
    BY OthersSame DEF RecInv
  <1>2. /\ pc[t] = "casTail" /\ pc'[t] = "clearStore" /\ held' = held
        /\ tailPtr' = (IF tailPtr = held[t] THEN new[t] ELSE tailPtr)
        /\ UNCHANGED <<headPtr, next>>
    BY DEF MoveTail, At, Goto, RecInv, TypeOK
  <1>3. ~Appending(t)'
    BY <1>2 DEF Appending, RingSteps
  <1>4. next[held[t]] = new[t] /\ new[t] \in Nodes /\ Null \notin Nodes
    BY <1>2, Values DEF TailInv, AppendOK, RecInv, ThreadOK, NodesOK
  <1>5. \A n \in Nodes : In(o, n) <=> In(own, n)
    BY <1>2, SameIn
  <1>6. TailLags(o)'
    <2>1. CASE tailPtr = held[t]
      <3>1. tailPtr' \in Nodes /\ In(own, tailPtr') /\ next'[tailPtr'] = Null
        BY <1>2, <1>4, <2>1 DEF TailInv, TailLags
      <3>2. QED
        BY <1>5, <3>1 DEF TailLags, In
    <2>2. CASE tailPtr # held[t]
      <3>1. \A u \in Threads : pc[u] = "casTail" /\ held[u] = tailPtr => pc'[u] = "casTail" /\ held'[u] = tailPtr
        BY <1>1, <1>2, <2>2 DEF Same
      <3>2. tailPtr \in Nodes /\ next \in [Nodes -> Nodes \cup {Null}]
        BY DEF RecInv, TypeOK
      <3>3. QED
        BY <1>2, <1>5, <2>2, <3>1, <3>2 DEF TailInv, TailLags, In
    <2>3. QED
      BY <2>1, <2>2
  <1>7. ASSUME NEW u \in Threads PROVE AppendOK(u)'
    <2>1. AppendOK(u)
      BY DEF TailInv
    <2>2. Appending(u)' => Appending(u)
      BY <1>1, <1>3 DEF Same, Appending
    <2>3. /\ pc'[u] = "casTail" => pc[u] = "casTail" /\ new'[u] = new[u]
          /\ pc'[u] = "casNext" => pc[u] = "casNext" /\ new'[u] = new[u]
      BY <1>1, <1>2 DEF Same
    <2>4. pc'[u] = "casNext" => new'[u] \notin Protected'
      BY <2>3, NewUnprotected
    <2>5. Appending(u)' /\ next'[held'[u]] = Null => held'[u] = tailPtr'
      BY <1>2, <1>4, <2>1, <2>2 DEF AppendOK
    <2>6. QED
      BY <1>2, <2>1, <2>3, <2>4, <2>5 DEF AppendOK
  <1>8. QED
    BY <1>6, <1>7 DEF TailInv

\* Construct: no node that a thread appends to is cleared, since those are protected.
LEMMA ConstructTail ==
  ASSUME ~ReusesProtected, RecInv, NEW own, PlaceInv(own), TailInv(own), NEW t \in Threads, Step(t),
         Construct(t), NEW o, Relinked(own, o, t)
  PROVE  TailInv(o)'
  <1>1. \A u \in Threads \ {t} : Same(u)
    BY OthersSame DEF RecInv
  <1>2. PICK x \in IF new[t] = Null THEN heap ELSE {new[t]} :
          /\ new' = [new EXCEPT ![t] = x]
          /\ next' = [next EXCEPT ![x] = Null] /\ x \notin Protected
    BY DEF Construct, ReusesProtected, At, Goto, RecInv, TypeOK
  <1>3. /\ pc[t] = "construct" /\ pc'[t] = "casNext" /\ goal' = goal /\ held' = held
        /\ hazardPtr' = hazardPtr /\ loaded' = loaded
        /\ UNCHANGED <<headPtr, tailPtr>>
    BY DEF Construct, recordVars, gcVars, At, Goto, RecInv, TypeOK
  <1>4. x \in Nodes /\ own[x] \in {<<"heap", x>>, <<"new", t>>}
    <2>1. heap \in SUBSET Nodes /\ new[t] \in Nodes \cup {Null}
      BY DEF RecInv, TypeOK
    <2>2. CASE new[t] = Null
      BY <1>2, <2>1, <2>2 DEF PlaceInv, Placed
    <2>3. CASE new[t] # Null
      BY <1>2, <1>3, <2>1, <2>3 DEF PlaceInv, Placed
    <2>4. QED
      BY <2>2, <2>3
  <1>5. Appending(t)
    BY <1>3 DEF Appending
  <1>6. new'[t] = x /\ next'[x] = Null /\ \A n \in Nodes \ {x} : next'[n] = next[n]
    BY <1>2, <1>4 DEF RecInv, TypeOK
  <1>7. \A n \in Nodes : In(own, n) => n # x
    BY <1>4 DEF In
  <1>8. \A n \in Nodes : In(o, n) <=> In(own, n)
    BY <1>3, SameIn
  <1>t. tailPtr \in Nodes /\ Null \notin Nodes /\ next \in [Nodes -> Nodes \cup {Null}]
    BY Values DEF RecInv, TypeOK
  <1>9. tailPtr # x
    BY <1>2, <1>7, <1>t, TailFacts
  <1>10. TailLags(o)'
    <2>1. \A u \in Threads : pc[u] = "casTail" => pc'[u] = "casTail" /\ held'[u] = held[u]
      BY <1>1, <1>3 DEF Same
    <2>2. next'[tailPtr'] = next[tailPtr] /\ (next[tailPtr] # Null => next[tailPtr] \in Nodes)
      BY <1>3, <1>6, <1>9, <1>t
    <2>3. TailLags(own)
      BY DEF TailInv
    <2>4. next[tailPtr] # Null => In(own, next[tailPtr]) /\ next'[next[tailPtr]] = Null
      BY <1>6, <1>7, <2>2, <2>3 DEF TailLags
    <2>5. next'[tailPtr'] = Null => In(o, tailPtr')
      BY <1>3, <1>8, <1>t, <2>2, <2>3 DEF TailLags
    <2>6. next'[tailPtr'] # Null => In(o, next'[tailPtr']) /\ next'[next'[tailPtr']] = Null
      BY <1>8, <2>2, <2>4
    <2>7. next'[tailPtr'] # Null => \E u \in Threads : pc'[u] = "casTail" /\ held'[u] = tailPtr'
      BY <1>3, <2>1, <2>2, <2>3 DEF TailLags
    <2>8. QED
      BY <2>5, <2>6, <2>7 DEF TailLags, In
  <1>11. ASSUME NEW u \in Threads PROVE AppendOK(u)'
    <2>1. AppendOK(u)
      BY DEF TailInv
    <2>2. Protected' = Protected
      BY <1>3 DEF Protected
    <2>3. Appending(u) \/ pc[u] = "casTail" => held[u] \in Nodes /\ held[u] # x
      BY <1>2, UsingFacts
    <2>4. Appending(u)' => Appending(u) /\ next'[held'[u]] = next[held[u]]
      BY <1>1, <1>3, <1>5, <1>6, <2>3 DEF Same, Appending
    <2>5. pc'[u] = "casTail" => pc[u] = "casTail" /\ next'[held'[u]] = next[held[u]] /\ new'[u] = new[u]
      BY <1>1, <1>3, <1>6, <2>3 DEF Same
    <2>6. pc'[u] = "casNext" => next'[new'[u]] = Null /\ new'[u] \notin Protected'
      <3>1. CASE u = t
        BY <1>2, <1>6, <2>2, <3>1
      <3>2. CASE u # t
        <4>1. SUFFICES ASSUME pc'[u] = "casNext" PROVE next'[new'[u]] = Null /\ new'[u] \notin Protected'
          OBVIOUS
        <4>2. pc[u] = "casNext" /\ new'[u] = new[u] /\ new[u] \in Nodes
          BY <1>1, <3>2, <4>1 DEF Same, RecInv, ThreadOK, NodesOK
        <4>3. QED
          BY <1>6, <2>1, <2>2, <4>2 DEF AppendOK
      <3>3. QED
        BY <3>1, <3>2
    <2>7. QED
      BY <1>3, <2>1, <2>4, <2>5, <2>6 DEF AppendOK
  <1>12. QED
    BY <1>10, <1>11 DEF TailInv

\* Link: the node it appends to is tail, which is one behind from now on.
LEMMA LinkTail ==
  ASSUME RecInv, NEW own, PlaceInv(own), TailInv(own), NEW t \in Threads, Step(t),
         Link(t), next[held[t]] = Null, NEW o, Relinked(own, o, t)
  PROVE  TailInv(o)'
  <1>1. \A u \in Threads \ {t} : Same(u)
    BY OthersSame DEF RecInv
  <1>2. PICK h \in Nodes, x \in Nodes : h = held[t] /\ x = new[t]
    BY DEF Link, At, RecInv, ThreadOK, NodesOK, Using
  <1>3. /\ pc[t] = "casNext" /\ pc'[t] = "casTail" /\ goal'[t] = "none" /\ held' = held /\ new' = new
        /\ next' = [next EXCEPT ![h] = x] /\ next[h] = Null
        /\ UNCHANGED <<headPtr, tailPtr>>
    BY <1>2 DEF Link, At, Goto, RecInv, TypeOK
  <1>4. own[x] = <<"new", t>> /\ next[x] = Null
    BY <1>2, <1>3 DEF Placed, PlaceInv, TailInv, AppendOK
  <1>5. h = tailPtr /\ In(own, h)
    BY <1>2, <1>3 DEF TailInv, AppendOK, Appending, TailLags
  <1>6. ~Appending(t)'
    BY <1>3 DEF Appending, RingSteps
  <1>7. x # h
    BY <1>4, <1>5 DEF In
  <1>t. Null \notin Nodes /\ tailPtr \in Nodes /\ next \in [Nodes -> Nodes \cup {Null}]
    BY Values DEF RecInv, TypeOK
  <1>8. next'[h] = x /\ \A n \in Nodes \ {h} : next'[n] = next[n]
    BY <1>3, <1>t
  <1>9. In(o, x)
    BY <1>2, <1>3 DEF Relinked
  <1>10. TailLags(o)'
    <2>1. next'[tailPtr'] = x /\ x # Null /\ next'[x] = Null
      BY <1>3, <1>4, <1>5, <1>7, <1>8, <1>t
    <2>2. pc'[t] = "casTail" /\ held'[t] = tailPtr'
      BY <1>2, <1>3, <1>5
    <2>3. QED
      BY <1>9, <2>1, <2>2 DEF TailLags, In
  <1>11. ASSUME NEW u \in Threads PROVE AppendOK(u)'
    <2>1. AppendOK(u)
      BY DEF TailInv
    <2>2. CASE u = t
      BY <1>2, <1>3, <1>6, <1>8, <2>2 DEF AppendOK
    <2>3. CASE u # t
      <3>1. Same(u)
        BY <1>1, <2>3
      <3>2. Appending(u)' => Appending(u) /\ held'[u] = held[u] /\ held[u] \in Nodes
        BY <3>1, UsingFacts DEF Same, Appending
      <3>3. Appending(u)' /\ next'[held'[u]] = Null => held'[u] = tailPtr'
        BY <1>3, <1>5, <1>8, <1>t, <2>1, <3>2 DEF AppendOK
      <3>4. pc'[u] = "casTail" => next'[held'[u]] = new'[u]
        <4>1. SUFFICES ASSUME pc'[u] = "casTail" PROVE next'[held'[u]] = new'[u]
          OBVIOUS
        <4>2. pc[u] = "casTail" /\ held'[u] = held[u] /\ new'[u] = new[u]
          BY <3>1, <4>1 DEF Same
        <4>3. held[u] \in Nodes /\ new[u] \in Nodes /\ next[held[u]] = new[u]
          BY <2>1, <4>2, UsingFacts DEF AppendOK, RecInv, ThreadOK, NodesOK
        <4>4. QED
          BY <1>3, <1>8, <1>t, <4>2, <4>3
      <3>5. pc'[u] = "casNext" => next'[new'[u]] = Null /\ new'[u] \notin Protected'
        <4>1. SUFFICES ASSUME pc'[u] = "casNext" PROVE next'[new'[u]] = Null /\ new'[u] \notin Protected'
          OBVIOUS
        <4>2. pc[u] = "casNext" /\ new'[u] = new[u] /\ new[u] \in Nodes
          BY <3>1, <4>1 DEF Same, RecInv, ThreadOK, NodesOK
        <4>3. new'[u] \notin Protected' /\ new[u] # tailPtr
          BY <4>2, NewUnprotected, TailFacts
        <4>4. QED
          BY <1>5, <1>8, <2>1, <4>2, <4>3 DEF AppendOK
      <3>6. QED
        BY <3>3, <3>4, <3>5 DEF AppendOK
    <2>4. QED
      BY <2>2, <2>3
  <1>12. QED
    BY <1>10, <1>11 DEF TailInv

\* Every step keeps this.
LEMMA TailKept ==
  ASSUME ~ReusesProtected, RecInv, NEW own, PlaceInv(own), TailInv(own), NEW t \in Threads, Step(t),
         NEW o, Relinked(own, o, t)
  PROVE  TailInv(o)'
  <1>1. CASE Quiet(t)
    BY <1>1, TailStays DEF Quiet
  <1>2. CASE Unlink(t) \/ HelpTail(t) \/ MoveTail(t) \/ Construct(t)
    BY <1>2, UnlinkTail, HelpTailTail, MoveTailTail, ConstructTail
  <1>3. CASE Link(t)
    <2>1. CASE next[held[t]] = Null
      BY <1>3, <2>1, LinkTail
    <2>2. CASE next[held[t]] # Null
      <3>1. UNCHANGED listVars /\ pc[t] = "casNext" /\ pc'[t] = "storePtr"
        BY <1>3, <2>2 DEF Link, listVars, At, Goto, RecInv, TypeOK
      <3>2. ~Appending(t)'
        BY <3>1 DEF Appending, RingSteps
      <3>3. QED
        BY <3>1, <3>2, TailStays
    <2>3. QED
      BY <2>1, <2>2
  <1>4. CASE PushStore(t) \/ PopTake(t) \/ Keep(t) \/ Delete(t)
    <2>1. /\ UNCHANGED listVars
          /\ pc[t] \in {"pushStore", "popTake", "keep", "delete"}
          /\ pc'[t] \in {"pushCount", "popCount", "storePtr", "gcPtr"}
      BY <1>4 DEF PushStore, PopTake, Keep, Delete, At, Goto, RecInv, TypeOK
    <2>2. Appending(t)' => held'[t] = held[t] /\ Appending(t)
      <3>1. CASE PushStore(t) \/ PopTake(t)
        BY <3>1 DEF PushStore, PopTake, useVars, At, Goto, RecInv, TypeOK, Appending, RingSteps
      <3>2. CASE Keep(t) \/ Delete(t)
        BY <3>2 DEF Keep, Delete, At, Goto, RecInv, TypeOK, Appending, RingSteps
      <3>3. QED
        BY <1>4, <3>1, <3>2
    <2>3. QED
      BY <2>1, <2>2, TailStays
  <1>5. QED
    BY <1>1, <1>2, <1>3, <1>4, QuietStep

\* It holds at the start.
LEMMA InitTail == ASSUME Init, NEW own, PlaceInv(own) PROVE TailInv(own)
  <1>1. headPtr = tailPtr /\ tailPtr \in Nodes /\ In(own, headPtr)
    BY DEF Init, PlaceInv, Chained
  <1>2. next[tailPtr] = Null
    BY <1>1 DEF Init
  <1>3. \A t \in Threads : AppendOK(t)
    BY DEF Init, AppendOK, Appending, RingSteps
  <1>4. QED
    BY <1>1, <1>2, <1>3 DEF TailInv, TailLags

\* And without a step.
LEMMA TailUnmoved == ASSUME NEW own, TailInv(own), UNCHANGED vars PROVE TailInv(own)'
  BY DEF vars, listVars, recordVars, ringVars, useVars, gcVars, TailInv, TailLags, AppendOK, In,
         Appending, Protected

(***************************************************************************)
(* No node in use is destroyed. A record that names a node keeps it from   *)
(* being destroyed from the moment the owner has stored it, provided that  *)
(* a collector which looked at the record before did not find it empty and *)
(* then destroys the node nevertheless. So the invariant follows a node    *)
(* from a source into the record: loaded but not stored, it is not         *)
(* destroyed because the collector, for all that it has looked at, has yet *)
(* to deal with the record, and will find its source set.                  *)
(***************************************************************************)
\* Record r names node n, and its owner is not about to clear it.
Named(r, n) == hazardPtr[r] = n /\ \A t \in Threads : rec[t] = r => pc[t] # "clearPtr"
\* Collector c will destroy n if it finds it in no record from now on.
Doomed(c, n) == pc[c] \in GcSteps /\ n \in deleting[c] /\ n \in Nodes /\ n \notin referenced[c]
\* Collector c has dealt with record r.
Scanned(c, r) == pc[c] = "delete" \/ r < gcAt[c]
\* Thread t has loaded a node that it will store in its record.
Loaded(t) == pc[t] = "casPtr" /\ hazardPtr[rec[t]] = Reset

\* No record names a node that is not allocated.
HeapUnnamed == \A n \in heap : \A r \in Records : ~Named(r, n)
\* A thread does not store one.
LoadedAlive == \A t \in Threads : Loaded(t) => loaded[t] \notin heap
\* Nor does a collector on behalf of a thread.
HelpedAlive == \A t \in Threads : pc[t] = "helpCas" => loaded[t] \notin heap
\* A node that is to be destroyed is in no record the collector has dealt with.
ScannedUnnamed ==
    \A c \in Threads : \A n \in Nodes : Doomed(c, n) =>
        \A r \in Records : Scanned(c, r) => ~Named(r, n)
\* Collector c, at a record without a node, will store one there.
WillHelp(c) ==
    /\ pc[c] \in {"helpStore", "helpSource", "helpCas"} => expected[c] = Reset
    /\ pc[c] = "helpCas" => loaded[c] \in Nodes
    /\ pc[c] # "helpReload"
\* If a loaded node is to be destroyed, the collector has yet to deal with the
\* record that will name it, or is about to complete setHazardPtr there: the CAS
\* of one of the two fails then.
LoadedUnscanned ==
    \A c, t \in Threads : Loaded(t) /\ Doomed(c, loaded[t]) =>
        ~Scanned(c, rec[t]) /\ (gcAt[c] = rec[t] => WillHelp(c))
\* A record that names a node when a collector looks at its source has one, or is
\* about to be cleared: GcStore does not pass over a node in use.
NamedAtStore ==
    \A c \in Threads : pc[c] = "gcStore" /\ hazardPtr[gcAt[c]] \in Nodes =>
        \E t \in Threads : rec[t] = gcAt[c] /\ (pc[t] = "clearPtr" \/ storePtr[gcAt[c]] \in Sources)

\* Thread t begins to collect.
Enters(t) == pc[t] = "keep" /\ pc'[t] = "gcPtr" /\ gcAt'[t] = 1

\* Collector t is done with a record, in which it found v, if anything.
Advances(t) ==
    \E v :
       /\ deleting'[t] = deleting[t] /\ hazardPtr' = hazardPtr /\ heap' = heap
       /\ referenced'[t] = referenced[t] \cup ({v} \cap Nodes)
       /\ IF gcAt[t] + 1 \in Records THEN gcAt'[t] = gcAt[t] + 1 /\ pc'[t] = "gcPtr" ELSE pc'[t] = "delete"
       /\ \/ pc[t] \in {"gcPtr", "helpPtr"} /\ v = hazardPtr[gcAt[t]] /\ v \in Nodes
          \/ pc[t] = "gcStore" /\ storePtr[gcAt[t]] \notin Sources
          \/ pc[t] = "helpCas" /\ v = hazardPtr[gcAt[t]] /\ v # expected[t]
          \/ pc[t] = "helpReload" /\ v = hazardPtr[gcAt[t]]

\* Collector t goes on with the same record.
Stays(t) ==
    /\ deleting'[t] = deleting[t] /\ referenced'[t] = referenced[t] /\ gcAt'[t] = gcAt[t]
    /\ heap' = heap
    /\ \/ pc[t] = "gcPtr" /\ pc'[t] = "gcStore" /\ hazardPtr' = hazardPtr /\ hazardPtr[gcAt[t]] \notin Nodes
       \/ pc[t] = "gcStore" /\ pc'[t] = "helpPtr"
       \/ pc[t] = "helpPtr" /\ pc'[t] = "helpStore" /\ expected'[t] = hazardPtr[gcAt[t]]
       \/ pc[t] = "helpStore" /\ pc'[t] = "helpSource" /\ expected'[t] = expected[t]
       \/ /\ pc[t] = "helpStore" /\ pc'[t] = "helpCas" /\ expected'[t] = expected[t]
          /\ loaded'[t] = Reset /\ storePtr[gcAt[t]] \notin Sources
       \/ /\ pc[t] = "helpSource" /\ pc'[t] = "helpCas" /\ expected'[t] = expected[t]
          /\ loaded'[t] \in {headPtr, tailPtr}
       \/ /\ pc[t] = "helpCas" /\ pc'[t] = "helpReload"
          /\ hazardPtr' = [hazardPtr EXCEPT ![gcAt[t]] = loaded[t]]

\* Thread t is in gcCollect before or after the step.
Collects(t) == pc[t] \in GcSteps \/ pc'[t] \in GcSteps

\* The other operations are not part of gcCollect.
LEMMA OthersCollectNot ==
  ASSUME RecInv, NEW t \in Threads, RecordStep(t) \/ QueueStep(t) \/ RingStep(t), ~Keep(t)
  PROVE  ~Collects(t)
  <1> USE DEF RecInv, TypeOK, Collects, GcSteps, At, Goto, listVars, recordVars, ringVars,
              useVars, gcVars
  <1>1. CASE \E s \in Sources : Begin(t, s)
    BY <1>1 DEF Begin
  <1>2. CASE AcquireRecord(t)
    BY <1>2 DEF AcquireRecord
  <1>3. CASE StorePtr(t)
    BY <1>3 DEF StorePtr
  <1>4. CASE ResetPtr(t)
    BY <1>4 DEF ResetPtr
  <1>5. CASE GetPtr(t)
    BY <1>5 DEF GetPtr
  <1>6. CASE LoadSource(t)
    BY <1>6 DEF LoadSource
  <1>7. CASE CasPtr(t)
    BY <1>7 DEF CasPtr
  <1>8. CASE ClearStore(t)
    BY <1>8 DEF ClearStore
  <1>9. CASE ClearPtr(t)
    BY <1>9 DEF ClearPtr
  <1>10. CASE FreePtr(t)
    BY <1>10 DEF FreePtr
  <1>11. CASE FinishUse(t)
    BY <1>11 DEF FinishUse
  <1>12. CASE Retry(t)
    BY <1>12 DEF Retry
  <1>13. CASE Unlink(t)
    BY <1>13 DEF Unlink
  <1>14. CASE NeedNode(t)
    BY <1>14 DEF NeedNode
  <1>15. CASE HelpTail(t)
    BY <1>15 DEF HelpTail
  <1>16. CASE Construct(t)
    BY <1>16 DEF Construct
  <1>17. CASE Link(t)
    BY <1>17 DEF Link
  <1>18. CASE MoveTail(t)
    BY <1>18 DEF MoveTail
  <1>18a. CASE PushLoad(t)
    BY <1>18a DEF PushLoad
  <1>19. CASE PushTest(t)
    BY <1>19 DEF PushTest
  <1>20. CASE PushCas(t)
    BY <1>20 DEF PushCas
  <1>21. CASE PushStore(t)
    BY <1>21 DEF PushStore
  <1>22. CASE PushCount(t)
    BY <1>22 DEF PushCount
  <1>22a. CASE PopLoad(t)
    BY <1>22a DEF PopLoad
  <1>23. CASE PopTest(t)
    BY <1>23 DEF PopTest, Popped
  <1>24. CASE PopCas(t)
    BY <1>24 DEF PopCas
  <1>25. CASE PopTake(t)
    BY <1>25 DEF PopTake
  <1>26. CASE PopCount(t)
    BY <1>26 DEF PopCount, Popped
  <1>27. QED
    BY <1>1, <1>2, <1>3, <1>4, <1>5, <1>6, <1>7, <1>8, <1>9, <1>10, <1>11, <1>12, <1>13, <1>14,
       <1>15, <1>16, <1>17, <1>18, <1>18a, <1>19, <1>20, <1>21, <1>22, <1>22a, <1>23, <1>24, <1>25, <1>26
       DEF RecordStep, QueueStep, RingStep

\* Reference ends the work on a record.
LEMMA ReferenceAdvances ==
  ASSUME RecInv, NEW t \in Threads, NEW v, Reference(t, v), UNCHANGED <<heap, recordVars, deleting>>,
         \/ pc[t] \in {"gcPtr", "helpPtr"} /\ v = hazardPtr[gcAt[t]] /\ v \in Nodes
         \/ pc[t] = "gcStore" /\ storePtr[gcAt[t]] \notin Sources
         \/ pc[t] = "helpCas" /\ v = hazardPtr[gcAt[t]] /\ v # expected[t]
         \/ pc[t] = "helpReload" /\ v = hazardPtr[gcAt[t]]
  PROVE  Advances(t)
  <1>1. referenced'[t] = referenced[t] \cup ({v} \cap Nodes)
    BY DEF Reference, RecInv, TypeOK
  <1>2. IF gcAt[t] + 1 \in Records THEN gcAt'[t] = gcAt[t] + 1 /\ pc'[t] = "gcPtr" ELSE pc'[t] = "delete"
    BY DEF Reference, NextRecord, Goto, RecInv, TypeOK
  <1>3. deleting'[t] = deleting[t] /\ hazardPtr' = hazardPtr /\ heap' = heap
    BY DEF recordVars
  <1>4. QED
    BY <1>1, <1>2, <1>3 DEF Advances

\* The steps of a collector.
LEMMA CollectorSteps ==
  ASSUME RecInv, NEW t \in Threads, Step(t), Collects(t)
  PROVE  Enters(t) \/ (pc[t] = "delete" /\ pc'[t] = "storePtr") \/ Advances(t) \/ Stays(t)
  <1> USE DEF RecInv, TypeOK, ThreadOK, NodesOK, GcOK, Collects, At, Goto, IsValid, listVars,
              recordVars, ringVars, useVars, gcVars
  <1>1. CASE Keep(t)
    BY <1>1 DEF Keep, Enters, GcSteps
  <1>2. CASE GcPtr(t)
    <2>1. CASE hazardPtr[gcAt[t]] \in Nodes
      BY <1>2, <2>1, ReferenceAdvances DEF GcPtr
    <2>2. CASE hazardPtr[gcAt[t]] \notin Nodes
      BY <1>2, <2>2 DEF GcPtr, Stays
    <2>3. QED
      BY <2>1, <2>2
  <1>3. CASE GcStore(t)
    <2>1. CASE storePtr[gcAt[t]] \notin Sources
      BY <1>3, <2>1, ReferenceAdvances DEF GcStore
    <2>2. CASE storePtr[gcAt[t]] \in Sources
      BY <1>3, <2>2 DEF GcStore, Stays
    <2>3. QED
      BY <2>1, <2>2
  <1>4. CASE HelpPtr(t)
    <2>1. CASE hazardPtr[gcAt[t]] \in Nodes
      BY <1>4, <2>1, ReferenceAdvances DEF HelpPtr
    <2>2. CASE hazardPtr[gcAt[t]] \notin Nodes
      BY <1>4, <2>2 DEF HelpPtr, Stays
    <2>3. QED
      BY <2>1, <2>2
  <1>5. CASE HelpStore(t)
    BY <1>5 DEF HelpStore, Stays
  <1>6. CASE HelpSource(t)
    BY <1>6 DEF HelpSource, Stays, Deref
  <1>7. CASE HelpCas(t)
    <2>1. CASE hazardPtr[gcAt[t]] # expected[t]
      BY <1>7, <2>1, ReferenceAdvances DEF HelpCas
    <2>2. CASE hazardPtr[gcAt[t]] = expected[t]
      BY <1>7, <2>2 DEF HelpCas, Stays
    <2>3. QED
      BY <2>1, <2>2
  <1>8. CASE HelpReload(t)
    BY <1>8, ReferenceAdvances DEF HelpReload
  <1>9. CASE Delete(t)
    BY <1>9 DEF Delete
  <1>10. QED
    BY <1>1, <1>2, <1>3, <1>4, <1>5, <1>6, <1>7, <1>8, <1>9, OthersCollectNot DEF Step, GcStep

\* LoadSource comes before CasPtr.
LEMMA CasPtrFollows ==
  ASSUME RecInv, NEW t \in Threads, Step(t), pc'[t] = "casPtr" PROVE LoadSource(t)
  <1> USE DEF RecInv, TypeOK, At, Goto
  <1>1. CASE \E s \in Sources : Begin(t, s)
    BY <1>1 DEF Begin
  <1>2. CASE AcquireRecord(t)
    BY <1>2 DEF AcquireRecord
  <1>3. CASE StorePtr(t)
    BY <1>3 DEF StorePtr
  <1>4. CASE ResetPtr(t)
    BY <1>4 DEF ResetPtr
  <1>5. CASE GetPtr(t)
    BY <1>5 DEF GetPtr
  <1>6. CASE LoadSource(t)
    BY <1>6 DEF LoadSource
  <1>7. CASE CasPtr(t)
    BY <1>7 DEF CasPtr
  <1>8. CASE ClearStore(t)
    BY <1>8 DEF ClearStore
  <1>9. CASE ClearPtr(t)
    BY <1>9 DEF ClearPtr
  <1>10. CASE FreePtr(t)
    BY <1>10 DEF FreePtr
  <1>11. CASE FinishUse(t)
    BY <1>11 DEF FinishUse
  <1>12. CASE Retry(t)
    BY <1>12 DEF Retry
  <1>13. CASE Unlink(t)
    BY <1>13 DEF Unlink
  <1>14. CASE NeedNode(t)
    BY <1>14 DEF NeedNode
  <1>15. CASE HelpTail(t)
    BY <1>15 DEF HelpTail
  <1>16. CASE Construct(t)
    BY <1>16 DEF Construct
  <1>17. CASE Link(t)
    BY <1>17 DEF Link
  <1>18. CASE MoveTail(t)
    BY <1>18 DEF MoveTail
  <1>18a. CASE PushLoad(t)
    BY <1>18a DEF PushLoad
  <1>19. CASE PushTest(t)
    BY <1>19 DEF PushTest
  <1>20. CASE PushCas(t)
    BY <1>20 DEF PushCas
  <1>21. CASE PushStore(t)
    BY <1>21 DEF PushStore
  <1>22. CASE PushCount(t)
    BY <1>22 DEF PushCount
  <1>22a. CASE PopLoad(t)
    BY <1>22a DEF PopLoad
  <1>23. CASE PopTest(t)
    BY <1>23 DEF PopTest, Popped
  <1>24. CASE PopCas(t)
    BY <1>24 DEF PopCas
  <1>25. CASE PopTake(t)
    BY <1>25 DEF PopTake
  <1>26. CASE PopCount(t)
    BY <1>26 DEF PopCount, Popped
  <1>27. CASE Keep(t)
    BY <1>27 DEF Keep
  <1>28. CASE GcPtr(t)
    BY <1>28 DEF GcPtr, Reference, NextRecord
  <1>29. CASE GcStore(t)
    BY <1>29 DEF GcStore, Reference, NextRecord
  <1>30. CASE HelpPtr(t)
    BY <1>30 DEF HelpPtr, Reference, NextRecord
  <1>31. CASE HelpStore(t)
    BY <1>31 DEF HelpStore
  <1>32. CASE HelpSource(t)
    BY <1>32 DEF HelpSource
  <1>33. CASE HelpCas(t)
    BY <1>33 DEF HelpCas, Reference, NextRecord
  <1>34. CASE HelpReload(t)
    BY <1>34 DEF HelpReload, Reference, NextRecord
  <1>35. CASE Delete(t)
    BY <1>35 DEF Delete
  <1>36. QED
    BY <1>1, <1>2, <1>3, <1>4, <1>5, <1>6, <1>7, <1>8, <1>9, <1>10, <1>11, <1>12, <1>13, <1>14,
       <1>15, <1>16, <1>17, <1>18, <1>18a, <1>19, <1>20, <1>21, <1>22, <1>22a, <1>23, <1>24, <1>25, <1>26, <1>27,
       <1>28, <1>29, <1>30, <1>31, <1>32, <1>33, <1>34, <1>35 DEF Step, RecordStep, QueueStep,
       RingStep, GcStep

\* A node in use is named by the record of its user.
LEMMA UsingNamed ==
  ASSUME RecInv, NEW t \in Threads, Using(t)
  PROVE  held[t] \in Nodes /\ rec[t] \in Records /\ Named(rec[t], held[t])
  <1>1. held[t] \in Nodes /\ rec[t] \in Records /\ hazardPtr[rec[t]] = held[t]
    BY DEF RecInv, ThreadOK, RecordOK, NodesOK, Using, RingSteps
  <1>2. ASSUME NEW u \in Threads, rec[u] = rec[t] PROVE pc[u] # "clearPtr"
    <2>1. u = t
      BY <1>1, <1>2, Values DEF RecInv, RecordOwned
    <2>2. QED
      BY <2>1 DEF Using, RingSteps
  <1>3. QED
    BY <1>1, <1>2 DEF Named

\* Head and tail are allocated nodes: tail, once it has left the list, is named by
\* the record of the enqueuer that has yet to move it.
LEMMA ListAlive ==
  ASSUME RecInv, NEW own, PlaceInv(own), TailInv(own), HeapUnnamed
  PROVE  headPtr \notin heap /\ tailPtr \notin heap
  <1>1. \A n \in Nodes : In(own, n) => n \notin heap
    <2> SUFFICES ASSUME NEW n \in Nodes, In(own, n), n \in heap PROVE FALSE
      OBVIOUS
    <2>1. own[n] = <<"linked", n>> /\ own[n] = <<"heap", n>>
      BY DEF In, PlaceInv, Placed
    <2>2. QED
      BY <2>1
  <1>2. headPtr \in Nodes /\ tailPtr \in Nodes
    BY DEF RecInv, TypeOK
  <1>3. headPtr \notin heap
    BY <1>1, <1>2 DEF PlaceInv, Chained
  <1>4. In(own, tailPtr) \/ \E u \in Threads : pc[u] = "casTail" /\ held[u] = tailPtr
    BY DEF TailInv, TailLags
  <1>5. ASSUME NEW u \in Threads, pc[u] = "casTail", held[u] = tailPtr PROVE tailPtr \notin heap
    <2>1. rec[u] \in Records /\ Named(rec[u], held[u])
      BY <1>5, UsingNamed DEF Using
    <2>2. QED
      BY <1>5, <2>1 DEF HeapUnnamed
  <1>6. QED
    BY <1>1, <1>2, <1>3, <1>4, <1>5

\* A node is destroyed by an enqueuer that could not link it or by a collector.
LEMMA HeapGrows ==
  ASSUME RecInv, NEW t \in Threads, Step(t), NEW n \in Nodes, n \in heap', n \notin heap
  PROVE  (pc[t] = "casNext" /\ n = new[t]) \/ (pc[t] = "delete" /\ Doomed(t, n))
  <1>1. CASE Quiet(t) \/ Unlink(t) \/ HelpTail(t) \/ Construct(t) \/ MoveTail(t) \/ PushStore(t) \/ PopTake(t) \/ Keep(t)
    BY <1>1 DEF Quiet, Unlink, HelpTail, Construct, MoveTail, PushStore, PopTake, Keep
  <1>2. CASE Link(t)
    BY <1>2 DEF Link, At
  <1>3. CASE Delete(t)
    BY <1>3 DEF Delete, At, Doomed, GcSteps
  <1>4. QED
    BY <1>1, <1>2, <1>3, QuietStep

\* A record comes to name a node by the CAS of its owner or of a collector.
LEMMA NamedBefore ==
  ASSUME RecInv, NEW t \in Threads, Step(t), NEW r \in Records, NEW n \in Nodes, Named(r, n)'
  PROVE  \/ Named(r, n)
         \/ pc[t] = "casPtr" /\ r = rec[t] /\ Loaded(t) /\ n = loaded[t]
         \/ pc[t] = "helpCas" /\ pc'[t] = "helpReload" /\ r = gcAt[t] /\ n = loaded[t]
  <1>1. RecordEffect(t) /\ \A u \in Threads \ {t} : pc'[u] = pc[u] /\ rec'[u] = rec[u]
    BY RecordsChange, OthersSame DEF RecInv, Same
  <1>2. hazardPtr'[r] = n /\ \A u \in Threads : rec'[u] = r => pc'[u] # "clearPtr"
    BY DEF Named
  <1>3. n # Reset /\ n # Free
    BY Values
  <1>4. ASSUME hazardPtr[r] = n, pc[t] = "clearPtr" => rec[t] # r PROVE Named(r, n)
    BY <1>1, <1>2, <1>4 DEF Named
  <1>5. hazardPtr \in [Records -> Nodes \cup {Reset, Free}]
    BY DEF RecInv, TypeOK
  <1>6. CASE hazardPtr' = hazardPtr /\ pc[t] # "clearPtr"
    BY <1>2, <1>4, <1>6
  <1>7. CASE hazardPtr' = [hazardPtr EXCEPT ![rec'[t]] = Reset] /\ pc[t] = "acquire"
    BY <1>2, <1>3, <1>4, <1>5, <1>7
  <1>8. CASE hazardPtr' = [hazardPtr EXCEPT ![rec[t]] = Reset]
    BY <1>2, <1>3, <1>4, <1>5, <1>8
  <1>9. CASE hazardPtr' = [hazardPtr EXCEPT ![rec[t]] = Free]
    BY <1>2, <1>3, <1>4, <1>5, <1>9
  <1>10. CASE pc[t] = "casPtr" /\ hazardPtr[rec[t]] = Reset /\ hazardPtr' = [hazardPtr EXCEPT ![rec[t]] = loaded[t]]
    BY <1>2, <1>4, <1>5, <1>10 DEF Loaded
  <1>11. CASE /\ pc[t] = "helpCas" /\ pc'[t] = "helpReload"
              /\ hazardPtr' = [hazardPtr EXCEPT ![gcAt[t]] = loaded[t]]
    BY <1>2, <1>4, <1>5, <1>11
  <1>12. QED
    BY <1>1, <1>6, <1>7, <1>8, <1>9, <1>10, <1>11 DEF RecordEffect

\* Another thread that is about to store a node was so before.
LEMMA LoadedBefore ==
  ASSUME RecInv, NEW t \in Threads, Step(t), NEW u \in Threads \ {t}, Loaded(u)'
  PROVE  Loaded(u) /\ loaded'[u] = loaded[u] /\ rec'[u] = rec[u] /\ rec[u] \in Records
         /\ loaded[u] \in Nodes /\ storePtr[rec[u]] \in Sources /\ hazardPtr'[rec[u]] = Reset
  <1>1. Same(u)
    BY OthersSame DEF RecInv
  <1>2. pc[u] = "casPtr" /\ hazardPtr'[rec[u]] = Reset
    BY <1>1 DEF Loaded, Same
  <1>3. rec[u] \in Records /\ loaded[u] \in Nodes /\ storePtr[rec[u]] \in Sources
    BY <1>2 DEF RecInv, TypeOK, ThreadOK, RecordOK, NodesOK
  <1>4. hazardPtr[rec[u]] = Reset
    BY <1>2, <1>3, OtherRecord
  <1>5. QED
    BY <1>1, <1>2, <1>3, <1>4 DEF Loaded, Same

\* What keeps nodes in use from being destroyed.
NodesHeld == HeapUnnamed /\ LoadedAlive /\ HelpedAlive /\ ScannedUnnamed /\ LoadedUnscanned /\ NamedAtStore

\* No step makes a record name a destroyed node, and none destroys a named one.
LEMMA HeapUnnamedKept ==
  ASSUME RecInv, NEW own, PlaceInv(own), TailInv(own), NodesHeld, NEW t \in Threads, Step(t)
  PROVE  HeapUnnamed'
  <1> SUFFICES ASSUME NEW n \in heap', NEW r \in Records, Named(r, n)' PROVE FALSE
    BY DEF HeapUnnamed
  <1>0. n \in Nodes
    BY TypeKept DEF TypeOK
  <1>1. \/ Named(r, n)
        \/ pc[t] = "casPtr" /\ Loaded(t) /\ n = loaded[t]
        \/ pc[t] = "helpCas" /\ n = loaded[t]
    BY <1>0, NamedBefore
  <1>2. CASE n \in heap
    BY <1>1, <1>2 DEF NodesHeld, HeapUnnamed, LoadedAlive, HelpedAlive
  <1>3. CASE pc[t] = "casNext" /\ n = new[t]
    <2>1. n \in Protected
      BY <1>1, <1>3 DEF Named, Protected
    <2>2. QED
      BY <1>3, <2>1 DEF TailInv, AppendOK
  <1>4. CASE pc[t] = "delete" /\ Doomed(t, n)
    BY <1>0, <1>1, <1>4 DEF NodesHeld, ScannedUnnamed, Scanned
  <1>5. QED
    BY <1>0, <1>2, <1>3, <1>4, HeapGrows

\* Nor does a step destroy a node that a thread is about to store.
LEMMA LoadedAliveKept ==
  ASSUME RecInv, NEW own, PlaceInv(own), TailInv(own), NodesHeld, NEW t \in Threads, Step(t)
  PROVE  LoadedAlive'
  <1> SUFFICES ASSUME NEW u \in Threads, Loaded(u)' PROVE loaded'[u] \notin heap'
    BY DEF LoadedAlive
  <1>1. CASE u = t
    <2>1. LoadSource(t)
      BY <1>1, CasPtrFollows DEF Loaded
    <2>2. loaded'[t] \in {headPtr, tailPtr} /\ heap' = heap
      BY <2>1 DEF LoadSource, Deref, RecInv, TypeOK
    <2>3. QED
      BY <1>1, <2>2, ListAlive DEF NodesHeld
  <1>2. CASE u # t
    <2>1. PICK n \in Nodes : n = loaded[u]
      BY <1>2, LoadedBefore
    <2>2. Loaded(u) /\ loaded'[u] = n
      BY <1>2, <2>1, LoadedBefore
    <2>3. n \notin heap /\ n \in Protected
      BY <2>1, <2>2 DEF NodesHeld, LoadedAlive, Protected
    <2>4. ~(pc[t] = "casNext" /\ n = new[t])
      BY <2>3 DEF TailInv, AppendOK
    <2>5. ~(pc[t] = "delete" /\ Doomed(t, n))
      BY <2>1, <2>2 DEF NodesHeld, LoadedUnscanned, Scanned
    <2>6. QED
      BY <2>2, <2>3, <2>4, <2>5, HeapGrows
  <1>3. QED
    BY <1>1, <1>2

\* Two threads in gcCollect are the same.
LEMMA CollectorAlone ==
  ASSUME ~CollectTogether, RecInv, NEW t \in Threads, NEW u \in Threads, pc[t] \in GcSteps, pc[u] \in GcSteps
  PROVE  t = u
  BY DEF CollectTogether

\* Or one that the collector is about to store.
LEMMA HelpedAliveKept ==
  ASSUME ~CollectTogether, RecInv, NEW own, PlaceInv(own), TailInv(own), NodesHeld, NEW t \in Threads, Step(t)
  PROVE  HelpedAlive'
  <1> SUFFICES ASSUME NEW u \in Threads, pc'[u] = "helpCas" PROVE loaded'[u] \notin heap'
    BY DEF HelpedAlive
  <1>1. CASE u = t
    <2>1. Stays(t) /\ (loaded'[t] = Reset \/ loaded'[t] \in {headPtr, tailPtr})
      <3>1. Enters(t) \/ (pc[t] = "delete" /\ pc'[t] = "storePtr") \/ Advances(t) \/ Stays(t)
        BY <1>1, CollectorSteps DEF Collects, GcSteps
      <3>2. QED
        BY <1>1, <3>1 DEF Enters, Advances, Stays
    <2>2. heap' = heap /\ Reset \notin heap
      BY <2>1, Values DEF Stays, RecInv, TypeOK
    <2>3. QED
      BY <1>1, <2>1, <2>2, ListAlive DEF NodesHeld
  <1>2. CASE u # t
    <2>1. pc[u] = "helpCas" /\ loaded'[u] = loaded[u]
      BY <1>2, OthersSame DEF RecInv, Same
    <2>2. PICK n \in Nodes \cup {Reset} : n = loaded[u]
      BY DEF RecInv, TypeOK
    <2>3. n \notin heap /\ n \in Protected
      BY <2>1, <2>2 DEF NodesHeld, HelpedAlive, Protected
    <2>4. ~(pc[t] = "casNext" /\ n = new[t])
      BY <2>3 DEF TailInv, AppendOK
    <2>5. pc[t] # "delete"
      BY <1>2, <2>1, CollectorAlone DEF GcSteps
    <2>6. n \in Nodes => n \notin heap'
      BY <2>3, <2>4, <2>5, HeapGrows
    <2>7. n = Reset => n \notin heap'
      BY TypeKept, Values DEF TypeOK
    <2>8. QED
      BY <2>1, <2>2, <2>6, <2>7
  <1>3. QED
    BY <1>1, <1>2

\* A node to be destroyed does not come into a record that was dealt with.
LEMMA ScannedUnnamedKept ==
  ASSUME ~CollectTogether, RecInv, NodesHeld, NEW t \in Threads, Step(t)
  PROVE  ScannedUnnamed'
  <1> SUFFICES ASSUME NEW c \in Threads, NEW n \in Nodes, NEW r \in Records,
                      Doomed(c, n)', Scanned(c, r)', Named(r, n)'
               PROVE  FALSE
    BY DEF ScannedUnnamed
  <1>1. \/ Named(r, n)
        \/ pc[t] = "casPtr" /\ r = rec[t] /\ Loaded(t) /\ n = loaded[t]
        \/ pc[t] = "helpCas" /\ pc'[t] = "helpReload" /\ r = gcAt[t]
    BY NamedBefore
  <1>2. Doomed(c, n) /\ Scanned(c, r) => ~Named(r, n)
    BY DEF NodesHeld, ScannedUnnamed
  <1>3. CASE c # t
    <2>1. Doomed(c, n) /\ Scanned(c, r)
      BY <1>3, OthersSame DEF RecInv, Same, Doomed, Scanned
    <2>2. ~(Loaded(t) /\ r = rec[t] /\ n = loaded[t])
      BY <2>1 DEF NodesHeld, LoadedUnscanned
    <2>3. pc[t] # "helpCas"
      BY <1>3, <2>1, CollectorAlone DEF Doomed, GcSteps
    <2>4. QED
      BY <1>1, <1>2, <2>1, <2>2, <2>3
  <1>4. CASE c = t
    <2>i. gcAt[t] \in 1 .. RecordsCount /\ r \in 1 .. RecordsCount /\ RecordsCount \in Nat
      BY HazardAssumption DEF RecInv, TypeOK, Records
    <2>1. Enters(t) \/ (pc[t] = "delete" /\ pc'[t] = "storePtr") \/ Advances(t) \/ Stays(t)
      BY <1>4, CollectorSteps DEF Collects, Doomed
    <2>2. CASE Enters(t)
      BY <1>4, <2>i, <2>2 DEF Enters, Scanned
    <2>3. CASE pc[t] = "delete" /\ pc'[t] = "storePtr"
      BY <1>4, <2>3 DEF Doomed, GcSteps
    <2>4. CASE Stays(t)
      <3>1. Doomed(t, n) /\ Scanned(t, r) /\ r # gcAt[t] /\ pc[t] # "casPtr"
        BY <1>4, <2>i, <2>4 DEF Stays, Doomed, Scanned, GcSteps
      <3>2. QED
        BY <1>1, <1>2, <1>4, <3>1
    <2>5. CASE Advances(t)
      <3>1. PICK v :
              /\ deleting'[t] = deleting[t]
              /\ referenced'[t] = referenced[t] \cup ({v} \cap Nodes)
              /\ IF gcAt[t] + 1 \in Records THEN gcAt'[t] = gcAt[t] + 1 /\ pc'[t] = "gcPtr" ELSE pc'[t] = "delete"
              /\ \/ pc[t] \in {"gcPtr", "helpPtr", "helpCas", "helpReload"} /\ v = hazardPtr[gcAt[t]]
                 \/ pc[t] = "gcStore" /\ storePtr[gcAt[t]] \notin Sources
        BY <2>5 DEF Advances
      <3>2. Doomed(t, n) /\ n # v
        BY <1>4, <3>1 DEF Doomed, GcSteps
      <3>3. Named(r, n)
        BY <1>1, <3>1
      <3>4. r < gcAt[t] \/ r = gcAt[t]
        BY <1>4, <2>i, <3>1 DEF Scanned, Records
      <3>5. r # gcAt[t]
        <4> SUFFICES ASSUME r = gcAt[t] PROVE FALSE
          OBVIOUS
        <4>1. hazardPtr[gcAt[t]] = n /\ \A u \in Threads : rec[u] = gcAt[t] => pc[u] # "clearPtr"
          BY <3>3 DEF Named
        <4>2. pc[t] = "gcStore" /\ storePtr[gcAt[t]] \notin Sources
          BY <3>1, <3>2, <4>1
        <4>3. QED
          BY <4>1, <4>2 DEF NodesHeld, NamedAtStore
      <3>6. QED
        BY <1>2, <1>4, <3>2, <3>3, <3>4, <3>5 DEF Scanned
    <2>6. QED
      BY <2>1, <2>2, <2>3, <2>4, <2>5
  <1>5. QED
    BY <1>3, <1>4

\* The node a thread loads is not about to be destroyed, since it is in the list.
LEMMA MoverLoads ==
  ASSUME RecInv, NEW own, PlaceInv(own), ~LoadsUnlinked,
         NEW t \in Threads, Step(t), LoadSource(t), NEW c \in Threads
  PROVE  ~Doomed(c, loaded[t])'
  <1> SUFFICES ASSUME Doomed(c, loaded[t])' PROVE FALSE
    OBVIOUS
  <1>1. pc[t] = "loadSource" /\ pc'[t] = "casPtr"
    BY DEF LoadSource, At, Goto, RecInv, TypeOK
  <1>2. PICK n \in {headPtr, tailPtr} : n = loaded'[t]
    BY DEF LoadSource, Deref, RecInv, TypeOK
  <1>3. n \in Nodes
    BY DEF RecInv, TypeOK
  <1>4. c # t
    BY <1>1 DEF Doomed, GcSteps
  <1>5. Doomed(c, n)
    BY <1>2, <1>4, OthersSame DEF RecInv, Same, Doomed
  <1>6. n \in Linked
    BY <1>1, <1>2, <1>5 DEF LoadsUnlinked, Doomed
  <1>7. own[n] = <<"deleting", c>>
    BY <1>3, <1>5 DEF Doomed, PlaceInv, Placed
  <1>8. QED
    BY <1>3, <1>6, <1>7, LinkedPlaces DEF In

\* A collector does not pass over the record a loaded node will be stored in: it
\* finds the source set, and then either its own CAS or the owner's comes first.
LEMMA LoadedUnscannedKept ==
  ASSUME ~CollectTogether, RecInv, NEW own, PlaceInv(own), TailInv(own), ~LoadsUnlinked,
         NodesHeld, NEW t \in Threads, Step(t)
  PROVE  LoadedUnscanned'
  <1> SUFFICES ASSUME NEW c \in Threads, NEW u \in Threads, Loaded(u)', Doomed(c, loaded[u])'
               PROVE  /\ ~Scanned(c, rec[u])'
                      /\ gcAt'[c] = rec'[u] => WillHelp(c)'
    BY DEF LoadedUnscanned
  <1>1. u # t
    <2>1. u = t => LoadSource(t)
      BY CasPtrFollows DEF Loaded
    <2>2. QED
      BY <2>1, MoverLoads
  <1>2. PICK n \in Nodes, r \in Records : n = loaded[u] /\ r = rec[u]
    BY <1>1, LoadedBefore
  <1>3. /\ Loaded(u) /\ loaded'[u] = n /\ rec'[u] = r /\ storePtr[r] \in Sources
        /\ hazardPtr[r] = Reset /\ hazardPtr'[r] = Reset
    BY <1>1, <1>2, LoadedBefore DEF Loaded
  <1>4. Doomed(c, n) => ~Scanned(c, r) /\ (gcAt[c] = r => WillHelp(c))
    BY <1>2, <1>3 DEF NodesHeld, LoadedUnscanned
  <1>5. Doomed(c, n)'
    BY <1>3 DEF Doomed
  <1>6. SUFFICES ~Scanned(c, r)' /\ (gcAt'[c] = r => WillHelp(c)')
    BY <1>3 DEF Scanned
  <1>i. gcAt[t] \in 1 .. RecordsCount /\ r \in 1 .. RecordsCount /\ RecordsCount \in Nat
    BY HazardAssumption DEF RecInv, TypeOK, Records
  <1>7. CASE c # t
    <2>1. Same(c)
      BY <1>7, OthersSame DEF RecInv
    <2>2. Doomed(c, n)
      BY <1>5, <2>1 DEF Same, Doomed
    <2>3. QED
      BY <1>4, <2>1, <2>2 DEF Same, Scanned, WillHelp
  <1>8. CASE c = t
    <2>1. Enters(t) \/ (pc[t] = "delete" /\ pc'[t] = "storePtr") \/ Advances(t) \/ Stays(t)
      BY <1>5, <1>8, CollectorSteps DEF Collects, Doomed
    <2>2. CASE Enters(t)
      BY <1>8, <1>i, <2>2 DEF Enters, Scanned, WillHelp
    <2>3. CASE pc[t] = "delete" /\ pc'[t] = "storePtr"
      BY <1>5, <1>8, <2>3 DEF Doomed, GcSteps
    <2>4. CASE Stays(t)
      <3>1. Doomed(t, n)
        BY <1>5, <1>8, <2>4 DEF Stays, Doomed, GcSteps
      <3>2. ~Scanned(t, r) /\ (gcAt[t] = r => WillHelp(t))
        BY <1>4, <1>8, <3>1
      <3>3. ~Scanned(t, r)'
        BY <2>4, <3>2 DEF Stays, Scanned
      <3>4. ASSUME gcAt'[t] = r PROVE WillHelp(t)'
        <4>1. gcAt[t] = r /\ WillHelp(t)
          BY <2>4, <3>2, <3>4 DEF Stays
        <4>2. hazardPtr \in [Records -> Nodes \cup {Reset, Free}] /\ headPtr \in Nodes /\ tailPtr \in Nodes
          BY DEF RecInv, TypeOK
        <4>3. ~(pc[t] = "helpCas" /\ hazardPtr' = [hazardPtr EXCEPT ![gcAt[t]] = loaded[t]])
          BY <1>3, <4>1, <4>2, Values DEF WillHelp
        <4>4. QED
          BY <1>3, <2>4, <4>1, <4>2, <4>3 DEF Stays, WillHelp
      <3>5. QED
        BY <1>8, <3>3, <3>4
    <2>5. CASE Advances(t)
      <3>1. Doomed(t, n)
        BY <1>5, <1>8, <2>5 DEF Advances, Doomed, GcSteps
      <3>2. ~Scanned(t, r) /\ (gcAt[t] = r => WillHelp(t))
        BY <1>4, <1>8, <3>1
      <3>3. gcAt[t] # r
        <4> SUFFICES ASSUME gcAt[t] = r PROVE FALSE
          OBVIOUS
        <4>1. hazardPtr[gcAt[t]] = Reset /\ storePtr[gcAt[t]] \in Sources
          BY <1>3
        <4>2. pc[t] = "helpCas" /\ Reset # expected[t]
          BY <2>5, <3>2, <4>1, Values DEF Advances, WillHelp
        <4>3. QED
          BY <3>2, <4>2 DEF WillHelp
      <3>4. gcAt[t] + 1 \in Records /\ gcAt[t] + 1 <= r
        BY <1>i, <3>2, <3>3 DEF Scanned, Records
      <3>5. gcAt'[t] = gcAt[t] + 1 /\ pc'[t] = "gcPtr"
        BY <2>5, <3>4 DEF Advances
      <3>6. QED
        BY <1>8, <1>i, <3>4, <3>5 DEF Scanned, WillHelp
    <2>6. QED
      BY <2>1, <2>2, <2>3, <2>4, <2>5
  <1>9. QED
    BY <1>7, <1>8

\* The source of a record is set before its pointer, and reset before it.
LEMMA NamedAtStoreKept ==
  ASSUME ~CollectTogether, RecInv, NodesHeld, NEW t \in Threads, Step(t)
  PROVE  NamedAtStore'
  <1> SUFFICES ASSUME NEW c \in Threads, pc'[c] = "gcStore", hazardPtr'[gcAt'[c]] \in Nodes
               PROVE  \E u \in Threads : /\ rec'[u] = gcAt'[c]
                                         /\ pc'[u] = "clearPtr" \/ storePtr'[gcAt'[c]] \in Sources
    BY DEF NamedAtStore
  <1>1. c # t
    <2> SUFFICES ASSUME c = t PROVE FALSE
      OBVIOUS
    <2>1. Enters(t) \/ (pc[t] = "delete" /\ pc'[t] = "storePtr") \/ Advances(t) \/ Stays(t)
      BY CollectorSteps DEF Collects, GcSteps
    <2>2. Stays(t)
      BY <2>1 DEF Enters, Advances
    <2>3. QED
      BY <2>2 DEF Stays
  <1>2. Same(c)
    BY <1>1, OthersSame DEF RecInv
  <1>3. PICK r \in Records : r = gcAt[c]
    BY DEF RecInv, TypeOK
  <1>4. pc[c] = "gcStore" /\ gcAt'[c] = r /\ hazardPtr'[r] \in Nodes
    BY <1>2, <1>3 DEF Same
  <1>5. pc[t] # "helpCas"
    BY <1>1, <1>4, CollectorAlone DEF GcSteps
  <1>6. RecordEffect(t) /\ StoreEffect(t)
    BY RecordsChange, StoresChange DEF RecInv
  <1>7. /\ hazardPtr \in [Records -> Nodes \cup {Reset, Free}] /\ storePtr \in [Records -> Sources \cup {Reset}]
        /\ source[t] \in Sources
    BY DEF RecInv, TypeOK
  <1>8. CASE hazardPtr[r] \in Nodes
    <2>1. PICK u \in Threads : rec[u] = r /\ (pc[u] = "clearPtr" \/ storePtr[r] \in Sources)
      BY <1>3, <1>4, <1>8 DEF NodesHeld, NamedAtStore
    <2>2. CASE u # t
      <3>1. rec'[u] = r /\ pc'[u] = pc[u] /\ storePtr'[r] = storePtr[r]
        BY <2>1, <2>2, OthersSame, OtherRecord DEF RecInv, Same
      <3>2. QED
        BY <1>4, <2>1, <3>1
    <2>3. CASE u = t
      <3>1. pc[t] # "acquire"
        BY <2>1, <2>3, Values DEF RecInv, ThreadOK, RecordOK
      <3>2. rec'[t] = r /\ pc[t] # "clearPtr"
        BY <1>4, <1>5, <1>6, <1>7, <2>1, <2>3, <3>1, Values DEF RecordEffect
      <3>3. storePtr'[r] \in Sources \/ pc'[t] = "clearPtr"
        BY <1>6, <1>7, <2>1, <2>3, <3>2 DEF StoreEffect
      <3>4. QED
        BY <1>4, <3>2, <3>3
    <2>4. QED
      BY <2>2, <2>3
  <1>9. CASE hazardPtr[r] \notin Nodes
    <2>1. pc[t] = "casPtr" /\ rec[t] = r /\ rec' = rec
      BY <1>4, <1>5, <1>6, <1>7, <1>9, Values DEF RecordEffect
    <2>2. storePtr[r] \in Sources
      BY <1>7, <2>1 DEF RecInv, ThreadOK, RecordOK
    <2>3. storePtr'[r] \in Sources
      BY <1>6, <2>1, <2>2 DEF StoreEffect
    <2>4. QED
      BY <1>4, <2>1, <2>3
  <1>10. QED
    BY <1>8, <1>9

\* The inductive invariant behind HeldNotDestroyed.
HeldInv ==
    /\ RecInv
    /\ \E own : PlaceInv(own) /\ TailInv(own)
    /\ NodesHeld

\* A step keeps all of these.
LEMMA NodesHeldKept ==
  ASSUME ~CollectTogether, RecInv, NEW own, PlaceInv(own), TailInv(own), ~LoadsUnlinked,
         NodesHeld, NEW t \in Threads, Step(t)
  PROVE  NodesHeld'
  <1>1. HeapUnnamed' /\ LoadedAlive' /\ HelpedAlive'
    BY HeapUnnamedKept, LoadedAliveKept, HelpedAliveKept
  <1>2. ScannedUnnamed' /\ LoadedUnscanned' /\ NamedAtStore'
    BY ScannedUnnamedKept, LoadedUnscannedKept, NamedAtStoreKept
  <1>3. QED
    BY <1>1, <1>2 DEF NodesHeld

\* So does no step.
LEMMA HeldUnmoved == ASSUME NodesHeld, UNCHANGED vars PROVE NodesHeld'
  BY DEF vars, listVars, recordVars, ringVars, useVars, gcVars, NodesHeld, HeapUnnamed,
         LoadedAlive, HelpedAlive,
         ScannedUnnamed, LoadedUnscanned, NamedAtStore, WillHelp, Named, Doomed, Scanned, Loaded

\* The invariant holds at the start.
LEMMA InitHeld == Init => HeldInv
  <1> SUFFICES ASSUME Init PROVE HeldInv
    OBVIOUS
  <1>1. RecInv /\ \E own : PlaceInv(own) /\ TailInv(own)
    BY InitRec, InitPlaces, InitTail
  <1>2. \A r \in Records : hazardPtr[r] \in {Reset, Free}
    BY DEF Init
  <1>3. \A t \in Threads : pc[t] = "idle"
    BY DEF Init
  <1>4. \A r \in Records : \A n \in Nodes : ~Named(r, n)
    BY <1>2, Values DEF Named
  <1>5. HeapUnnamed
    BY <1>1, <1>4 DEF HeapUnnamed, RecInv, TypeOK
  <1>6. LoadedAlive /\ HelpedAlive /\ ScannedUnnamed /\ LoadedUnscanned /\ NamedAtStore
    BY <1>3 DEF LoadedAlive, HelpedAlive, ScannedUnnamed, LoadedUnscanned, NamedAtStore, Doomed,
       Loaded, GcSteps
  <1>7. QED
    BY <1>1, <1>5, <1>6 DEF HeldInv, NodesHeld

\* A step with which nothing lapses keeps it.
LEMMA NextHeld ==
  ASSUME HeldInv, [Next]_vars, ~ReusesProtected, ~CollectTogether, ~LoadsUnlinked
  PROVE  HeldInv'
  <1>1. PICK own : PlaceInv(own) /\ TailInv(own)
    BY DEF HeldInv
  <1>2. RecInv /\ NodesHeld
    BY DEF HeldInv
  <1>3. CASE Next
    <2>1. PICK t \in Threads : Step(t)
      BY <1>3, StepOf
    <2>2. PICK o : PlaceInv(o)' /\ Relinked(own, o, t)
      BY <1>1, <1>2, <2>1, PlacesChange
    <2>3. TailInv(o)'
      BY <1>1, <1>2, <2>1, <2>2, TailKept
    <2>4. NodesHeld'
      BY <1>1, <1>2, <2>1, NodesHeldKept
    <2>5. QED
      BY <1>2, <2>2, <2>3, <2>4, NextRec DEF HeldInv
  <1>4. CASE UNCHANGED vars
    <2>1. PlaceInv(own)' /\ TailInv(own)'
      BY <1>1, <1>4, PlacesStay, TailUnmoved
    <2>2. QED
      BY <1>2, <1>4, <2>1, NextRec, HeldUnmoved DEF HeldInv
  <1>5. QED
    BY <1>3, <1>4

\* No node in use is destroyed.
LEMMA HeldInvGivesUsed == HeldInv => UsedAreAllocated
  <1> SUFFICES ASSUME HeldInv, NEW t \in Threads, Using(t) PROVE held[t] \notin heap
    BY DEF UsedAreAllocated
  <1>1. rec[t] \in Records /\ Named(rec[t], held[t])
    BY UsingNamed DEF HeldInv
  <1>2. QED
    BY <1>1 DEF HeldInv, NodesHeld, HeapUnnamed

\* Until one of the three things has happened, one thread collects at most, and the
\* invariant holds.
Protects == lapsed \in BOOLEAN /\ (~lapsed => HeldInv /\ ~CollectTogether)

LEMMA ProtectsInit == HistoryInit => Protects
  <1> SUFFICES ASSUME HistoryInit PROVE HeldInv /\ ~CollectTogether /\ lapsed \in BOOLEAN
    BY DEF Protects
  <1>1. HeldInv /\ (\A t \in Threads : pc[t] = "idle") /\ lapsed = FALSE
    BY InitHeld DEF HistoryInit, Init
  <1>2. QED
    BY <1>1 DEF CollectTogether, GcSteps

LEMMA ProtectsKept == ASSUME Protects, [HistoryNext]_<<vars, lapsed>> PROVE Protects'
  <1>1. CASE HistoryNext
    <2>1. lapsed' = (lapsed \/ ReusesProtected \/ CollectTogether' \/ LoadsUnlinked)
      BY <1>1 DEF HistoryNext
    <2>2. lapsed' \in BOOLEAN
      BY <2>1 DEF Protects
    <2>3. ASSUME ~lapsed' PROVE HeldInv' /\ ~CollectTogether'
      <3>1. ~lapsed /\ ~ReusesProtected /\ ~CollectTogether' /\ ~LoadsUnlinked
        BY <2>1, <2>3
      <3>2. QED
        BY <1>1, <3>1, NextHeld DEF HistoryNext, Protects
    <2>4. QED
      BY <2>2, <2>3 DEF Protects
  <1>2. CASE UNCHANGED <<vars, lapsed>>
    <2>1. UNCHANGED vars /\ lapsed' = lapsed
      BY <1>2
    <2>2. (CollectTogether' <=> CollectTogether) /\ ~ReusesProtected /\ ~LoadsUnlinked
      BY <2>1 DEF CollectTogether, ReusesProtected, LoadsUnlinked, At, vars
    <2>3. HeldInv /\ ~CollectTogether => HeldInv'
      BY <2>1, <2>2, NextHeld
    <2>4. QED
      BY <2>1, <2>2, <2>3 DEF Protects
  <1>3. QED
    BY <1>1, <1>2

\* For any number of threads, collectors, records and nodes: a node that setHazardPtr
\* returned is not destroyed while it is used, until a protected node is constructed
\* anew, two threads collect at once, or tail is loaded after head has overtaken it
\* while another thread collects.
THEOREM UsedNotDestroyed == HistorySpec => []HeldNotDestroyed
  <1>1. Protects => HeldNotDestroyed
    BY HeldInvGivesUsed DEF Protects, HeldNotDestroyed
  <1>2. QED
    BY <1>1, ProtectsInit, ProtectsKept, PTL DEF HistorySpec
=============================================================================
