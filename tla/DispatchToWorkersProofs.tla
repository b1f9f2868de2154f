----------------------- MODULE DispatchToWorkersProofs -----------------------
(***************************************************************************)
(* Proofs about DispatchPartition, for every number of workers and of      *)
(* indices: the groups cover the indices in order, and they are even.      *)
(* Then every behaviour of DispatchToWorkers is one of DispatchPartition,  *)
(* so that this holds of a call at run time.  Last what is particular to   *)
(* the call: the count of workers it divides by, where its groups go, and  *)
(* that the selection forces a job on a blocked worker only if it must.    *)
(***************************************************************************)
EXTENDS DispatchToWorkers, FiniteSetTheorems, TLAPS

\* Division with remainder of an index count by a number of groups.
LEMMA DivMod ==
    ASSUME NEW c \in Nat, NEW g \in Nat \ {0}
    PROVE  /\ c \div g \in Nat /\ c % g \in 0 .. g - 1
           /\ c = g * (c \div g) + (c % g)
  BY SMT

\* A first part of equal shares is no more than the whole.
LEMMA TimesMonotone ==
    ASSUME NEW m \in Nat, NEW n \in Nat, NEW q \in Nat, m <= n
    PROVE  m * q \in Nat /\ m * q <= n * q
  BY SMT

\* One share more.
LEMMA TimesSuccessor ==
    ASSUME NEW m \in Nat, NEW q \in Nat
    PROVE  (m + 1) * q = m * q + q
  BY SMT

-----------------------------------------------------------------------------
(* The inductive invariant.                                                 *)

\* The index after the last one that is in a group.
Covered == Follows(Len(groups) + 1)

\* Before the groups are made there is nothing.
NothingYet ==
    step \in {"parallelFor", "dispatch"} =>
        groups = <<>> /\ i = 0 /\ jobIdx = 0 /\ serial = 0

\* A task for each index: the indices below i have theirs.
TasksSoFar ==
    step = "oneTask" => serial = 0 /\ i <= count /\ Covered = i

\* The groups so far have jobsPerGrp indices each, and the first ones one of
\* the remainder besides.
GroupsSoFar ==
    step \in {"groupMore", "group"} =>
        /\ serial = 0 /\ grpCount \in 1 .. WorkersCount /\ count \div grpCount # 0
        /\ i <= grpCount /\ Covered = jobIdx
        /\ step = "groupMore" => i <= count % grpCount /\ jobIdx = i * (count \div grpCount) + i
        /\ step = "group" => i >= count % grpCount /\ jobIdx = i * (count \div grpCount) + (count % grpCount)

PartitionInv == TypeOK /\ CoversInOrder /\ NothingYet /\ TasksSoFar /\ GroupsSoFar

\* How Follows changes when a group is appended.
LEMMA AppendFollows ==
    ASSUME NEW from \in 0 .. MaxCount, NEW n \in 1 .. MaxCount,
           TypeOK, CoversInOrder, from = Covered,
           groups' = Append(groups, Group(from, n))
    PROVE  /\ groups' \in Seq([from : 0 .. MaxCount, count : 1 .. MaxCount])
           /\ Covered' = from + n
           /\ \A k \in 1 .. Len(groups') : groups'[k].from = Follows(k)'
<1> DEFINE G == [from : 0 .. MaxCount, count : 1 .. MaxCount]
<1>1. groups \in Seq(G)
  BY DEF TypeOK
<1>2. Group(from, n) \in G /\ Group(from, n).from = from /\ Group(from, n).count = n
  BY DEF Group
<1>3. groups' \in Seq(G) /\ Len(groups') = Len(groups) + 1 /\ Len(groups) \in Nat
  BY <1>1, <1>2
<1>4. /\ \A k \in 1 .. Len(groups) : groups'[k] = groups[k]
      /\ groups'[Len(groups) + 1] = Group(from, n)
  BY <1>1, <1>2
<1>5. Covered' = from + n
  <2>1. Len(groups') + 1 # 1 /\ (Len(groups') + 1) - 1 = Len(groups) + 1
    BY <1>3
  <2>2. Covered' = groups'[Len(groups) + 1].from + groups'[Len(groups) + 1].count
    BY <2>1 DEF Covered, Follows
  <2> QED
    BY <2>2, <1>4, <1>2
<1>6. ASSUME NEW k \in 1 .. Len(groups')
      PROVE  groups'[k].from = Follows(k)'
  <2>1. CASE k \in 1 .. Len(groups)
    <3>1. groups[k].from = Follows(k)
      BY <2>1 DEF CoversInOrder
    <3>2. Follows(k)' = Follows(k)
      BY <1>4, <2>1, <1>3 DEF Follows
    <3> QED
      BY <3>1, <3>2, <1>4, <2>1
  <2>2. CASE k = Len(groups) + 1
    <3>1. groups'[k].from = from
      BY <2>2, <1>4, <1>2
    <3>2. Follows(k)' = Follows(k)
      BY <2>2, <1>4, <1>3 DEF Follows
    <3> QED
      BY <3>1, <3>2, <2>2 DEF Covered
  <2> QED
    BY <2>1, <2>2, <1>3
<1> QED
  BY <1>3, <1>5, <1>6

\* The invariant holds before the first group.
LEMMA InitPartition == Init => PartitionInv
<1> SUFFICES ASSUME Init PROVE PartitionInv
  OBVIOUS
<1>0. WorkersCount \in Nat \ {0} /\ MaxCount \in Nat
  BY PartitionAssumption
<1>1. TypeOK
  BY <1>0 DEF Init, TypeOK
<1>2. CoversInOrder /\ NothingYet /\ TasksSoFar /\ GroupsSoFar
  BY <1>0 DEF Init, CoversInOrder, NothingYet, TasksSoFar, GroupsSoFar
<1> QED
  BY <1>1, <1>2 DEF PartitionInv

\* Every step keeps the invariant.
LEMMA NextPartition == PartitionInv /\ [Next]_vars => PartitionInv'
<1> SUFFICES ASSUME PartitionInv, [Next]_vars PROVE PartitionInv'
  OBVIOUS
<1> USE PartitionAssumption
<1>t. TypeOK /\ CoversInOrder /\ NothingYet /\ TasksSoFar /\ GroupsSoFar
  BY DEF PartitionInv
<1>1. CASE ParallelFor
  <2>1. PICK g \in 1 .. WorkersCount : count' = total - CallerShare(g)
    BY <1>1 DEF ParallelFor
  <2>2. count' \in 0 .. total
    <3>1. g \in Nat \ {0} /\ total \in Nat
      BY <1>t DEF TypeOK
    <3> DEFINE a == total \div g
    <3> DEFINE b == total % g
    <3>2. a \in Nat /\ b \in 0 .. g - 1 /\ total = g * a + b
      BY <3>1, DivMod
    <3>3. 1 * a <= g * a /\ g * a \in Nat
      BY <3>1, <3>2, TimesMonotone
    <3>4. CallerShare(g) = a + (IF b > 0 THEN 1 ELSE 0)
      BY DEF CallerShare
    <3> HIDE DEF a, b
    <3> QED
      BY <2>1, <3>1, <3>2, <3>3, <3>4
  <2>3. TypeOK'
    BY <1>1, <1>t, <2>2 DEF ParallelFor, TypeOK, NothingYet
  <2>4. CoversInOrder'
    BY <1>1, <1>t DEF ParallelFor, CoversInOrder, Follows
  <2> QED
    BY <1>1, <1>t, <2>3, <2>4
    DEF ParallelFor, PartitionInv, NothingYet, TasksSoFar, GroupsSoFar
<1>2. CASE DispatchNothing
  <2>1. TypeOK'
    BY <1>2, <1>t DEF DispatchNothing, TypeOK
  <2>2. CoversInOrder'
    BY <1>2, <1>t DEF DispatchNothing, CoversInOrder, Follows, NothingYet
  <2> QED
    BY <1>2, <1>t, <2>1, <2>2
    DEF DispatchNothing, PartitionInv, NothingYet, TasksSoFar, GroupsSoFar
<1>3. CASE DispatchSerially
  <2>1. TypeOK'
    BY <1>3, <1>t DEF DispatchSerially, TypeOK
  <2>2. CoversInOrder'
    BY <1>3, <1>t DEF DispatchSerially, CoversInOrder, Follows, NothingYet, TypeOK
  <2> QED
    BY <1>3, <1>t, <2>1, <2>2
    DEF DispatchSerially, PartitionInv, NothingYet, TasksSoFar, GroupsSoFar
<1>4. CASE DispatchOneGroup
  <2>1. groups = <<>> /\ serial = 0 /\ count \in 1 .. MaxCount /\ 0 \in 0 .. MaxCount
    BY <1>4, <1>t DEF DispatchOneGroup, NothingYet, TypeOK
  <2>2. groups' = Append(groups, Group(0, count)) /\ 0 = Covered
    BY <1>4, <2>1 DEF DispatchOneGroup, Covered, Follows
  <2>3. /\ groups' \in Seq([from : 0 .. MaxCount, count : 1 .. MaxCount])
        /\ Covered' = 0 + count
        /\ \A k \in 1 .. Len(groups') : groups'[k].from = Follows(k)'
    BY <1>t, <2>1, <2>2, AppendFollows
  <2>4. TypeOK'
    BY <1>4, <1>t, <2>3 DEF DispatchOneGroup, TypeOK
  <2>5. CoversInOrder'
    BY <1>4, <1>t, <2>1, <2>3 DEF DispatchOneGroup, CoversInOrder, Covered, TypeOK
  <2> QED
    BY <1>4, <1>t, <2>4, <2>5
    DEF DispatchOneGroup, PartitionInv, NothingYet, TasksSoFar, GroupsSoFar
<1>5. CASE DispatchGroups
  <2>1. groups = <<>> /\ i = 0 /\ jobIdx = 0 /\ serial = 0 /\ count \in Nat
    BY <1>5, <1>t DEF DispatchGroups, NothingYet, TypeOK
  <2>2. grpCount' \in 1 .. WorkersCount /\ grpCount' \in Nat \ {0}
    BY <1>5 DEF DispatchGroups
  <2>3. count % grpCount' \in 0 .. grpCount' - 1 /\ count \div grpCount' \in Nat
    BY <2>1, <2>2, DivMod
  <2>4. /\ step' \in {"oneTask", "groupMore"}
        /\ step' = "groupMore" => count \div grpCount' # 0
    BY <1>5 DEF DispatchGroups
  <2>5. UNCHANGED <<returning, hasWorkers, total, count, i, jobIdx, groups, serial>>
    BY <1>5 DEF DispatchGroups
  <2>6. Covered' = 0
    BY <2>1, <2>5 DEF Covered, Follows
  <2>7. TypeOK'
    BY <1>t, <2>2, <2>4, <2>5 DEF TypeOK
  <2>8. CoversInOrder'
    BY <1>t, <2>4, <2>5 DEF CoversInOrder, Follows
  <2>9. NothingYet' /\ TasksSoFar'
    BY <2>1, <2>4, <2>5, <2>6 DEF NothingYet, TasksSoFar
  <2>10. GroupsSoFar'
    <3>1. 0 * (count \div grpCount') + 0 = 0
      BY <2>3
    <3>2. 0 <= count % grpCount' /\ 0 <= grpCount'
      BY <2>2, <2>3
    <3> QED
      BY <2>1, <2>2, <2>4, <2>5, <2>6, <3>1, <3>2 DEF GroupsSoFar
  <2> QED
    BY <2>7, <2>8, <2>9, <2>10 DEF PartitionInv
<1>6. CASE OneTask
  <2>1. i \in Nat /\ i <= count /\ count \in 0 .. MaxCount /\ serial = 0 /\ Covered = i
    BY <1>6, <1>t DEF OneTask, TypeOK, TasksSoFar
  <2>2. CASE i < count
    <3>1. groups' = Append(groups, Group(i, 1)) /\ i' = i + 1 /\ step' = "oneTask"
      BY <1>6, <2>2 DEF OneTask
    <3>2. i \in 0 .. MaxCount /\ 1 \in 1 .. MaxCount
      BY <2>1, <2>2
    <3>3. /\ groups' \in Seq([from : 0 .. MaxCount, count : 1 .. MaxCount])
          /\ Covered' = i + 1
          /\ \A k \in 1 .. Len(groups') : groups'[k].from = Follows(k)'
      BY <1>t, <2>1, <3>1, <3>2, AppendFollows
    <3>4. TypeOK'
      BY <1>6, <1>t, <2>1, <2>2, <3>1, <3>3 DEF OneTask, TypeOK
    <3>5. CoversInOrder'
      BY <3>1, <3>3 DEF CoversInOrder
    <3> QED
      BY <1>6, <2>1, <2>2, <3>1, <3>3, <3>4, <3>5
      DEF OneTask, PartitionInv, NothingYet, TasksSoFar, GroupsSoFar
  <2>3. CASE ~(i < count)
    <3>1. step' = "done" /\ Covered = count /\ UNCHANGED <<groups, i, serial, count>>
      BY <1>6, <2>1, <2>3 DEF OneTask
    <3>2. TypeOK'
      BY <1>6, <1>t, <2>3 DEF OneTask, TypeOK
    <3>3. CoversInOrder'
      BY <1>t, <2>1, <3>1 DEF CoversInOrder, Follows, Covered
    <3> QED
      BY <3>1, <3>2, <3>3 DEF PartitionInv, NothingYet, TasksSoFar, GroupsSoFar
  <2> QED
    BY <2>2, <2>3
<1>7. CASE GroupMore
  <2>1. /\ count \in Nat /\ i \in Nat /\ grpCount \in Nat \ {0} /\ i <= grpCount
        /\ step = "groupMore" /\ serial = 0 /\ Covered = jobIdx
        /\ count \div grpCount # 0
        /\ i <= count % grpCount /\ jobIdx = i * (count \div grpCount) + i
    BY <1>7, <1>t DEF GroupMore, TypeOK, GroupsSoFar
  <2> DEFINE q == count \div grpCount
  <2> DEFINE r == count % grpCount
  <2>2. /\ q \in Nat \ {0} /\ r \in 0 .. grpCount - 1
        /\ count = grpCount * q + r
    BY <2>1, DivMod
  <2>3. CASE i < r
    <3>1. (i + 1) * q = i * q + q /\ i * q \in Nat /\ (i + 1) * q <= grpCount * q
      <4>1. i + 1 <= grpCount /\ i + 1 \in Nat /\ q \in Nat /\ grpCount \in Nat
        BY <2>1, <2>2, <2>3
      <4>2. i * q \in Nat
        BY <2>1, <4>1, TimesMonotone
      <4> HIDE DEF q, r
      <4> QED
        BY <2>1, <4>1, <4>2, TimesMonotone, TimesSuccessor
    <3>2. /\ groups' = Append(groups, Group(jobIdx, q + 1)) /\ step' = "groupMore"
          /\ jobIdx' = jobIdx + (q + 1) /\ i' = i + 1
          /\ UNCHANGED <<returning, hasWorkers, total, count, grpCount, serial>>
      BY <1>7, <2>3 DEF GroupMore, AddGroup, jobsPerGrp, grpsWithMoreJobCount
    <3>3. jobIdx' = (i + 1) * q + (i + 1) /\ jobIdx' <= count /\ i + 1 <= r /\ jobIdx = i * q + i
      <4>1. jobIdx = i * q + i /\ r \in Nat /\ q \in Nat
        BY <2>1, <2>2
      <4> HIDE DEF q, r
      <4> QED
        BY <2>1, <2>2, <2>3, <3>1, <3>2, <4>1
    <3>4. jobIdx \in 0 .. MaxCount /\ q + 1 \in 1 .. MaxCount /\ i' <= count /\ i + 1 <= grpCount
      <4>1. count <= MaxCount /\ MaxCount \in Nat
        BY <1>t DEF TypeOK
      <4>2. i + 1 <= (i + 1) * q + (i + 1)
        <5>1. i + 1 \in Nat /\ q \in Nat
          BY <2>1, <2>2
        <5>2. (i + 1) * q \in Nat
          BY <5>1, TimesMonotone
        <5> HIDE DEF q
        <5> QED
          BY <2>1, <5>2
      <4> HIDE DEF q, r
      <4> QED
        BY <2>1, <2>2, <3>1, <3>2, <3>3, <4>1, <4>2
    <3>5. /\ groups' \in Seq([from : 0 .. MaxCount, count : 1 .. MaxCount])
          /\ Covered' = jobIdx + (q + 1)
          /\ \A k \in 1 .. Len(groups') : groups'[k].from = Follows(k)'
      <4> HIDE DEF q, r
      <4> QED
        BY <1>t, <2>1, <3>2, <3>4, AppendFollows
    <3>6. TypeOK'
      <4> HIDE DEF q, r
      <4> QED
        BY <1>t, <2>1, <2>2, <3>1, <3>2, <3>3, <3>4, <3>5 DEF TypeOK
    <3>7. CoversInOrder' /\ NothingYet' /\ TasksSoFar'
      BY <3>2, <3>5 DEF CoversInOrder, NothingYet, TasksSoFar
    <3>8. GroupsSoFar'
      <4>1. count' \div grpCount' = q /\ count' % grpCount' = r
        BY <3>2
      <4>2. q # 0 /\ grpCount' \in 1 .. WorkersCount
        BY <2>2, <3>2, <1>t, <2>1 DEF GroupsSoFar
      <4> HIDE DEF q, r
      <4> QED
        BY <2>1, <3>2, <3>3, <3>4, <3>5, <4>1, <4>2 DEF GroupsSoFar
    <3> QED
      BY <3>6, <3>7, <3>8 DEF PartitionInv
  <2>4. CASE ~(i < r)
    <3>1. i = r /\ step' = "group"
          /\ UNCHANGED <<returning, hasWorkers, total, count, grpCount, i, jobIdx, groups, serial>>
      BY <1>7, <2>1, <2>2, <2>4 DEF GroupMore, grpsWithMoreJobCount
    <3>2. TypeOK'
      BY <1>t, <3>1 DEF TypeOK
    <3>3. CoversInOrder' /\ NothingYet' /\ TasksSoFar' /\ Covered' = jobIdx'
      BY <1>t, <2>1, <3>1 DEF CoversInOrder, Follows, Covered, NothingYet, TasksSoFar
    <3>4. GroupsSoFar'
      <4>1. count' \div grpCount' = q /\ count' % grpCount' = r /\ jobIdx = i * q + i
        BY <2>1, <3>1
      <4>2. q # 0 /\ grpCount' \in 1 .. WorkersCount
        BY <2>2, <3>1, <1>t, <2>1 DEF GroupsSoFar
      <4> HIDE DEF q, r
      <4> QED
        BY <2>1, <2>2, <3>1, <3>3, <4>1, <4>2 DEF GroupsSoFar
    <3> QED
      BY <3>2, <3>3, <3>4 DEF PartitionInv
  <2> QED
    BY <2>3, <2>4
<1>8. CASE GroupRest
  <2>1. /\ count \in Nat /\ i \in Nat /\ grpCount \in Nat \ {0} /\ i <= grpCount
        /\ step = "group" /\ serial = 0 /\ Covered = jobIdx
        /\ count \div grpCount # 0
        /\ i >= count % grpCount
        /\ jobIdx = i * (count \div grpCount) + (count % grpCount)
    BY <1>8, <1>t DEF GroupRest, TypeOK, GroupsSoFar
  <2> DEFINE q == count \div grpCount
  <2> DEFINE r == count % grpCount
  <2>2. /\ q \in Nat \ {0} /\ r \in 0 .. grpCount - 1
        /\ count = grpCount * q + r
    BY <2>1, DivMod
  <2>3. CASE i < grpCount
    <3>1. (i + 1) * q = i * q + q /\ i * q \in Nat /\ (i + 1) * q <= grpCount * q
      <4>1. i + 1 <= grpCount /\ i + 1 \in Nat /\ q \in Nat /\ grpCount \in Nat
        BY <2>1, <2>2, <2>3
      <4>2. i * q \in Nat
        BY <2>1, <4>1, TimesMonotone
      <4> HIDE DEF q, r
      <4> QED
        BY <2>1, <4>1, <4>2, TimesMonotone, TimesSuccessor
    <3>2. /\ groups' = Append(groups, Group(jobIdx, q)) /\ step' = "group"
          /\ jobIdx' = jobIdx + q /\ i' = i + 1
          /\ UNCHANGED <<returning, hasWorkers, total, count, grpCount, serial>>
      BY <1>8, <2>1, <2>3 DEF GroupRest, AddGroup, jobsPerGrp
    <3>3. jobIdx' = (i + 1) * q + r /\ jobIdx' <= count /\ i + 1 >= r /\ jobIdx = i * q + r
      <4>1. jobIdx = i * q + r /\ r \in Nat /\ q \in Nat
        BY <2>1, <2>2
      <4> HIDE DEF q, r
      <4> QED
        BY <2>1, <2>2, <2>3, <3>1, <3>2, <4>1
    <3>4. jobIdx \in 0 .. MaxCount /\ q \in 1 .. MaxCount /\ i' <= count /\ i + 1 <= grpCount
      <4>1. count <= MaxCount /\ MaxCount \in Nat
        BY <1>t DEF TypeOK
      <4>2. i + 1 <= (i + 1) * q
        BY <2>1, <2>2, TimesMonotone
      <4> HIDE DEF q, r
      <4> QED
        BY <2>1, <2>2, <2>3, <3>1, <3>2, <3>3, <4>1, <4>2
    <3>5. /\ groups' \in Seq([from : 0 .. MaxCount, count : 1 .. MaxCount])
          /\ Covered' = jobIdx + q
          /\ \A k \in 1 .. Len(groups') : groups'[k].from = Follows(k)'
      <4> HIDE DEF q, r
      <4> QED
        BY <1>t, <2>1, <3>2, <3>4, AppendFollows
    <3>6. TypeOK'
      <4> HIDE DEF q, r
      <4> QED
        BY <1>t, <2>1, <2>2, <3>1, <3>2, <3>3, <3>4, <3>5 DEF TypeOK
    <3>7. CoversInOrder' /\ NothingYet' /\ TasksSoFar'
      BY <3>2, <3>5 DEF CoversInOrder, NothingYet, TasksSoFar
    <3>8. GroupsSoFar'
      <4>1. count' \div grpCount' = q /\ count' % grpCount' = r
        BY <3>2
      <4>2. q # 0 /\ grpCount' \in 1 .. WorkersCount
        BY <2>2, <3>2, <1>t, <2>1 DEF GroupsSoFar
      <4> HIDE DEF q, r
      <4> QED
        BY <2>1, <3>2, <3>3, <3>4, <3>5, <4>1, <4>2 DEF GroupsSoFar
    <3> QED
      BY <3>6, <3>7, <3>8 DEF PartitionInv
  <2>4. CASE ~(i < grpCount)
    <3>1. step' = "done"
          /\ UNCHANGED <<returning, hasWorkers, total, count, grpCount, i, jobIdx, groups, serial>>
      BY <1>8, <2>1, <2>4 DEF GroupRest
    <3>2. Covered = count
      <4>1. i = grpCount /\ jobIdx = i * q + r
        BY <2>1, <2>4
      <4> HIDE DEF q, r
      <4> QED
        BY <2>1, <2>2, <4>1
    <3>3. TypeOK'
      BY <1>t, <3>1 DEF TypeOK
    <3>4. CoversInOrder'
      BY <1>t, <2>1, <3>1, <3>2 DEF CoversInOrder, Follows, Covered
    <3> QED
      BY <3>1, <3>3, <3>4 DEF PartitionInv, NothingYet, TasksSoFar, GroupsSoFar
  <2> QED
    BY <2>3, <2>4
<1>9. CASE UNCHANGED vars
  <2>1. TypeOK' /\ CoversInOrder'
    BY <1>9, <1>t DEF vars, TypeOK, CoversInOrder, Follows
  <2>2. NothingYet' /\ TasksSoFar' /\ GroupsSoFar'
    BY <1>9, <1>t DEF vars, NothingYet, TasksSoFar, GroupsSoFar, Covered, Follows
  <2> QED
    BY <2>1, <2>2 DEF PartitionInv
<1> QED
  BY <1>1, <1>2, <1>3, <1>4, <1>5, <1>6, <1>7, <1>8, <1>9 DEF Next

\* Every variable of a call of dispatch or parallelFor keeps its type, for
\* every number of indices and of workers.
THEOREM TypeCorrect == Spec => []TypeOK
<1>1. PartitionInv => TypeOK
  BY DEF PartitionInv
<1> QED
  BY <1>1, InitPartition, NextPartition, PTL DEF Spec

\* The groups of dispatch and the share of parallelFor's caller cover every
\* index once and in order, for every number of indices and of workers.
THEOREM IndicesCovered == Spec => []CoversInOrder
<1>1. PartitionInv => CoversInOrder
  BY DEF PartitionInv
<1> QED
  BY <1>1, InitPartition, NextPartition, PTL DEF Spec
-----------------------------------------------------------------------------
(* The groups are even.                                                     *)

\* The groups so far: how many they are, and how large.
EvenSoFar ==
    /\ step = "oneTask" =>
          /\ grpCount \in Nat /\ count < grpCount
          /\ Len(groups) = i
          /\ \A k \in 1 .. Len(groups) : groups[k].count = 1
    /\ step \in {"groupMore", "group"} =>
          /\ Len(groups) = i
          /\ \A k \in 1 .. Len(groups) :
                groups[k].count \in {count \div grpCount, (count \div grpCount) + 1}

EvenInv == PartitionInv /\ SpreadsEvenly /\ EvenSoFar

\* A group of n indices joins groups whose sizes are all in C, as n is.
LEMMA AppendSizes ==
    ASSUME NEW from, NEW n, NEW C, TypeOK, n \in C,
           \A k \in 1 .. Len(groups) : groups[k].count \in C,
           groups' = Append(groups, Group(from, n))
    PROVE  /\ Len(groups') = Len(groups) + 1
           /\ \A k \in 1 .. Len(groups') : groups'[k].count \in C
<1> DEFINE G == [from : 0 .. MaxCount, count : 1 .. MaxCount]
<1>1. groups \in Seq(G) /\ Len(groups) \in Nat
  BY DEF TypeOK
<1>2. Len(groups') = Len(groups) + 1
  BY <1>1
<1>3. \A k \in 1 .. Len(groups) : groups'[k] = groups[k]
  BY <1>1
<1>4. groups'[Len(groups) + 1] = Group(from, n)
  BY <1>1
<1>5. ASSUME NEW k \in 1 .. Len(groups') PROVE groups'[k].count \in C
  <2>1. CASE k \in 1 .. Len(groups)
    BY <1>3, <2>1
  <2>2. CASE k = Len(groups) + 1
    BY <1>4, <2>2 DEF Group
  <2> QED
    BY <1>1, <1>2, <2>1, <2>2
<1> QED
  BY <1>2, <1>5

LEMMA InitEven == Init => EvenInv
<1> SUFFICES ASSUME Init PROVE EvenInv
  OBVIOUS
<1>1. SpreadsEvenly /\ EvenSoFar
  BY DEF Init, SpreadsEvenly, EvenSoFar
<1> QED
  BY <1>1, InitPartition DEF EvenInv

LEMMA NextEven == EvenInv /\ [Next]_vars => EvenInv'
<1> SUFFICES ASSUME EvenInv, [Next]_vars PROVE EvenInv'
  OBVIOUS
<1> USE PartitionAssumption
<1>t. PartitionInv /\ TypeOK /\ NothingYet /\ GroupsSoFar /\ SpreadsEvenly /\ EvenSoFar
  BY DEF EvenInv, PartitionInv
<1>p. PartitionInv'
  BY <1>t, NextPartition
<1>n. groups \in Seq([from : 0 .. MaxCount, count : 1 .. MaxCount]) /\ Len(groups) \in Nat
  BY <1>t DEF TypeOK
<1>1. CASE ParallelFor
  BY <1>1, <1>p DEF ParallelFor, EvenInv, SpreadsEvenly, EvenSoFar
<1>2. CASE DispatchNothing \/ DispatchSerially
  <2>1. groups' = <<>> /\ step' = "done" /\ grpCount' = grpCount /\ grpCount \in Nat
    BY <1>2, <1>t DEF DispatchNothing, DispatchSerially, NothingYet, TypeOK
  <2> QED
    BY <2>1, <1>p DEF EvenInv, SpreadsEvenly, EvenSoFar
<1>3. CASE DispatchOneGroup
  BY <1>3, <1>p DEF DispatchOneGroup, EvenInv, SpreadsEvenly, EvenSoFar
<1>4. CASE DispatchGroups
  <2>1. groups' = <<>> /\ i' = 0 /\ count' = count /\ count \in Nat
    BY <1>4, <1>t DEF DispatchGroups, NothingYet, TypeOK
  <2>2. grpCount' \in Nat \ {0}
    BY <1>4 DEF DispatchGroups
  <2>3. step' = IF count \div grpCount' = 0 THEN "oneTask" ELSE "groupMore"
    BY <1>4 DEF DispatchGroups
  <2>4. CASE count \div grpCount' = 0
    <3>1. /\ count % grpCount' \in 0 .. grpCount' - 1
          /\ count = grpCount' * 0 + (count % grpCount')
      BY <2>1, <2>2, <2>4, DivMod
    <3>2. count < grpCount'
      BY <2>2, <3>1
    <3>3. step' = "oneTask"
      BY <2>3, <2>4
    <3> QED
      BY <1>p, <2>1, <2>2, <3>2, <3>3 DEF EvenInv, SpreadsEvenly, EvenSoFar
  <2>5. CASE count \div grpCount' # 0
    <3>1. step' = "groupMore"
      BY <2>3, <2>5
    <3>2. Len(groups') = i' /\ \A k \in 1 .. Len(groups') : FALSE
      BY <2>1
    <3> QED
      BY <1>p, <3>1, <3>2 DEF EvenInv, SpreadsEvenly, EvenSoFar
  <2> QED
    BY <2>4, <2>5
<1>5. CASE OneTask
  <2>1. /\ step = "oneTask" /\ grpCount \in Nat /\ count < grpCount /\ Len(groups) = i
        /\ \A k \in 1 .. Len(groups) : groups[k].count \in {1}
        /\ UNCHANGED <<hasWorkers, count, grpCount>>
    BY <1>5, <1>t DEF OneTask, EvenSoFar
  <2>2. CASE i < count
    <3>1. groups' = Append(groups, Group(i, 1)) /\ i' = i + 1 /\ step' = "oneTask"
      BY <1>5, <2>1, <2>2 DEF OneTask
    <3>2. Len(groups') = Len(groups) + 1 /\ \A k \in 1 .. Len(groups') : groups'[k].count \in {1}
      BY <1>t, <2>1, <3>1, AppendSizes
    <3> QED
      BY <1>p, <2>1, <3>1, <3>2 DEF EvenInv, SpreadsEvenly, EvenSoFar
  <2>3. CASE ~(i < count)
    <3>1. step' = "done" /\ groups' = groups
      BY <1>5, <2>3 DEF OneTask
    <3>2. Len(groups) <= grpCount
      BY <2>1, <1>p, <1>t, <1>n, <3>1 DEF PartitionInv, TasksSoFar, TypeOK
    <3> QED
      BY <1>p, <2>1, <3>1, <3>2 DEF EvenInv, SpreadsEvenly, EvenSoFar
  <2> QED
    BY <2>2, <2>3
<1>6. CASE GroupMore \/ GroupRest
  <2> DEFINE q == count \div grpCount
  <2>1. /\ step \in {"groupMore", "group"} /\ Len(groups) = i
        /\ \A k \in 1 .. Len(groups) : groups[k].count \in {q, q + 1}
        /\ count \in Nat /\ grpCount \in Nat \ {0} /\ i \in Nat /\ i <= grpCount
        /\ UNCHANGED <<hasWorkers, count, grpCount>>
    BY <1>6, <1>t DEF GroupMore, GroupRest, EvenSoFar, GroupsSoFar, TypeOK
  <2>2. q \in Nat
    BY <2>1, DivMod
  <2>3. \/ /\ \E n \in {q, q + 1} : groups' = Append(groups, Group(jobIdx, n))
           /\ i' = i + 1 /\ step' \in {"groupMore", "group"}
        \/ groups' = groups /\ i' = i /\ step' \in {"group", "done"}
    BY <1>6 DEF GroupMore, GroupRest, AddGroup, jobsPerGrp
  <2>q. q' = q
    BY <2>1
  <2>4. CASE groups' = groups /\ i' = i /\ step' \in {"group", "done"}
    <3>1. SpreadsEvenly'
      <4> HIDE DEF q
      <4> QED
        BY <2>1, <2>2, <2>4 DEF SpreadsEvenly
    <3>2. EvenSoFar'
      BY <2>1, <2>q, <2>4 DEF EvenSoFar
    <3> QED
      BY <1>p, <3>1, <3>2 DEF EvenInv
  <2>5. CASE /\ \E n \in {q, q + 1} : groups' = Append(groups, Group(jobIdx, n))
             /\ i' = i + 1 /\ step' \in {"groupMore", "group"}
    <3>1. PICK n \in {q, q + 1} : groups' = Append(groups, Group(jobIdx, n))
      BY <2>5
    <3>2. /\ Len(groups') = Len(groups) + 1
          /\ \A k \in 1 .. Len(groups') : groups'[k].count \in {q, q + 1}
      <4> HIDE DEF q
      <4> QED
        BY <1>t, <2>1, <3>1, AppendSizes
    <3>3. EvenSoFar'
      BY <2>1, <2>q, <2>5, <3>2 DEF EvenSoFar
    <3>4. SpreadsEvenly'
      BY <2>5 DEF SpreadsEvenly
    <3> QED
      BY <1>p, <3>3, <3>4 DEF EvenInv
  <2> QED
    BY <2>3, <2>4, <2>5
<1>7. CASE UNCHANGED vars
  BY <1>7, <1>t, <1>p DEF vars, EvenInv, SpreadsEvenly, EvenSoFar
<1> QED
  BY <1>1, <1>2, <1>3, <1>4, <1>5, <1>6, <1>7 DEF Next

\* No worker's group is more than one index larger than another's, and there
\* are no more groups than workers, for every number of indices and of workers.
THEOREM GroupsEven == Spec => []SpreadsEvenly
<1>1. EvenInv => SpreadsEvenly
  BY DEF EvenInv
<1> QED
  BY <1>1, InitEven, NextEven, PTL DEF Spec

-----------------------------------------------------------------------------
(* A call at run time.                                                      *)

LEMMA CallStepIsPartitionStep == [CallNext]_allVars => [Next]_vars
<1> SUFFICES ASSUME [CallNext]_allVars PROVE [Next]_vars
  OBVIOUS
<1>0. CASE CountWorker \/ OtherEnqueue
  BY <1>0 DEF CountWorker, OtherEnqueue
<1>1. CASE CountForCaller
  BY <1>1 DEF CountForCaller, Next
<1>2. CASE DispatchElsewhere
  BY <1>2 DEF DispatchElsewhere, Next
<1>3. CASE MakeGuard
  BY <1>3 DEF MakeGuard
<1>4. CASE CountForGroups
  BY <1>4 DEF CountForGroups, Next
<1>5. CASE MakeGroup
  BY <1>5 DEF MakeGroup, Next
<1>6. CASE EndGroups
  BY <1>6 DEF EndGroups, Next
<1>7. CASE SelectWorker
  BY <1>7 DEF SelectWorker
<1>8. CASE PushGroup
  BY <1>8 DEF PushGroup
<1>9. CASE EndGuard
  BY <1>9 DEF EndGuard
<1>10. CASE \E w \in Workers : OtherGuard(w)
  BY <1>10 DEF OtherGuard
<1>11. CASE UNCHANGED allVars
  BY <1>11 DEF allVars
<1> QED
  BY <1>0, <1>1, <1>2, <1>3, <1>4, <1>5, <1>6, <1>7, <1>8, <1>9, <1>10, <1>11 DEF CallNext

\* A call whose groups are enqueued one by one, with a number of workers that
\* is counted at run time, is a call of DispatchPartition.
THEOREM CallIsPartition == CallSpec => Spec
<1>1. CallInit => Init
  BY DEF CallInit
<1> QED
  BY <1>1, CallStepIsPartitionStep, PTL DEF CallSpec, Spec

\* So its groups cover every index once and in order.
THEOREM CallCovers == CallSpec => []CoversInOrder
  BY CallIsPartition, IndicesCovered, PTL

\* And they are even.
THEOREM CallSpreadsEvenly == CallSpec => []SpreadsEvenly
  BY CallIsPartition, GroupsEven, PTL

-----------------------------------------------------------------------------
(* The types of what the call meets, and the caller's own count.            *)

TargetType ==
    /\ caller \in 0 .. WorkersCount
    /\ nextEnqToQ \in 0 .. Wrap - 1
    /\ blockedEnqCounter \in [Workers -> Int]
    /\ guard \in [Workers -> {"none", "temporary", "held"}]
    /\ call \in [{Dispatcher} -> [step : Target!Steps, threadIdx : Workers, checked : Nat]]
    /\ received \in [Workers -> Nat]

\* Only the temporary of dispatch blocks the caller's own worker, and it goes
\* before anything is counted for it.
CallerCounted ==
    caller \in Workers =>
        /\ blockedEnqCounter[caller] <= IF guard[caller] = "temporary" THEN 1 ELSE 0
        /\ guard[caller] = "temporary" => bSafeDispatch /\ Groups
        /\ step = "parallelFor" => guard[caller] = "none"

CallerGuards == TargetType /\ CallerCounted

\* While the workers are counted: the caller, once it is looked at, is among those
\* counted as available.
CountSoFar ==
    /\ counted \in Nat /\ counted <= WorkersCount
    /\ availabeWorkersCount \in Nat /\ availabeWorkersCount <= counted
    /\ counted > 0 => Counting
    /\ caller \in Workers /\ caller < counted => availabeWorkersCount >= 1

CallerInv == CallerGuards /\ CountSoFar

LEMMA WorkersType ==
    /\ Workers = 0 .. WorkersCount - 1 /\ WorkersCount \in Nat \ {0} /\ 0 \in Workers
    /\ Wrap \in Nat /\ Wrap >= WorkersCount
    /\ \A n \in Nat : n % WorkersCount \in Workers
<1>1. WorkersCount \in Nat \ {0} /\ Wrap \in Nat /\ Wrap >= WorkersCount
  BY CallAssumption DEF Target!TargetAssumption
<1> QED
  BY <1>1, DivMod DEF Workers, Target!Workers

LEMMA FetchType ==
    ASSUME nextEnqToQ \in 0 .. Wrap - 1, Target!FetchNext
    PROVE  /\ nextEnqToQ' \in 0 .. Wrap - 1
           /\ nextEnqToQ' = nextEnqToQ + 1 \/ (nextEnqToQ' = 0 /\ nextEnqToQ = Wrap - 1)
<1>1. nextEnqToQ + 1 \in 1 .. Wrap /\ Wrap \in Nat \ {0}
  BY WorkersType
<1>2. CASE nextEnqToQ + 1 = Wrap
  <2>1. Wrap % Wrap = 0
    BY <1>1
  <2> QED
    BY <1>1, <1>2, <2>1 DEF Target!FetchNext
<1>3. CASE nextEnqToQ + 1 # Wrap
  BY <1>1, <1>3 DEF Target!FetchNext
<1> QED
  BY <1>2, <1>3

LEMMA InitCaller == CallInit => CallerInv
<1> SUFFICES ASSUME CallInit PROVE CallerInv
  OBVIOUS
<1>1. blockedEnqCounter \in [Workers -> {-1, 0}]
  BY DEF CallInit
<1>2. call \in [{Dispatcher} -> [step : Target!Steps, threadIdx : Workers, checked : Nat]]
  BY WorkersType DEF CallInit, Target!Idle, Target!Steps
<1>3. TargetType
  BY <1>1, <1>2, WorkersType DEF CallInit, TargetType
<1>4. CallerCounted
  <2>1. guard = [w \in Workers |-> "none"] /\ \A w \in Workers : blockedEnqCounter[w] <= 0
    BY <1>1 DEF CallInit
  <2> QED
    BY <2>1 DEF CallerCounted
<1>5. CountSoFar
  <2>1. counted = 0 /\ availabeWorkersCount = 0 /\ caller \in 0 .. WorkersCount
    BY DEF CallInit
  <2> QED
    BY <2>1, WorkersType DEF CountSoFar
<1> QED
  BY <1>3, <1>4, <1>5 DEF CallerInv, CallerGuards

\* A guard of worker w changes.
LEMMA GuardChanges ==
    ASSUME TargetType, NEW w \in Workers,
           Target!Block(w, "held") \/ Target!Block(w, "temporary")
             \/ Target!DestroyTemporary(w) \/ Target!Unblock(w)
    PROVE  /\ blockedEnqCounter' \in [Workers -> Int]
           /\ guard' \in [Workers -> {"none", "temporary", "held"}]
           /\ UNCHANGED <<nextEnqToQ, call>>
           /\ \A v \in Workers \ {w} : blockedEnqCounter'[v] = blockedEnqCounter[v] /\ guard'[v] = guard[v]
           /\ Target!Block(w, "temporary") =>
                 /\ guard[w] = "none" /\ guard'[w] = "temporary"
                 /\ blockedEnqCounter'[w] = blockedEnqCounter[w] + 1
           /\ Target!DestroyTemporary(w) =>
                 /\ guard[w] = "temporary" /\ guard'[w] = "held"
                 /\ blockedEnqCounter'[w] = blockedEnqCounter[w] - 1
           /\ Target!Unblock(w) =>
                 /\ guard[w] = "held" /\ guard'[w] = "none"
                 /\ blockedEnqCounter'[w] = blockedEnqCounter[w] - 1
<1>1. UNCHANGED <<nextEnqToQ, call>>
  BY DEF Target!Block, Target!DestroyTemporary, Target!Unblock
<1>2. \E m \in {"none", "temporary", "held"} : guard' = [guard EXCEPT ![w] = m]
  BY DEF Target!Block, Target!DestroyTemporary, Target!Unblock
<1>3. \E d \in {-1, 1} : blockedEnqCounter' = [blockedEnqCounter EXCEPT ![w] = @ + d]
  BY DEF Target!Block, Target!DestroyTemporary, Target!Unblock, Target!Changed
<1>4. /\ blockedEnqCounter' \in [Workers -> Int]
      /\ guard' \in [Workers -> {"none", "temporary", "held"}]
      /\ \A v \in Workers \ {w} : blockedEnqCounter'[v] = blockedEnqCounter[v] /\ guard'[v] = guard[v]
  BY <1>2, <1>3 DEF TargetType
<1>5. Target!Block(w, "temporary") =>
        /\ guard[w] = "none" /\ guard'[w] = "temporary"
        /\ blockedEnqCounter'[w] = blockedEnqCounter[w] + 1
  BY DEF TargetType, Target!Block, Target!Changed
<1>6. Target!DestroyTemporary(w) =>
        /\ guard[w] = "temporary" /\ guard'[w] = "held"
        /\ blockedEnqCounter'[w] = blockedEnqCounter[w] - 1
  BY DEF TargetType, Target!DestroyTemporary, Target!Changed
<1>7. Target!Unblock(w) =>
        /\ guard[w] = "held" /\ guard'[w] = "none"
        /\ blockedEnqCounter'[w] = blockedEnqCounter[w] - 1
  BY DEF TargetType, Target!Unblock, Target!Changed
<1> QED
  BY <1>1, <1>4, <1>5, <1>6, <1>7

\* The selection of a worker keeps to its types.
LEMMA SelectionType ==
    ASSUME TargetType,
           Target!BeginEnqueue(Dispatcher) \/ Target!TestWorker(Dispatcher) \/ Target!NextWorker(Dispatcher)
    PROVE  /\ nextEnqToQ' \in 0 .. Wrap - 1
           /\ call' \in [{Dispatcher} -> [step : Target!Steps, threadIdx : Workers, checked : Nat]]
           /\ UNCHANGED <<blockedEnqCounter, guard>>
<1>1. call[Dispatcher] \in [step : Target!Steps, threadIdx : Workers, checked : Nat]
  BY DEF TargetType
<1>w. nextEnqToQ % WorkersCount \in Workers
  <2>1. nextEnqToQ \in Nat /\ WorkersCount \in Nat \ {0}
    BY WorkersType DEF TargetType
  <2>2. nextEnqToQ % WorkersCount \in 0 .. WorkersCount - 1
    BY <2>1, DivMod
  <2> QED
    BY <2>2, WorkersType
<1>2. CASE Target!BeginEnqueue(Dispatcher)
  <2>1. /\ Target!FetchNext /\ UNCHANGED <<blockedEnqCounter, guard>>
        /\ call' = [call EXCEPT ![Dispatcher] =
                       [step |-> "test", threadIdx |-> nextEnqToQ % WorkersCount, checked |-> 0]]
    BY <1>2 DEF Target!BeginEnqueue, Target!Draw, Target!Drawn
  <2>2. [step |-> "test", threadIdx |-> nextEnqToQ % WorkersCount, checked |-> 0]
          \in [step : Target!Steps, threadIdx : Workers, checked : Nat]
    BY <1>w DEF Target!Steps
  <2> QED
    BY <2>1, <2>2, FetchType DEF TargetType
<1>3. CASE Target!TestWorker(Dispatcher)
  BY <1>1, <1>3 DEF TargetType, Target!TestWorker, Target!AfterTest, Target!Steps
<1>4. CASE Target!NextWorker(Dispatcher)
  <2>1. /\ Target!FetchNext /\ UNCHANGED <<blockedEnqCounter, guard>>
        /\ call' = [call EXCEPT ![Dispatcher] =
                       [step |-> "test", threadIdx |-> nextEnqToQ % WorkersCount,
                        checked |-> call[Dispatcher].checked + 1]]
    BY <1>1, <1>4 DEF Target!NextWorker, Target!Draw, Target!Drawn, TargetType
  <2>2. [step |-> "test", threadIdx |-> nextEnqToQ % WorkersCount,
         checked |-> call[Dispatcher].checked + 1]
          \in [step : Target!Steps, threadIdx : Workers, checked : Nat]
    BY <1>1, <1>w DEF Target!Steps
  <2> QED
    BY <2>1, <2>2, FetchType DEF TargetType
<1> QED
  BY <1>2, <1>3, <1>4

LEMMA NextGuards == CallerGuards /\ [CallNext]_allVars => CallerGuards'
<1> SUFFICES ASSUME CallerGuards, [CallNext]_allVars PROVE CallerGuards'
  OBVIOUS
<1>t. TargetType /\ CallerCounted
  BY DEF CallerGuards
<1>1. CASE CountForCaller \/ DispatchElsewhere \/ EndGroups
  <2>1. UNCHANGED <<caller, bSafeDispatch, nextEnqToQ, blockedEnqCounter, guard, call, received>>
    BY <1>1 DEF CountForCaller, CountReturns, DispatchElsewhere, EndGroups, targetVars, callVars, historyVars
  <2>2. step' = "parallelFor" => step = "parallelFor"
    BY <1>1 DEF CountForCaller, DispatchElsewhere, EndGroups, ParallelFor, DispatchNothing,
                DispatchSerially, DispatchOneGroup, OneTask, GroupMore, GroupRest
  <2>3. ~(caller \in Workers /\ guard[caller] = "temporary")
    BY <1>t, <1>1 DEF CallerCounted, Groups, CountForCaller, DispatchElsewhere, EndGroups, ParallelFor,
                      DispatchNothing, DispatchSerially, DispatchOneGroup, OneTask, GroupMore, GroupRest
  <2> QED
    BY <1>t, <2>1, <2>2, <2>3 DEF CallerGuards, TargetType, CallerCounted
<1>2. CASE MakeGuard
  <2>1. /\ Groups /\ bSafeDispatch /\ caller \in Workers /\ Target!Block(caller, "temporary")
        /\ UNCHANGED <<vars, caller, bSafeDispatch, received>>
    BY <1>2 DEF MakeGuard, Guarded, callVars, historyVars
  <2>2. TargetType'
    BY <1>t, <2>1, GuardChanges DEF TargetType
  <2>3. Groups' /\ guard'[caller] = "temporary" /\ blockedEnqCounter'[caller] <= 1
    BY <1>t, <2>1, GuardChanges DEF Groups, vars, CallerCounted, TargetType
  <2> QED
    BY <2>1, <2>2, <2>3 DEF CallerGuards, CallerCounted, Groups
<1>3. CASE CountForGroups
  <2>1. /\ step = "dispatch" /\ (Guarded => guard[caller] = "held")
        /\ step' \in {"oneTask", "groupMore"}
        /\ UNCHANGED <<caller, bSafeDispatch, nextEnqToQ, blockedEnqCounter, guard, call, received>>
    BY <1>3 DEF CountForGroups, CountReturns, Counting, DispatchGroups, targetVars, callVars, historyVars
  <2>2. ~(caller \in Workers /\ guard[caller] = "temporary")
    BY <1>t, <2>1 DEF CallerCounted, Guarded
  <2> QED
    BY <1>t, <2>1, <2>2 DEF CallerGuards, TargetType, CallerCounted
<1>4. CASE MakeGroup \/ SelectWorker
  <2>1. /\ UNCHANGED <<caller, bSafeDispatch, received>>
        /\ Target!BeginEnqueue(Dispatcher) \/ Target!TestWorker(Dispatcher) \/ Target!NextWorker(Dispatcher)
    BY <1>4 DEF MakeGroup, SelectWorker, callVars
  <2>2. TargetType' /\ UNCHANGED <<blockedEnqCounter, guard>>
    BY <1>t, <2>1, SelectionType DEF TargetType
  <2>3. step' = "parallelFor" => step = "parallelFor"
    BY <1>4 DEF MakeGroup, SelectWorker, OneTask, GroupMore, GroupRest, vars
  <2>4. Groups => Groups'
    BY <1>4 DEF MakeGroup, SelectWorker, OneTask, GroupMore, GroupRest, Groups, vars
  <2> QED
    BY <1>t, <2>1, <2>2, <2>3, <2>4 DEF CallerGuards, CallerCounted
<1>5. CASE PushGroup
  <2>1. /\ UNCHANGED <<vars, caller, bSafeDispatch, nextEnqToQ, blockedEnqCounter, guard>>
        /\ call' = [call EXCEPT ![Dispatcher] = Target!Idle]
        /\ received' = IF undisturbed THEN [received EXCEPT ![call[Dispatcher].threadIdx] = @ + 1] ELSE received
    BY <1>5 DEF PushGroup, Target!Push, callVars
  <2>2. Target!Idle \in [step : Target!Steps, threadIdx : Workers, checked : Nat]
    BY WorkersType DEF Target!Idle, Target!Steps
  <2>3. received' \in [Workers -> Nat]
    BY <1>t, <2>1 DEF TargetType
  <2>4. TargetType'
    BY <1>t, <2>1, <2>2, <2>3 DEF TargetType
  <2> QED
    BY <1>t, <2>1, <2>4 DEF CallerGuards, CallerCounted, Groups, vars
<1>6. CASE EndGuard
  <2>1. /\ caller \in Workers
        /\ Target!DestroyTemporary(caller) \/ (step = "done" /\ Target!Unblock(caller))
        /\ UNCHANGED <<vars, caller, bSafeDispatch, received>>
    BY <1>6 DEF EndGuard, callVars, historyVars
  <2>2. TargetType'
    BY <1>t, <2>1, GuardChanges DEF TargetType
  <2>3. blockedEnqCounter'[caller] <= 0 /\ guard'[caller] # "temporary"
    BY <1>t, <2>1, GuardChanges DEF CallerCounted, TargetType
  <2>4. step' # "parallelFor"
    BY <1>t, <2>1, GuardChanges DEF CallerCounted, Groups, vars
  <2> QED
    BY <2>1, <2>2, <2>3, <2>4 DEF CallerGuards, CallerCounted
<1>7. CASE \E w \in Workers : OtherGuard(w)
  <2>1. PICK w \in Workers :
          /\ w # caller
          /\ Target!Block(w, "held") \/ Target!Block(w, "temporary")
               \/ Target!DestroyTemporary(w) \/ Target!Unblock(w)
          /\ UNCHANGED <<vars, caller, bSafeDispatch, received>>
    BY <1>7 DEF OtherGuard, callVars
  <2>2. TargetType'
    BY <1>t, <2>1, GuardChanges DEF TargetType
  <2>3. caller \in Workers => blockedEnqCounter'[caller] = blockedEnqCounter[caller]
                              /\ guard'[caller] = guard[caller]
    BY <1>t, <2>1, GuardChanges
  <2> QED
    BY <1>t, <2>1, <2>2, <2>3 DEF CallerGuards, CallerCounted, Groups, vars
<1>8. CASE OtherEnqueue
  <2>1. /\ Target!FetchNext
        /\ UNCHANGED <<vars, caller, bSafeDispatch, blockedEnqCounter, guard, call, received>>
    BY <1>8 DEF OtherEnqueue, Target!DrawElsewhere, callVars
  <2>2. TargetType'
    BY <1>t, <2>1, FetchType DEF TargetType
  <2> QED
    BY <1>t, <2>1, <2>2 DEF CallerGuards, CallerCounted, Groups, vars
<1>9. CASE UNCHANGED allVars \/ CountWorker
  BY <1>t, <1>9 DEF CountWorker, allVars, vars, targetVars, callVars, historyVars, CallerGuards, TargetType,
                    CallerCounted, Groups
<1> QED
  BY <1>1, <1>2, <1>3, <1>4, <1>5, <1>6, <1>7, <1>8, <1>9 DEF CallNext

\* When the workers are counted, the caller's own counter is not above zero.
LEMMA CallerAvailable ==
    ASSUME CallerGuards, Counting, caller \in Workers
    PROVE  blockedEnqCounter[caller] <= 0
<1>1. guard[caller] # "temporary"
  BY DEF CallerGuards, CallerCounted, Counting, Guarded, Groups
<1> QED
  BY <1>1 DEF CallerGuards, CallerCounted

\* Counting goes on whatever the other workers do.
LEMMA NextCount == CallerInv /\ [CallNext]_allVars => CountSoFar'
<1> SUFFICES ASSUME CallerInv, [CallNext]_allVars PROVE CountSoFar'
  OBVIOUS
<1>t. CallerGuards /\ TargetType /\ CallerCounted /\ CountSoFar
  BY DEF CallerInv, CallerGuards
<1>w. WorkersCount \in Nat \ {0}
  BY WorkersType
<1>1. ASSUME UNCHANGED <<counted, availabeWorkersCount, caller>>, counted > 0 => Counting' PROVE CountSoFar'
  BY <1>t, <1>1 DEF CountSoFar, Workers, Target!Workers
<1>2. ASSUME UNCHANGED <<vars, countVars, callVars>>, Guarded => guard'[caller] = guard[caller] PROVE CountSoFar'
  BY <1>t, <1>1, <1>2 DEF CountSoFar, Counting, Groups, Guarded, vars, countVars, callVars
<1>3. CASE CountWorker
  <2>1. /\ Counting /\ counted < WorkersCount /\ counted' = counted + 1
        /\ availabeWorkersCount' = availabeWorkersCount + (IF Available(counted) THEN 1 ELSE 0)
        /\ UNCHANGED <<vars, guard, caller, bSafeDispatch>>
    BY <1>3 DEF CountWorker, targetVars, callVars
  <2>2. Counting'
    BY <2>1 DEF Counting, Groups, Guarded, Workers, Target!Workers, vars
  <2>3. availabeWorkersCount' \in Nat /\ availabeWorkersCount' <= counted'
    BY <1>t, <2>1 DEF CountSoFar
  <2>4. ASSUME caller \in Workers, caller < counted' PROVE availabeWorkersCount' >= 1
    <3>1. CASE caller < counted
      BY <1>t, <2>1, <2>4, <3>1 DEF CountSoFar
    <3>2. CASE caller = counted
      <4>1. Available(counted)
        BY <1>t, <2>1, <2>4, <3>2, CallerAvailable DEF Available
      <4> QED
        BY <1>t, <2>1, <4>1 DEF CountSoFar
    <3> QED
      BY <1>t, <2>1, <2>4, <3>1, <3>2 DEF CountSoFar, TargetType
  <2> QED
    BY <1>t, <1>w, <2>1, <2>2, <2>3, <2>4 DEF CountSoFar, Workers, Target!Workers
<1>4. CASE CountForCaller \/ CountForGroups
  BY <1>4, <1>w DEF CountForCaller, CountForGroups, CountReturns, CountSoFar, callVars, Workers, Target!Workers
<1>5. CASE DispatchElsewhere \/ EndGroups \/ MakeGroup
  <2>1. ~Counting
    BY <1>5 DEF Counting, Groups, DispatchElsewhere, DispatchNothing, DispatchSerially, DispatchOneGroup,
                EndGroups, MakeGroup, OneTask, GroupMore, GroupRest
  <2> QED
    BY <1>t, <1>1, <1>5, <2>1 DEF CountSoFar, DispatchElsewhere, EndGroups, MakeGroup, countVars, callVars
<1>6. CASE MakeGuard \/ EndGuard
  <2>1. ~Counting
    <3>1. CASE MakeGuard
      BY <3>1 DEF MakeGuard, Counting, Groups, Target!Block
    <3>2. CASE EndGuard
      BY <1>t, <3>2 DEF EndGuard, Counting, Groups, Guarded, CallerCounted, Target!DestroyTemporary
    <3> QED
      BY <1>6, <3>1, <3>2
  <2> QED
    BY <1>t, <1>1, <1>6, <2>1 DEF CountSoFar, MakeGuard, EndGuard, countVars, callVars
<1>7. CASE SelectWorker \/ PushGroup \/ OtherEnqueue \/ UNCHANGED allVars
  <2>1. UNCHANGED <<vars, countVars, callVars, guard>>
    BY <1>7 DEF SelectWorker, PushGroup, OtherEnqueue, allVars, targetVars, Target!TestWorker,
                Target!NextWorker, Target!Push, Target!DrawElsewhere
  <2> QED
    BY <1>2, <2>1 DEF callVars
<1>8. CASE \E w \in Workers : OtherGuard(w)
  <2>1. PICK w \in Workers :
          /\ w # caller
          /\ Target!Block(w, "held") \/ Target!Block(w, "temporary")
               \/ Target!DestroyTemporary(w) \/ Target!Unblock(w)
          /\ UNCHANGED <<vars, countVars, callVars>>
    BY <1>8 DEF OtherGuard
  <2>2. Guarded => guard'[caller] = guard[caller]
    BY <1>t, <2>1, GuardChanges DEF Guarded
  <2> QED
    BY <1>2, <2>1, <2>2
<1> QED
  BY <1>3, <1>4, <1>5, <1>6, <1>7, <1>8 DEF CallNext

LEMMA NextCaller == CallerInv /\ [CallNext]_allVars => CallerInv'
  BY NextGuards, NextCount DEF CallerInv

\* A worker that dispatches never divides by zero, whatever the other workers
\* block and unblock, also between the loads of its count: its own count is not above
\* zero while it counts.
THEOREM DivisorIsPositive == CallSpec => []DivisorPositive
<1>1. ASSUME CallerInv PROVE DivisorPositive
  BY <1>1, WorkersType DEF CallerInv, CountSoFar, DivisorPositive
<1> QED
  BY <1>1, InitCaller, NextCaller, PTL DEF CallSpec

-----------------------------------------------------------------------------
(* The groups are apart.                                                    *)

Making == step \in {"oneTask", "groupMore", "group"}
InCall == call[Dispatcher].step # "idle"

\* How far the counter is settled: the last draw may still be looked at.
Settled == IF call[Dispatcher].step \in {"test", "push"} THEN nextEnqToQ - 1 ELSE nextEnqToQ

AvailableWorkers == {w \in Workers : blockedEnqCounter[w] <= 0}

\* The workers that the draws s .. e - 1 came to.
Drawn(s, e) == {w \in Workers : \E k \in s .. e - 1 : k % WorkersCount = w}

Given(s) == AvailableWorkers \cap Drawn(s, Settled)

\* The selection of a worker: what it has drawn, and that it ends at a worker
\* that accepts the job.
Selecting ==
    /\ call[Dispatcher].step = "push" => blockedEnqCounter[call[Dispatcher].threadIdx] = 0
    /\ call[Dispatcher].step = "next" => blockedEnqCounter[call[Dispatcher].threadIdx] # 0
    /\ call[Dispatcher].step # "force"

\* Since the workers were counted the counter has not gone round more than
\* once, and each worker it came to has a group unless it is blocked.
RoundFrom(s) ==
    /\ s <= nextEnqToQ /\ nextEnqToQ - s <= WorkersCount
    /\ InCall => /\ s < nextEnqToQ
                 /\ call[Dispatcher].threadIdx = (nextEnqToQ - 1) % WorkersCount
                 /\ call[Dispatcher].checked < nextEnqToQ - s
    /\ \A w \in Workers : received[w] = IF w \in Given(s) THEN 1 ELSE 0
    /\ i = Cardinality(Given(s)) + IF InCall THEN 1 ELSE 0

OneRound ==
    undisturbed /\ Making =>
        /\ \A w \in Workers : blockedEnqCounter[w] >= 0
        /\ grpCount = Cardinality(AvailableWorkers)
        /\ Selecting
        /\ \E s \in Nat : RoundFrom(s)

\* Before the groups are made: the workers looked at so far are counted right.
CountedApart ==
    step \in {"parallelFor", "dispatch"} =>
        /\ \A w \in Workers : received[w] = 0
        /\ undisturbed => /\ counted > 0 /\ Groups
                          /\ \A w \in Workers : blockedEnqCounter[w] >= 0
                          /\ availabeWorkersCount = Cardinality(AvailableWorkers \cap (0 .. counted - 1))

ApartInv ==
    /\ CallerInv
    /\ InCall => Making
    /\ CountedApart
    /\ OneRound
    /\ GroupsApart

-----------------------------------------------------------------------------
(* Remainders of consecutive numbers.                                       *)

\* The remainder is the one number below the divisor.
LEMMA RemainderIs ==
    ASSUME NEW d \in Nat \ {0}, NEW q \in Nat, NEW r \in 0 .. d - 1, NEW n \in Nat, n = q * d + r
    PROVE  n % d = r
<1>1. /\ n \div d \in Nat /\ n % d \in 0 .. d - 1
      /\ n = d * (n \div d) + (n % d)
  BY DivMod
<1> DEFINE p == n \div d
<1>2. n = p * d + (n % d) /\ p \in Nat
  BY <1>1
<1> HIDE DEF p
<1>3. p * d \in Nat /\ q * d \in Nat
  BY <1>2
<1>4. ~ p < q
  <2> SUFFICES ASSUME p < q PROVE FALSE
    OBVIOUS
  <2>1. p + 1 <= q /\ p + 1 \in Nat
    BY <1>2
  <2>2. (p + 1) * d <= q * d
    BY <2>1, TimesMonotone
  <2>3. (p + 1) * d = p * d + d
    BY <1>2, TimesSuccessor
  <2> QED
    BY <1>1, <1>2, <1>3, <2>2, <2>3
<1>5. ~ q < p
  <2> SUFFICES ASSUME q < p PROVE FALSE
    OBVIOUS
  <2>1. q + 1 <= p /\ q + 1 \in Nat
    BY <1>2
  <2>2. (q + 1) * d <= p * d
    BY <1>2, <2>1, TimesMonotone
  <2>3. (q + 1) * d = q * d + d
    BY TimesSuccessor
  <2> QED
    BY <1>1, <1>2, <1>3, <2>2, <2>3
<1>6. p = q
  BY <1>2, <1>4, <1>5
<1> QED
  BY <1>1, <1>2, <1>3, <1>6

\* Numbers less than the divisor apart have different remainders.
LEMMA RemaindersDiffer ==
    ASSUME NEW d \in Nat \ {0}, NEW m \in Nat, NEW n \in Nat, m < n, n - m < d
    PROVE  m % d # n % d
<1> SUFFICES ASSUME m % d = n % d PROVE FALSE
  OBVIOUS
<1> DEFINE p == m \div d
           q == n \div d
           r == m % d
<1>1. p \in Nat /\ r \in 0 .. d - 1 /\ m = d * p + r
  BY DivMod
<1>2. q \in Nat /\ n = d * q + r
  BY DivMod
<1> HIDE DEF p, q, r
<1>3. p * d \in Nat /\ q * d \in Nat /\ m = p * d + r /\ n = q * d + r
  BY <1>1, <1>2
<1>4. CASE q <= p
  <2>1. q * d <= p * d
    BY <1>1, <1>2, <1>4, TimesMonotone
  <2> QED
    BY <1>1, <1>3, <2>1
<1>5. CASE p + 1 <= q
  <2>1. p + 1 \in Nat
    BY <1>1
  <2>2. (p + 1) * d <= q * d
    BY <1>2, <1>5, <2>1, TimesMonotone
  <2>3. (p + 1) * d = p * d + d
    BY <1>1, TimesSuccessor
  <2> QED
    BY <1>1, <1>3, <2>2, <2>3
<1> QED
  BY <1>1, <1>2, <1>4, <1>5

\* The next draw comes to a worker that the draws before have not come to, if
\* they were fewer than the workers.
LEMMA DrawnMore ==
    ASSUME NEW s \in Nat, NEW e \in Nat, s <= e
    PROVE  /\ Drawn(s, e + 1) = Drawn(s, e) \cup {e % WorkersCount}
           /\ e - s < WorkersCount => e % WorkersCount \notin Drawn(s, e)
<1>1. e % WorkersCount \in Workers /\ WorkersCount \in Nat \ {0}
  BY WorkersType
<1>2. s .. (e + 1) - 1 = (s .. e - 1) \cup {e}
  OBVIOUS
<1>3. Drawn(s, e + 1) = Drawn(s, e) \cup {e % WorkersCount}
  BY <1>1, <1>2 DEF Drawn
<1>4. ASSUME e - s < WorkersCount, NEW k \in s .. e - 1 PROVE k % WorkersCount # e % WorkersCount
  <2>1. k \in Nat /\ k < e /\ e - k < WorkersCount
    BY <1>1, <1>4
  <2> QED
    BY <1>1, <2>1, RemaindersDiffer
<1>5. e - s < WorkersCount => e % WorkersCount \notin Drawn(s, e)
  BY <1>4 DEF Drawn
<1> QED
  BY <1>3, <1>5

\* As many draws as there are workers come to every one.
LEMMA AllDrawn ==
    ASSUME NEW s \in Nat
    PROVE  Drawn(s, s + WorkersCount) = Workers
<1> DEFINE d == WorkersCount
           q == s \div d
           r == s % d
<1>1. d \in Nat \ {0} /\ Workers = 0 .. d - 1
  BY WorkersType
<1>2. q \in Nat /\ r \in 0 .. d - 1 /\ s = d * q + r
  BY <1>1, DivMod
<1> HIDE DEF q, r
<1>3. q * d \in Nat /\ s = q * d + r /\ (q + 1) * d = q * d + d /\ q + 1 \in Nat
  BY <1>1, <1>2, TimesSuccessor
<1>4. ASSUME NEW w \in Workers PROVE \E k \in s .. (s + d) - 1 : k % d = w
  <2>1. CASE r <= w
    <3>1. q * d + w \in s .. (s + d) - 1 /\ q * d + w \in Nat
      BY <1>1, <1>2, <1>3, <2>1
    <3>2. (q * d + w) % d = w
      BY <1>1, <1>2, <3>1, RemainderIs
    <3> QED
      BY <3>1, <3>2
  <2>2. CASE w < r
    <3>1. (q + 1) * d + w \in s .. (s + d) - 1 /\ (q + 1) * d + w \in Nat
      BY <1>1, <1>2, <1>3, <2>2
    <3>2. \A p \in Nat : p * d + w \in Nat => (p * d + w) % d = w
      BY <1>1, RemainderIs
    <3>3. ((q + 1) * d + w) % d = w
      BY <1>3, <3>1, <3>2
    <3> QED
      BY <3>1, <3>3
  <2> QED
    BY <1>1, <1>2, <2>1, <2>2
<1> QED
  BY <1>4 DEF Drawn

-----------------------------------------------------------------------------

\* To append is to change.
LEMMA AppendDiffers ==
    ASSUME NEW S, NEW seq \in Seq(S), NEW x
    PROVE  Append(seq, x) # seq
<1>1. Len(Append(seq, x)) = Len(seq) + 1 /\ Len(seq) \in Nat
  OBVIOUS
<1> QED
  BY <1>1

\* The invariant of the groups holds in the beginning and is kept by every step.
LEMMA InitApart == CallInit => ApartInv
<1> SUFFICES ASSUME CallInit PROVE ApartInv
  OBVIOUS
<1>1. step \in {"parallelFor", "dispatch"} /\ ~undisturbed /\ ~InCall
  BY DEF CallInit, Init, InCall, Target!Idle
<1>2. \A w \in Workers : received[w] = 0
  BY DEF CallInit
<1> QED
  BY <1>1, <1>2, InitCaller DEF ApartInv, CountedApart, OneRound, GroupsApart

\* A step that changes nothing the groups depend on.
LEMMA KeepsApart ==
    ASSUME ApartInv,
           UNCHANGED <<nextEnqToQ, blockedEnqCounter, call, received, undisturbed, i>>,
           Making' => Making /\ grpCount' = grpCount,
           Making => Making' \/ ~InCall,
           step' \in {"parallelFor", "dispatch"} =>
               /\ step \in {"parallelFor", "dispatch"}
               /\ undisturbed => UNCHANGED <<counted, availabeWorkersCount>> /\ Groups',
           CallerInv'
    PROVE  ApartInv'
<1>1. (InCall' <=> InCall) /\ (InCall => Making')
  BY DEF ApartInv, InCall
<1>2. CountedApart'
  BY DEF ApartInv, CountedApart, AvailableWorkers
<1>3. GroupsApart'
  BY DEF ApartInv, GroupsApart
<1>4. ASSUME undisturbed', Making' PROVE OneRound'
  <2>1. \A s \in Nat : RoundFrom(s) => RoundFrom(s)'
    BY DEF RoundFrom, Given, Drawn, Settled, InCall, AvailableWorkers
  <2>2. AvailableWorkers' = AvailableWorkers /\ (Selecting => Selecting')
    BY DEF AvailableWorkers, Selecting
  <2> QED
    BY <1>4, <2>1, <2>2 DEF ApartInv, OneRound
<1> QED
  BY <1>1, <1>2, <1>3, <1>4 DEF ApartInv, OneRound

\* While a worker that accepts groups has none, the counter has not gone round.
LEMMA NotAllRound ==
    ASSUME TargetType, NEW s \in Nat, s <= nextEnqToQ, nextEnqToQ - s <= WorkersCount,
           Settled = nextEnqToQ, Cardinality(Given(s)) # Cardinality(AvailableWorkers)
    PROVE  nextEnqToQ - s < WorkersCount
<1> SUFFICES ASSUME nextEnqToQ - s >= WorkersCount PROVE FALSE
  BY WorkersType DEF TargetType
<1>1. nextEnqToQ = s + WorkersCount
  BY WorkersType DEF TargetType
<1>2. Drawn(s, Settled) = Workers
  BY <1>1, AllDrawn
<1>3. Given(s) = AvailableWorkers
  BY <1>2 DEF Given, AvailableWorkers
<1> QED
  BY <1>3

\* One more worker is looked at.
LEMMA CountOneMore ==
    ASSUME NEW n \in Workers,
           IsFiniteSet(AvailableWorkers \cap (0 .. n - 1))
    PROVE  Cardinality(AvailableWorkers \cap (0 .. (n + 1) - 1)) =
             Cardinality(AvailableWorkers \cap (0 .. n - 1)) + IF Available(n) THEN 1 ELSE 0
<1> DEFINE S == AvailableWorkers \cap (0 .. n - 1)
<1>1. n \in Nat /\ n \notin S /\ 0 .. (n + 1) - 1 = (0 .. n - 1) \cup {n}
  <2>1. n \in Nat
    BY WorkersType
  <2> QED
    BY <2>1
<1>2. Available(n) <=> n \in AvailableWorkers
  BY DEF AvailableWorkers, Available
<1>3. Cardinality(S) + 0 = Cardinality(S) /\ Cardinality(S \cup {n}) = Cardinality(S) + 1
  <2>1. Cardinality(S) \in Nat /\ Cardinality(S \cup {n}) = Cardinality(S) + 1
    BY <1>1, FS_AddElement, FS_CardinalityType
  <2> QED
    BY <2>1
<1>4. CASE Available(n)
  <2>1. AvailableWorkers \cap (0 .. (n + 1) - 1) = S \cup {n}
    BY <1>1, <1>2, <1>4
  <2> QED
    BY <1>3, <1>4, <2>1
<1>5. CASE ~Available(n)
  <2>1. AvailableWorkers \cap (0 .. (n + 1) - 1) = S
    BY <1>1, <1>2, <1>5
  <2> QED
    BY <1>3, <1>5, <2>1
<1> QED
  BY <1>4, <1>5

LEMMA NextApart == EvenInv /\ ApartInv /\ [CallNext]_allVars => ApartInv'
<1> SUFFICES ASSUME EvenInv, ApartInv, [CallNext]_allVars PROVE ApartInv'
  OBVIOUS
<1>c. CallerInv /\ CallerInv' /\ TargetType /\ TargetType'
  <2>1. CallerInv /\ CallerInv'
    BY NextCaller DEF ApartInv
  <2> QED
    BY <2>1 DEF CallerInv, CallerGuards
<1>w. /\ WorkersCount \in Nat \ {0} /\ Wrap \in Nat
      /\ nextEnqToQ \in Nat /\ nextEnqToQ' \in Nat /\ nextEnqToQ % WorkersCount \in Workers
      /\ call[Dispatcher] \in [step : Target!Steps, threadIdx : Workers, checked : Nat]
  <2>1. WorkersCount \in Nat \ {0} /\ Wrap \in Nat
    BY WorkersType
  <2>2. nextEnqToQ \in Nat /\ nextEnqToQ' \in Nat
    BY <1>c, <2>1 DEF TargetType
  <2>3. nextEnqToQ % WorkersCount \in Workers
    BY <2>2, WorkersType
  <2>4. call[Dispatcher] \in [step : Target!Steps, threadIdx : Workers, checked : Nat]
    BY <1>c DEF TargetType
  <2> QED
    BY <2>1, <2>2, <2>3, <2>4
<1>f. IsFiniteSet(Workers) /\ \A S \in SUBSET Workers : IsFiniteSet(S) /\ Cardinality(S) \in Nat
  <2>1. Workers = 0 .. WorkersCount - 1 /\ 0 \in Int /\ WorkersCount - 1 \in Int
    BY WorkersType
  <2>2. IsFiniteSet(Workers)
    BY <2>1, FS_Interval
  <2> QED
    BY <2>2, FS_Subset, FS_CardinalityType
<1>e. i \in Nat /\ (step \in {"groupMore", "group"} => i <= grpCount /\ grpCount \in Nat)
      /\ (step = "oneTask" => i <= count /\ count < grpCount /\ grpCount \in Nat /\ count \in Nat)
  BY PartitionAssumption DEF EvenInv, EvenSoFar, PartitionInv, GroupsSoFar, TasksSoFar, TypeOK
<1>1. CASE CountForCaller \/ DispatchElsewhere \/ EndGroups
  <2>1. UNCHANGED <<nextEnqToQ, blockedEnqCounter, call, received, undisturbed>>
    BY <1>1 DEF CountForCaller, CountReturns, DispatchElsewhere, EndGroups, targetVars, historyVars
  <2>2. CASE CountForCaller \/ DispatchElsewhere
    <3>1. step \in {"parallelFor", "dispatch"} /\ step' \in {"dispatch", "done"} /\ i' = i
      BY <2>2 DEF CountForCaller, DispatchElsewhere, ParallelFor, DispatchNothing,
                  DispatchSerially, DispatchOneGroup
    <3>2. step' = "dispatch" => ~undisturbed
      BY <2>2 DEF CountForCaller, DispatchElsewhere, ParallelFor, DispatchNothing,
                  DispatchSerially, DispatchOneGroup, ApartInv, CountedApart, Groups
    <3> QED
      BY <1>c, <2>1, <3>1, <3>2, KeepsApart DEF Making
  <2>3. CASE EndGroups
    <3>1. Making /\ ~InCall /\ groups' = groups /\ (OneTask \/ GroupMore \/ GroupRest)
      BY <2>3 DEF EndGroups, Making, InCall, OneTask, GroupMore, GroupRest
    <3>2. grpCount' = grpCount /\ i' = i /\ step' \in {"group", "done"}
      <4>1. \A x : groups' # Append(groups, x)
        BY <3>1, AppendDiffers DEF EvenInv, PartitionInv, TypeOK
      <4> QED
        BY <3>1, <4>1 DEF OneTask, GroupMore, GroupRest, AddGroup
    <3> QED
      BY <1>c, <2>1, <3>1, <3>2, KeepsApart DEF Making
  <2> QED
    BY <1>1, <2>2, <2>3
<1>2. CASE MakeGuard
  <2>1. step = "dispatch" /\ step' = "dispatch" /\ UNCHANGED <<received, undisturbed>>
    BY <1>2 DEF MakeGuard, Groups, vars, historyVars
  <2>2. call' = call
    BY <1>2 DEF MakeGuard, Target!Block
  <2>3. ~InCall /\ ~InCall'
    BY <2>1, <2>2 DEF ApartInv, InCall, Making
  <2>4. ~Counting
    BY <1>2 DEF MakeGuard, Counting, Groups, Target!Block
  <2>5. ~undisturbed
    BY <1>c, <2>1, <2>4 DEF ApartInv, CountedApart, CallerInv, CountSoFar
  <2> QED
    BY <1>c, <2>1, <2>3, <2>5 DEF ApartInv, CountedApart, OneRound, GroupsApart, Making
<1>3. CASE CountForGroups
  <2>1. /\ step = "dispatch" /\ step' \in {"oneTask", "groupMore"}
        /\ grpCount' = availabeWorkersCount /\ counted = WorkersCount
        /\ UNCHANGED <<nextEnqToQ, blockedEnqCounter, call, received, i, undisturbed>>
    BY <1>3 DEF CountForGroups, CountReturns, DispatchGroups, targetVars, historyVars
  <2>2. i = 0 /\ ~InCall /\ \A w \in Workers : received[w] = 0
    BY <2>1 DEF EvenInv, PartitionInv, NothingYet, ApartInv, CountedApart, Making
  <2>3. call[Dispatcher].step = "idle"
    BY <2>2 DEF InCall
  <2>4. Given(nextEnqToQ) = {}
    BY <1>w, <2>3 DEF Given, Drawn, Settled
  <2>5. PICK s \in Nat : s = nextEnqToQ
    BY <1>w
  <2>6. /\ Given(s)' = {} /\ InCall' = FALSE
    BY <1>w, <2>1, <2>2, <2>3, <2>5 DEF Given, Drawn, Settled, InCall
  <2>7. RoundFrom(s)'
    BY <1>w, <2>1, <2>2, <2>5, <2>6, FS_EmptySet DEF RoundFrom
  <2>8. AvailableWorkers' = AvailableWorkers /\ Selecting'
    BY <2>1, <2>3 DEF AvailableWorkers, Selecting
  <2>9. undisturbed => /\ \A w \in Workers : blockedEnqCounter[w] >= 0
                       /\ grpCount' = Cardinality(AvailableWorkers)
    <3>1. AvailableWorkers \cap (0 .. WorkersCount - 1) = AvailableWorkers
      BY WorkersType DEF AvailableWorkers
    <3> QED
      BY <2>1, <3>1 DEF ApartInv, CountedApart
  <2> QED
    BY <1>c, <2>1, <2>2, <2>6, <2>7, <2>8, <2>9 DEF ApartInv, CountedApart, OneRound, GroupsApart
<1>4. CASE MakeGroup
  <2>1. /\ Making /\ i < grpCount /\ i' = i + 1 /\ step' = step /\ grpCount' = grpCount
    <3>1. CASE OneTask
      BY <1>4, <1>e, <3>1 DEF MakeGroup, OneTask, Making
    <3>2. CASE GroupMore
      <4>1. /\ step = "groupMore" /\ i < count % grpCount /\ i' = i + 1 /\ step' = step /\ grpCount' = grpCount
        BY <1>4, <3>2 DEF MakeGroup, GroupMore, AddGroup, grpsWithMoreJobCount
      <4>2. grpCount \in 1 .. WorkersCount /\ count \in Nat
        BY <4>1, PartitionAssumption DEF EvenInv, PartitionInv, GroupsSoFar, TypeOK
      <4>3. count % grpCount \in 0 .. grpCount - 1
        BY <1>w, <4>2, DivMod
      <4> QED
        BY <1>e, <4>1, <4>2, <4>3 DEF Making
    <3>3. CASE GroupRest
      BY <1>4, <3>3 DEF MakeGroup, GroupRest, AddGroup, Making
    <3> QED
      BY <1>4, <3>1, <3>2, <3>3 DEF MakeGroup
  <2>2. /\ call[Dispatcher].step = "idle" /\ Target!FetchNext
        /\ call'[Dispatcher] = [step |-> "test", threadIdx |-> nextEnqToQ % WorkersCount, checked |-> 0]
        /\ undisturbed' = (undisturbed /\ nextEnqToQ' > nextEnqToQ)
        /\ UNCHANGED <<blockedEnqCounter, received>>
    BY <1>4, <1>c DEF MakeGroup, Target!BeginEnqueue, Target!Draw, Target!Drawn, TargetType
  <2>3. InCall' /\ Making'
    BY <2>1, <2>2 DEF InCall, Making
  <2>4. GroupsApart'
    BY <2>2 DEF ApartInv, GroupsApart
  <2>5. ASSUME undisturbed' PROVE OneRound'
    <3>1. undisturbed /\ nextEnqToQ' = nextEnqToQ + 1
      <4>1. nextEnqToQ' = nextEnqToQ + 1 \/ nextEnqToQ' = 0
        BY <1>c, <2>2, FetchType DEF TargetType
      <4>2. undisturbed /\ nextEnqToQ' > nextEnqToQ
        BY <2>2, <2>5, Zenon
      <4> QED
        BY <1>w, <4>1, <4>2
    <3>2. PICK s \in Nat : RoundFrom(s)
      BY <2>1, <3>1 DEF ApartInv, OneRound
    <3>3. ~InCall /\ Settled = nextEnqToQ /\ Settled' = nextEnqToQ
      BY <1>w, <2>2, <3>1 DEF InCall, Settled
    <3>4. AvailableWorkers' = AvailableWorkers /\ AvailableWorkers \in SUBSET Workers
      BY <2>2 DEF AvailableWorkers
    <3>5. Given(s)' = Given(s) /\ Given(s) \in SUBSET Workers
      BY <3>3, <3>4 DEF Given, Drawn
    <3>6. i = Cardinality(Given(s)) /\ Cardinality(Given(s)) # Cardinality(AvailableWorkers)
      BY <1>f, <2>1, <3>1, <3>2, <3>3, <3>5 DEF RoundFrom, ApartInv, OneRound
    <3>7. s <= nextEnqToQ /\ nextEnqToQ - s < WorkersCount
      BY <1>c, <3>2, <3>3, <3>6, NotAllRound DEF RoundFrom
    <3>8. RoundFrom(s)'
      BY <1>w, <2>1, <2>2, <2>3, <3>1, <3>2, <3>5, <3>6, <3>7 DEF RoundFrom
    <3>9. Selecting'
      BY <2>2 DEF Selecting
    <3> QED
      BY <2>1, <2>2, <3>1, <3>4, <3>8, <3>9 DEF ApartInv, OneRound
  <2>6. step' \notin {"parallelFor", "dispatch"}
    BY <2>3 DEF Making
  <2> QED
    BY <1>c, <2>3, <2>4, <2>5, <2>6 DEF ApartInv, CountedApart, OneRound
<1>5. CASE SelectWorker
  <2>1. /\ Target!TestWorker(Dispatcher) \/ Target!NextWorker(Dispatcher)
        /\ undisturbed' = (undisturbed /\ nextEnqToQ' >= nextEnqToQ)
        /\ UNCHANGED <<blockedEnqCounter, received, step, grpCount, i>>
    BY <1>5 DEF SelectWorker, vars, Target!TestWorker, Target!NextWorker
  <2>2. InCall /\ InCall' /\ Making /\ Making'
    BY <1>c, <2>1 DEF InCall, Target!TestWorker, Target!NextWorker, Target!AfterTest, TargetType,
                      ApartInv, Making
  <2>3. GroupsApart'
    BY <2>1 DEF ApartInv, GroupsApart
  <2>4. AvailableWorkers' = AvailableWorkers /\ AvailableWorkers \in SUBSET Workers
    BY <2>1 DEF AvailableWorkers
  <2>5. ASSUME undisturbed' PROVE OneRound'
    <3>1. PICK s \in Nat : RoundFrom(s)
      BY <2>1, <2>2, <2>5 DEF ApartInv, OneRound
    <3>2. /\ s < nextEnqToQ /\ nextEnqToQ - s <= WorkersCount
          /\ call[Dispatcher].threadIdx = (nextEnqToQ - 1) % WorkersCount
          /\ call[Dispatcher].checked < nextEnqToQ - s
          /\ i = Cardinality(Given(s)) + 1 /\ Given(s) \in SUBSET Workers
      BY <2>2, <3>1 DEF RoundFrom, Given, AvailableWorkers
    <3>3. /\ \A w \in Workers : blockedEnqCounter[w] >= 0
          /\ grpCount = Cardinality(AvailableWorkers)
      BY <2>1, <2>2, <2>5 DEF ApartInv, OneRound
    <3>4. CASE Target!TestWorker(Dispatcher)
      <4>1. /\ call[Dispatcher].step = "test" /\ nextEnqToQ' = nextEnqToQ
            /\ call'[Dispatcher].threadIdx = call[Dispatcher].threadIdx
            /\ call'[Dispatcher].checked = call[Dispatcher].checked
            /\ call'[Dispatcher].step = Target!AfterTest(Dispatcher)
        BY <1>c, <3>4 DEF Target!TestWorker, TargetType
      <4>2. call[Dispatcher].checked < WorkersCount
        BY <1>w, <3>2
      <4>3. call'[Dispatcher].step =
              IF blockedEnqCounter[call[Dispatcher].threadIdx] = 0 THEN "push" ELSE "next"
        BY <4>1, <4>2 DEF Target!AfterTest
      <4>4. Selecting'
        BY <2>1, <4>1, <4>3 DEF Selecting
      <4>5. Given(s)' = Given(s)
        <5>1. CASE blockedEnqCounter[call[Dispatcher].threadIdx] = 0
          <6>1. Settled' = Settled
            BY <4>1, <4>3, <5>1 DEF Settled
          <6> QED
            BY <2>4, <6>1 DEF Given, Drawn
        <5>2. CASE blockedEnqCounter[call[Dispatcher].threadIdx] # 0
          <6>1. Settled = nextEnqToQ - 1 /\ Settled' = nextEnqToQ
            BY <4>1, <4>3, <5>2 DEF Settled
          <6>2. PICK e \in Nat : e = nextEnqToQ - 1
            BY <1>w, <3>2
          <6>3. Drawn(s, e + 1) = Drawn(s, e) \cup {e % WorkersCount}
            <7>1. s <= e
              BY <1>w, <3>2, <6>2
            <7> QED
              BY <7>1, DrawnMore
          <6>4. e % WorkersCount = call[Dispatcher].threadIdx /\ e + 1 = nextEnqToQ
            BY <1>w, <3>2, <6>2
          <6>5. call[Dispatcher].threadIdx \notin AvailableWorkers
            <7>1. PICK v \in Workers : v = call[Dispatcher].threadIdx
              BY <1>w
            <7>2. blockedEnqCounter[v] \in Int /\ blockedEnqCounter[v] >= 0 /\ blockedEnqCounter[v] # 0
              BY <1>c, <3>3, <5>2, <7>1 DEF TargetType
            <7> QED
              BY <7>1, <7>2 DEF AvailableWorkers
          <6>6. Given(s) = AvailableWorkers \cap Drawn(s, e)
            BY <6>1, <6>2 DEF Given
          <6>7. Given(s)' = AvailableWorkers \cap Drawn(s, e + 1)
            BY <2>4, <6>1, <6>4 DEF Given, Drawn
          <6> QED
            BY <6>3, <6>4, <6>5, <6>6, <6>7
        <5> QED
          BY <5>1, <5>2
      <4>6. RoundFrom(s)'
        BY <1>w, <2>1, <2>2, <3>1, <3>2, <4>1, <4>5 DEF RoundFrom
      <4> QED
        BY <2>1, <2>4, <3>3, <4>4, <4>6 DEF OneRound
    <3>5. CASE Target!NextWorker(Dispatcher)
      <4>1. /\ call[Dispatcher].step = "next" /\ Target!FetchNext
            /\ call'[Dispatcher] = [step |-> "test", threadIdx |-> nextEnqToQ % WorkersCount,
                                    checked |-> call[Dispatcher].checked + 1]
        BY <1>c, <3>5 DEF Target!NextWorker, Target!Draw, Target!Drawn, TargetType
      <4>2. nextEnqToQ' = nextEnqToQ + 1
        <5>1. nextEnqToQ' = nextEnqToQ + 1 \/ nextEnqToQ' = 0
          BY <1>c, <4>1, FetchType DEF TargetType
        <5>2. nextEnqToQ' >= nextEnqToQ
          BY <2>1, <2>5, Zenon
        <5> QED
          BY <1>w, <3>2, <5>1, <5>2
      <4>3. Settled = nextEnqToQ /\ Settled' = nextEnqToQ
        BY <1>w, <4>1, <4>2 DEF Settled
      <4>4. Given(s)' = Given(s)
        BY <2>4, <4>3 DEF Given, Drawn
      <4>5. i <= grpCount
        BY <1>e, <2>2 DEF Making
      <4>6. Cardinality(Given(s)) # Cardinality(AvailableWorkers)
        <5>1. Cardinality(Given(s)) \in Nat
          BY <1>f, <3>2
        <5> QED
          BY <3>2, <3>3, <4>5, <5>1
      <4>7. nextEnqToQ - s < WorkersCount
        BY <1>c, <1>w, <3>2, <4>3, <4>6, NotAllRound
      <4>8. RoundFrom(s)'
        BY <1>w, <2>1, <2>2, <3>1, <3>2, <4>1, <4>2, <4>4, <4>7 DEF RoundFrom
      <4>9. Selecting'
        BY <4>1 DEF Selecting
      <4> QED
        BY <2>1, <2>4, <3>3, <4>8, <4>9 DEF OneRound
    <3> QED
      BY <2>1, <3>4, <3>5
  <2>6. step' \notin {"parallelFor", "dispatch"}
    BY <2>2 DEF Making
  <2> QED
    BY <1>c, <2>2, <2>3, <2>5, <2>6 DEF ApartInv, CountedApart, OneRound
<1>6. CASE PushGroup
  <2>1. /\ call[Dispatcher].step \in {"push", "force"} /\ call'[Dispatcher].step = "idle"
        /\ received' = IF undisturbed THEN [received EXCEPT ![call[Dispatcher].threadIdx] = @ + 1] ELSE received
        /\ UNCHANGED <<nextEnqToQ, blockedEnqCounter, undisturbed, step, grpCount, i>>
    BY <1>6, <1>c DEF PushGroup, Target!Push, Target!Idle, TargetType, vars
  <2>2. InCall /\ ~InCall' /\ Making /\ Making'
    BY <2>1 DEF InCall, ApartInv, Making
  <2>3. AvailableWorkers' = AvailableWorkers /\ AvailableWorkers \in SUBSET Workers
    BY <2>1 DEF AvailableWorkers
  <2>4. ASSUME undisturbed' PROVE OneRound' /\ GroupsApart'
    <3>1. PICK s \in Nat : RoundFrom(s)
      BY <2>1, <2>2, <2>4 DEF ApartInv, OneRound
    <3>2. Selecting /\ grpCount = Cardinality(AvailableWorkers) /\ \A w \in Workers : blockedEnqCounter[w] >= 0
      BY <2>1, <2>2, <2>4 DEF ApartInv, OneRound
    <3>3. call[Dispatcher].step = "push" /\ blockedEnqCounter[call[Dispatcher].threadIdx] = 0
      BY <2>1, <3>2 DEF Selecting
    <3>4. /\ s < nextEnqToQ /\ nextEnqToQ - s <= WorkersCount
          /\ call[Dispatcher].threadIdx = (nextEnqToQ - 1) % WorkersCount
          /\ i = Cardinality(Given(s)) + 1 /\ Given(s) \in SUBSET Workers
      BY <2>2, <3>1 DEF RoundFrom, Given, AvailableWorkers
    <3>5. PICK e \in Nat : e = nextEnqToQ - 1
      BY <1>w, <3>4
    <3>6. PICK v \in Workers : v = call[Dispatcher].threadIdx
      BY <1>w
    <3>7. s <= e /\ e - s < WorkersCount /\ e + 1 = nextEnqToQ /\ e % WorkersCount = v
      BY <1>w, <3>4, <3>5, <3>6
    <3>8. Drawn(s, e + 1) = Drawn(s, e) \cup {v} /\ v \notin Drawn(s, e)
      BY <3>7, DrawnMore
    <3>9. Given(s) = AvailableWorkers \cap Drawn(s, e)
      BY <3>3, <3>5 DEF Given, Settled
    <3>10. Given(s)' = AvailableWorkers \cap Drawn(s, e + 1)
      BY <2>1, <2>3, <3>7 DEF Given, Settled, Drawn
    <3>11. v \in AvailableWorkers
      BY <3>3, <3>6 DEF AvailableWorkers
    <3>12. Given(s)' = Given(s) \cup {v} /\ v \notin Given(s)
      BY <3>8, <3>9, <3>10, <3>11
    <3>13. PICK G \in SUBSET Workers : G = Given(s)
      BY <3>4
    <3>14. Cardinality(G \cup {v}) = Cardinality(G) + 1
      BY <1>f, <3>12, <3>13, FS_AddElement
    <3>15. i' = Cardinality(Given(s)')
      BY <2>1, <3>4, <3>12, <3>13, <3>14
    <3>16. \A w \in Workers : received[w] = IF w \in Given(s) THEN 1 ELSE 0
      BY <3>1 DEF RoundFrom
    <3>17. \A w \in Workers : received'[w] = IF w = v THEN received[w] + 1 ELSE received[w]
      BY <1>c, <2>1, <2>4, <3>6 DEF TargetType
    <3>18. \A w \in Workers : received'[w] = IF w \in Given(s)' THEN 1 ELSE 0
      BY <3>12, <3>16, <3>17
    <3>19. Cardinality(Given(s)') \in Nat
      BY <1>f, <3>12, <3>4
    <3>20. RoundFrom(s)'
      <4>1. s <= nextEnqToQ' /\ nextEnqToQ' - s <= WorkersCount
        BY <1>w, <2>1, <3>4
      <4>2. i' = Cardinality(Given(s)') + 0
        BY <3>15, <3>19
      <4> QED
        BY <2>2, <3>18, <4>1, <4>2 DEF RoundFrom
    <3>21. Selecting'
      BY <2>1 DEF Selecting
    <3>22. GroupsApart'
      BY <3>18 DEF GroupsApart
    <3> QED
      BY <2>1, <2>3, <3>2, <3>20, <3>21, <3>22 DEF OneRound
  <2>5. step' \notin {"parallelFor", "dispatch"}
    BY <2>2 DEF Making
  <2> QED
    BY <1>c, <2>2, <2>4, <2>5 DEF ApartInv, CountedApart, OneRound, GroupsApart
<1>7. CASE EndGuard
  <2>1. /\ caller \in Workers
        /\ Target!DestroyTemporary(caller) \/ (step = "done" /\ Target!Unblock(caller))
        /\ UNCHANGED <<step, received, undisturbed>>
    BY <1>7 DEF EndGuard, vars, historyVars
  <2>2. call' = call
    BY <2>1 DEF Target!DestroyTemporary, Target!Unblock
  <2>3. ~Making /\ ~Making'
    BY <1>c, <2>1 DEF CallerInv, CallerGuards, CallerCounted, Groups, Making, Target!DestroyTemporary
  <2>4. ~Counting
    BY <1>c, <2>1 DEF CallerInv, CallerGuards, CallerCounted, Counting, Groups, Guarded, Target!DestroyTemporary
  <2>5. step' \in {"parallelFor", "dispatch"} => ~undisturbed
    BY <1>c, <2>1, <2>4 DEF ApartInv, CountedApart, CallerInv, CountSoFar
  <2> QED
    BY <1>c, <2>1, <2>2, <2>3, <2>5 DEF ApartInv, CountedApart, OneRound, GroupsApart, InCall
<1>8. CASE OtherEnqueue \/ \E w \in Workers : OtherGuard(w)
  <2>1. ~undisturbed' /\ UNCHANGED <<step, received, call>>
    BY <1>8 DEF OtherEnqueue, OtherGuard, vars, Target!DrawElsewhere, Target!Block,
                Target!DestroyTemporary, Target!Unblock
  <2> QED
    BY <1>c, <2>1 DEF ApartInv, CountedApart, OneRound, GroupsApart, InCall, Making
<1>9. CASE UNCHANGED allVars
  <2>1. /\ UNCHANGED <<nextEnqToQ, blockedEnqCounter, call, received, undisturbed, i, step, grpCount>>
        /\ UNCHANGED <<counted, availabeWorkersCount, count, returning, hasWorkers>>
    BY <1>9 DEF allVars, vars, targetVars, countVars, historyVars
  <2>2. undisturbed /\ step \in {"parallelFor", "dispatch"} => Groups'
    BY <2>1 DEF ApartInv, CountedApart, Groups
  <2> QED
    BY <1>c, <2>1, <2>2, KeepsApart DEF Making
<1>10. CASE CountWorker
  <2>1. /\ Counting /\ counted < WorkersCount /\ counted' = counted + 1
        /\ availabeWorkersCount' = availabeWorkersCount + (IF Available(counted) THEN 1 ELSE 0)
        /\ undisturbed' = IF counted = 0 THEN Groups /\ \A w \in Workers : blockedEnqCounter[w] >= 0
                          ELSE undisturbed
        /\ UNCHANGED <<vars, blockedEnqCounter, call, received>>
    BY <1>10 DEF CountWorker, targetVars
  <2>2. /\ step \in {"parallelFor", "dispatch"} /\ step' = step /\ (Groups => Groups')
        /\ AvailableWorkers' = AvailableWorkers
    BY <2>1 DEF Counting, Groups, vars, AvailableWorkers
  <2>3. ~InCall /\ ~InCall'
    BY <2>1, <2>2 DEF ApartInv, InCall, Making
  <2>4. counted \in Nat /\ counted \in Workers
    BY <1>c, <1>w, <2>1, WorkersType DEF CallerInv, CountSoFar
  <2>5. Cardinality(AvailableWorkers \cap (0 .. (counted + 1) - 1)) =
          Cardinality(AvailableWorkers \cap (0 .. counted - 1)) + IF Available(counted) THEN 1 ELSE 0
    <3>1. AvailableWorkers \cap (0 .. counted - 1) \in SUBSET Workers
      BY DEF AvailableWorkers
    <3> QED
      BY <1>f, <2>4, <3>1, CountOneMore
  <2>6. ASSUME undisturbed'
        PROVE  /\ Groups /\ \A w \in Workers : blockedEnqCounter[w] >= 0
               /\ availabeWorkersCount = Cardinality(AvailableWorkers \cap (0 .. counted - 1))
    <3>1. CASE counted = 0
      <4>1. AvailableWorkers \cap (0 .. counted - 1) = {} /\ availabeWorkersCount = 0
        BY <1>c, <3>1 DEF CallerInv, CountSoFar
      <4> QED
        BY <2>1, <2>6, <3>1, <4>1, FS_EmptySet
    <3>2. CASE counted # 0
      BY <2>1, <2>2, <2>6, <3>2 DEF ApartInv, CountedApart
    <3> QED
      BY <3>1, <3>2
  <2>7. CountedApart'
    <3>1. counted' > 0 /\ \A w \in Workers : received'[w] = 0
      BY <2>1, <2>2, <2>4 DEF ApartInv, CountedApart
    <3>2. undisturbed' => availabeWorkersCount' = Cardinality(AvailableWorkers' \cap (0 .. counted' - 1))
      BY <2>1, <2>2, <2>5, <2>6
    <3> QED
      BY <2>1, <2>2, <2>6, <3>1, <3>2 DEF CountedApart
  <2> QED
    BY <1>c, <2>1, <2>2, <2>3, <2>7 DEF ApartInv, CountedApart, OneRound, GroupsApart, Making
<1> QED
  BY <1>1, <1>2, <1>3, <1>4, <1>5, <1>6, <1>7, <1>8, <1>9, <1>10 DEF CallNext

\* If no one else changes a guard or enqueues a job while the workers are counted and
\* the groups made, no worker was unblocked too often and the counter does not wrap,
\* no worker gets two groups.
THEOREM GroupsKeptApart == CallSpec => []GroupsApart
<1>1. ApartInv => GroupsApart
  BY DEF ApartInv
<1>2. EvenInv /\ [CallNext]_allVars => EvenInv'
  BY NextEven, CallStepIsPartitionStep
<1>3. CallInit => EvenInv
  BY InitEven DEF CallInit
<1> QED
  BY <1>1, <1>2, <1>3, InitApart, NextApart, PTL DEF CallSpec

-----------------------------------------------------------------------------
(* A blocked worker gets a job only if none is due.                         *)

\* Every worker passed over was looked at.
Looked ==
    LET c == call[Dispatcher] IN
    /\ c.checked <= WorkersCount
    /\ c.step = "next" => c.checked < WorkersCount
    /\ c.step = "force" => c.checked = WorkersCount

\* Since the counter was at s the call has drawn once for each worker it looked at, and
\* the worker a draw came to is not due any more, except the one the call looks at.
DrawnFrom(s) ==
    LET c == call[Dispatcher] IN
    /\ (s + c.checked) + 1 <= nextEnqToQ
    /\ \A k \in s .. nextEnqToQ - 1 : k % WorkersCount \in due[Dispatcher] =>
          c.step \in {"test", "push"} /\ c.threadIdx = k % WorkersCount

PreferInv ==
    /\ due \in [{Dispatcher} -> SUBSET Workers]
    /\ \A w \in due[Dispatcher] : blockedEnqCounter[w] = 0
    /\ InCall => Looked /\ (due[Dispatcher] = {} \/ \E s \in Nat : DrawnFrom(s))

LEMMA InitPrefer == CallInit => PreferInv
<1> SUFFICES ASSUME CallInit PROVE PreferInv
  OBVIOUS
<1>1. due \in [{Dispatcher} -> SUBSET Workers] /\ due[Dispatcher] = {}
  BY DEF CallInit
<1>2. ~InCall
  BY DEF CallInit, InCall, Target!Idle
<1> QED
  BY <1>1, <1>2 DEF PreferInv

\* A guard changes: a worker that is blocked is not due from then on.
LEMMA GuardPrefers ==
    ASSUME PreferInv, NEW w \in Workers,
           Target!Block(w, "held") \/ Target!Block(w, "temporary")
             \/ Target!DestroyTemporary(w) \/ Target!Unblock(w)
    PROVE  PreferInv'
<1>1. /\ UNCHANGED <<nextEnqToQ, call>>
      /\ due' = [t \in {Dispatcher} |-> {v \in due[t] : blockedEnqCounter'[v] = 0}]
  BY DEF Target!Block, Target!DestroyTemporary, Target!Unblock, Target!Changed
<1>2. due'[Dispatcher] = {v \in due[Dispatcher] : blockedEnqCounter'[v] = 0}
  BY <1>1
<1>3. /\ due' \in [{Dispatcher} -> SUBSET Workers]
      /\ \A v \in due'[Dispatcher] : blockedEnqCounter'[v] = 0
  BY <1>1, <1>2 DEF PreferInv
<1>4. \A s : DrawnFrom(s) => DrawnFrom(s)'
  BY <1>1, <1>2 DEF DrawnFrom
<1>5. Looked => Looked'
  BY <1>1 DEF Looked
<1> QED
  BY <1>1, <1>2, <1>3, <1>4, <1>5 DEF PreferInv, InCall

LEMMA NextPrefer == CallerInv /\ PreferInv /\ [CallNext]_allVars => PreferInv'
<1> SUFFICES ASSUME CallerInv, PreferInv, [CallNext]_allVars PROVE PreferInv'
  OBVIOUS
<1>t. TargetType /\ TargetType'
  BY NextCaller DEF CallerInv, CallerGuards
<1>w. /\ WorkersCount \in Nat \ {0} /\ Wrap \in Nat \ {0}
      /\ call[Dispatcher] \in [step : Target!Steps, threadIdx : Workers, checked : Nat]
      /\ nextEnqToQ \in Nat /\ nextEnqToQ < Wrap /\ nextEnqToQ' \in Nat
      /\ nextEnqToQ % WorkersCount \in Workers
  <2>1. /\ WorkersCount \in Nat \ {0} /\ Wrap \in Nat \ {0}
        /\ call[Dispatcher] \in [step : Target!Steps, threadIdx : Workers, checked : Nat]
        /\ nextEnqToQ \in Nat /\ nextEnqToQ < Wrap /\ nextEnqToQ' \in Nat
    BY <1>t, WorkersType DEF TargetType
  <2> QED
    BY <2>1, WorkersType
<1>1. CASE UNCHANGED <<nextEnqToQ, blockedEnqCounter, call, due>>
  BY <1>1 DEF PreferInv, InCall, Looked, DrawnFrom
<1>d. ASSUME NEW mine \in SUBSET Workers, \A w \in mine : blockedEnqCounter[w] = 0,
             Target!Draw(Dispatcher, mine), blockedEnqCounter' = blockedEnqCounter
      PROVE  /\ due' \in [{Dispatcher} -> SUBSET Workers]
             /\ due'[Dispatcher] = IF nextEnqToQ = Wrap - 1 THEN {} ELSE mine
             /\ \A w \in due'[Dispatcher] : blockedEnqCounter'[w] = 0
             /\ nextEnqToQ # Wrap - 1 => nextEnqToQ' = nextEnqToQ + 1
  <2>1. due' = [u \in {Dispatcher} |-> IF nextEnqToQ = Wrap - 1 THEN {}
                                       ELSE IF u = Dispatcher THEN mine ELSE due[u] \ {Target!Drawn}]
    BY <1>d DEF Target!Draw
  <2>2. due'[Dispatcher] = IF nextEnqToQ = Wrap - 1 THEN {} ELSE mine
    BY <2>1
  <2>3. nextEnqToQ # Wrap - 1 => nextEnqToQ' = nextEnqToQ + 1
    BY <1>t, <1>d, FetchType DEF Target!Draw, TargetType
  <2> QED
    BY <1>d, <2>1, <2>2, <2>3
<1>2. ASSUME Target!BeginEnqueue(Dispatcher) PROVE PreferInv'
  <2> DEFINE mine == {w \in Workers : blockedEnqCounter[w] = 0}
  <2>1. /\ Target!Draw(Dispatcher, mine) /\ blockedEnqCounter' = blockedEnqCounter
        /\ call'[Dispatcher] = [step |-> "test", threadIdx |-> nextEnqToQ % WorkersCount, checked |-> 0]
    BY <1>t, <1>2 DEF Target!BeginEnqueue, Target!Drawn, TargetType, Workers
  <2>2. /\ due' \in [{Dispatcher} -> SUBSET Workers]
        /\ due'[Dispatcher] = IF nextEnqToQ = Wrap - 1 THEN {} ELSE mine
        /\ \A w \in due'[Dispatcher] : blockedEnqCounter'[w] = 0
        /\ nextEnqToQ # Wrap - 1 => nextEnqToQ' = nextEnqToQ + 1
    BY <1>d, <2>1
  <2>3. Looked'
    BY <1>w, <2>1 DEF Looked
  <2>4. ASSUME nextEnqToQ # Wrap - 1 PROVE \E s \in Nat : DrawnFrom(s)'
    <3>1. PICK s \in Nat : s = nextEnqToQ
      BY <1>w
    <3>2. nextEnqToQ' = s + 1 /\ (s + 0) + 1 <= s + 1 /\ s .. (s + 1) - 1 = {s}
      BY <2>2, <2>4, <3>1
    <3>3. DrawnFrom(s)'
      BY <2>1, <3>1, <3>2 DEF DrawnFrom
    <3> QED
      BY <3>3
  <2> QED
    BY <2>2, <2>3, <2>4 DEF PreferInv
<1>3. ASSUME Target!TestWorker(Dispatcher) PROVE PreferInv'
  <2>1. /\ UNCHANGED <<nextEnqToQ, blockedEnqCounter, due>> /\ InCall
        /\ call[Dispatcher].step = "test"
        /\ call'[Dispatcher].threadIdx = call[Dispatcher].threadIdx
        /\ call'[Dispatcher].checked = call[Dispatcher].checked
        /\ call'[Dispatcher].step = Target!AfterTest(Dispatcher)
    BY <1>t, <1>3 DEF Target!TestWorker, TargetType, InCall
  <2>2. call'[Dispatcher].step = "push" \/ call[Dispatcher].threadIdx \notin due[Dispatcher]
    BY <2>1 DEF Target!AfterTest, PreferInv
  <2>3. Looked'
    BY <1>w, <2>1 DEF Target!AfterTest, PreferInv, Looked
  <2>4. \A s \in Nat : DrawnFrom(s) => DrawnFrom(s)'
    BY <2>1, <2>2 DEF DrawnFrom
  <2> QED
    BY <2>1, <2>3, <2>4 DEF PreferInv
<1>4. ASSUME Target!NextWorker(Dispatcher) PROVE PreferInv'
  <2>1. /\ Target!Draw(Dispatcher, due[Dispatcher]) /\ blockedEnqCounter' = blockedEnqCounter /\ InCall
        /\ call[Dispatcher].step = "next"
        /\ call'[Dispatcher] = [step |-> "test", threadIdx |-> nextEnqToQ % WorkersCount,
                                checked |-> call[Dispatcher].checked + 1]
    BY <1>t, <1>4 DEF Target!NextWorker, Target!Drawn, TargetType, InCall
  <2>2. /\ due' \in [{Dispatcher} -> SUBSET Workers]
        /\ due'[Dispatcher] = IF nextEnqToQ = Wrap - 1 THEN {} ELSE due[Dispatcher]
        /\ \A w \in due'[Dispatcher] : blockedEnqCounter'[w] = 0
        /\ nextEnqToQ # Wrap - 1 => nextEnqToQ' = nextEnqToQ + 1
    <3>1. due[Dispatcher] \in SUBSET Workers /\ \A w \in due[Dispatcher] : blockedEnqCounter[w] = 0
      BY DEF PreferInv
    <3> QED
      BY <1>d, <2>1, <3>1
  <2>3. Looked'
    BY <1>w, <2>1 DEF PreferInv, Looked
  <2>4. ASSUME nextEnqToQ # Wrap - 1, NEW s \in Nat, DrawnFrom(s) PROVE DrawnFrom(s)'
    <3>1. nextEnqToQ' = nextEnqToQ + 1 /\ due'[Dispatcher] = due[Dispatcher]
      BY <2>2, <2>4
    <3>2. (s + call'[Dispatcher].checked) + 1 <= nextEnqToQ'
      BY <1>w, <2>1, <2>4, <3>1 DEF DrawnFrom
    <3>3. ASSUME NEW k \in s .. nextEnqToQ' - 1, k % WorkersCount \in due[Dispatcher]
          PROVE  k % WorkersCount = nextEnqToQ % WorkersCount
      <4>1. k \in s .. nextEnqToQ - 1 \/ k = nextEnqToQ
        BY <1>w, <3>1
      <4> QED
        BY <2>1, <2>4, <3>3, <4>1 DEF DrawnFrom
    <3> QED
      BY <2>1, <3>1, <3>2, <3>3 DEF DrawnFrom
  <2>5. due'[Dispatcher] = {} \/ \E s \in Nat : DrawnFrom(s)'
    BY <2>1, <2>2, <2>4 DEF PreferInv
  <2> QED
    BY <2>2, <2>3, <2>5 DEF PreferInv
<1>5. ASSUME Target!Push(Dispatcher) PROVE PreferInv'
  <2>1. /\ call'[Dispatcher].step = "idle" /\ due' = [due EXCEPT ![Dispatcher] = {}]
    BY <1>t, <1>5 DEF Target!Push, Target!Idle, TargetType
  <2>2. due' \in [{Dispatcher} -> SUBSET Workers] /\ due'[Dispatcher] = {}
    BY <2>1 DEF PreferInv
  <2> QED
    BY <2>1, <2>2 DEF PreferInv, InCall
<1>6. CASE CountWorker \/ CountForCaller \/ DispatchElsewhere \/ CountForGroups \/ EndGroups
  BY <1>1, <1>6 DEF CountWorker, CountForCaller, CountReturns, DispatchElsewhere, CountForGroups,
                    EndGroups, targetVars
<1>7. CASE MakeGroup \/ SelectWorker \/ PushGroup
  BY <1>2, <1>3, <1>4, <1>5, <1>7 DEF MakeGroup, SelectWorker, PushGroup
<1>8. CASE MakeGuard \/ EndGuard \/ \E w \in Workers : OtherGuard(w)
  BY <1>8, GuardPrefers DEF MakeGuard, EndGuard, OtherGuard, Guarded
<1>9. CASE OtherEnqueue
  <2>1. /\ Target!FetchNext /\ UNCHANGED <<blockedEnqCounter, call>>
        /\ due' = [u \in {Dispatcher} |-> IF nextEnqToQ = Wrap - 1 THEN {} ELSE due[u] \ {Target!Drawn}]
    BY <1>9 DEF OtherEnqueue, Target!DrawElsewhere
  <2>2. /\ due'[Dispatcher] = IF nextEnqToQ = Wrap - 1 THEN {}
                              ELSE due[Dispatcher] \ {nextEnqToQ % WorkersCount}
        /\ due' \in [{Dispatcher} -> SUBSET Workers]
        /\ \A w \in due'[Dispatcher] : blockedEnqCounter'[w] = 0
    BY <2>1 DEF PreferInv, Target!Drawn
  <2>3. ASSUME nextEnqToQ # Wrap - 1, NEW s \in Nat, DrawnFrom(s) PROVE DrawnFrom(s)'
    <3>1. nextEnqToQ' = nextEnqToQ + 1
      BY <1>t, <2>1, <2>3, FetchType DEF TargetType
    <3>2. (s + call'[Dispatcher].checked) + 1 <= nextEnqToQ'
      BY <1>w, <2>1, <2>3, <3>1 DEF DrawnFrom
    <3>3. ASSUME NEW k \in s .. nextEnqToQ' - 1, k % WorkersCount \in due'[Dispatcher]
          PROVE  k \in s .. nextEnqToQ - 1 /\ k % WorkersCount \in due[Dispatcher]
      BY <1>w, <2>2, <2>3, <3>1, <3>3
    <3> QED
      BY <2>1, <2>3, <3>2, <3>3 DEF DrawnFrom
  <2>4. InCall' => InCall /\ (Looked => Looked')
    BY <2>1 DEF InCall, Looked
  <2> QED
    BY <2>2, <2>3, <2>4 DEF PreferInv
<1>10. CASE UNCHANGED allVars
  BY <1>1, <1>10 DEF allVars, targetVars
<1> QED
  BY <1>6, <1>7, <1>8, <1>9, <1>10 DEF CallNext

\* However many other threads draw from the counter, block their workers and enqueue
\* jobs, wherever the counter wraps and for every number of workers: a job is forced
\* upon a blocked worker only if no worker is due to the call.
THEOREM ForcedIfNoneIsDue == CallSpec => []PrefersAvailable
<1>1. ASSUME CallerInv, PreferInv PROVE PrefersAvailable
  <2>1. ASSUME call[Dispatcher].step = "force", due[Dispatcher] # {} PROVE FALSE
    <3>1. PICK s \in Nat : DrawnFrom(s)
      BY <1>1, <2>1 DEF PreferInv, InCall
    <3>2. PICK w \in Workers : w \in due[Dispatcher]
      BY <1>1, <2>1 DEF PreferInv
    <3>3. (s + WorkersCount) + 1 <= nextEnqToQ /\ nextEnqToQ \in Nat /\ WorkersCount \in Nat
      <4>1. TargetType /\ call[Dispatcher].checked = WorkersCount
        BY <1>1, <2>1 DEF PreferInv, InCall, Looked, CallerInv, CallerGuards
      <4> QED
        BY <3>1, <4>1, WorkersType DEF DrawnFrom, TargetType
    <3>4. PICK k \in s .. (s + WorkersCount) - 1 : k % WorkersCount = w
      BY <3>2, AllDrawn DEF Drawn
    <3>5. k \in s .. nextEnqToQ - 1
      BY <3>3, <3>4
    <3> QED
      BY <2>1, <3>1, <3>2, <3>4, <3>5 DEF DrawnFrom
  <2> QED
    BY <2>1 DEF PrefersAvailable, Target!PrefersAvailable
<1> QED
  BY <1>1, InitCaller, NextCaller, InitPrefer, NextPrefer, PTL DEF CallSpec
=============================================================================
