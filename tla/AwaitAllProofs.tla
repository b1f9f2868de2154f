--------------------------- MODULE AwaitAllProofs ---------------------------
(***************************************************************************)
(* Safety of awaitAllTasks, for every number of awaited jobs: whatever the *)
(* order in which the jobs end, the starter runs its loop and the wrappers *)
(* release the counter, the parent goes on once and after all jobs, and    *)
(* nothing is destroyed that a thread is still to use.                     *)
(***************************************************************************)
EXTENDS AwaitAll, FiniteSetTheorems, TLAPS

(***************************************************************************)
(* The inductive invariant.                                                *)
(***************************************************************************)
\* A job and its wrapper: a flag that was set before the job's final suspend
\* was set by the wrapper, which then waits in its continuation.
Handshake ==
    \A c \in Children :
        /\ wrap[c] = "awaiting" <=> flag[c] /\ job[c] # "ended"
        /\ job[c] = "ended" => flag[c]
        /\ wrap[c] \in {"testFlag", "awaiting"} => cont[c]

Done(c) == job[c] \in {"final", "ended"}

\* A wrapper is past its co_await only when its job has finished.
PastAwaitIsDone ==
    \A c \in Children : wrap[c] \in {"release", "resumeParent", "ended"} => Done(c)

Unreleased == {c \in Children : wrap[c] \notin {"resumeParent", "ended"}}

\* The counter counts the wrappers that have not released it, and the one that
\* released it last is the only one to resume the parent.
CountsUnreleased == counter = Cardinality(Unreleased)

LastResumes ==
    \A c \in Children :
        wrap[c] = "resumeParent" =>
            /\ counter = 0 /\ parent # "ended"
            /\ \A d \in Children : d # c => wrap[d] = "ended"

\* The parent runs inside a wrapper; when it has ended so have all wrappers,
\* and only then is the semaphore released or anything destroyed.
ParentRunsInWrapper ==
    /\ parent = "running" => \E c \in Children : wrap[c] = "resumeParent"
    /\ parent = "ended" => \A c \in Children : wrap[c] = "ended"
    /\ semaphore > 0 \/ ~alive => parent = "ended"

\* A thread is inside a wrapper; it is the starter only for the wrapper that
\* its loop is at.
InWrapper(c) == wrap[c] \in {"testDone", "setCont", "testFlag", "release", "resumeParent"}

StarterInLoop ==
    /\ starter = "begin" => next = 1
    /\ starter = "child" => next \in Children /\ InWrapper(next) /\ by[next] = "starter"
    /\ starter \in {"acquire", "returned"} => next \notin Children
    /\ starter # "begin" => awaiting
    /\ \A c \in Children :
          /\ wrap[c] = "initial" <=> c > next \/ (c = next /\ starter # "child")
          /\ wrap[c] = "initial" => by[c] = "starter"
          /\ InWrapper(c) /\ by[c] = "starter" => starter = "child" /\ c = next

AwaitInv ==
    /\ TypeOK
    /\ Handshake
    /\ PastAwaitIsDone
    /\ CountsUnreleased
    /\ LastResumes
    /\ ParentRunsInWrapper
    /\ StarterInLoop

(***************************************************************************)
(* The counter.                                                            *)
(***************************************************************************)
LEMMA UnreleasedFinite ==
  IsFiniteSet(Unreleased) /\ Cardinality(Unreleased) \in 0 .. ChildrenCount
  <1>1. IsFiniteSet(Children) /\ Cardinality(Children) = ChildrenCount
    BY JoinAssumption, FS_Interval DEF Children
  <1>2. Unreleased \in SUBSET Children
    BY DEF Unreleased
  <1>3. IsFiniteSet(Unreleased) /\ Cardinality(Unreleased) <= ChildrenCount
    BY <1>1, <1>2, FS_Subset
  <1>4. QED
    BY <1>3, FS_CardinalityType, JoinAssumption

\* A step that takes no wrapper past its release keeps the count.
LEMMA CountKept ==
  ASSUME CountsUnreleased, counter' = counter,
         \A c \in Children : wrap'[c] \in {"resumeParent", "ended"}
                               <=> wrap[c] \in {"resumeParent", "ended"}
  PROVE  CountsUnreleased'
  <1>1. Unreleased' = Unreleased
    BY DEF Unreleased
  <1>2. QED
    BY <1>1 DEF CountsUnreleased

\* The release of a wrapper takes it out of the counted ones; the last one
\* finds all others past their release.
LEMMA CountReleased ==
  ASSUME CountsUnreleased, NEW c \in Children, wrap[c] = "release",
         counter' = counter - 1,
         wrap'[c] \in {"resumeParent", "ended"},
         \A d \in Children : d # c => wrap'[d] = wrap[d]
  PROVE  /\ CountsUnreleased'
         /\ counter \in 1 .. ChildrenCount
         /\ counter = 1 => \A d \in Children : d # c => wrap[d] \in {"resumeParent", "ended"}
  <1>1. c \in Unreleased /\ Unreleased' = Unreleased \ {c}
    BY DEF Unreleased
  <1>2. /\ IsFiniteSet(Unreleased \ {c})
        /\ Cardinality(Unreleased \ {c}) = Cardinality(Unreleased) - 1
    BY <1>1, UnreleasedFinite, FS_RemoveElement
  <1>3. CountsUnreleased'
    BY <1>1, <1>2 DEF CountsUnreleased
  <1>4. Cardinality(Unreleased) # 0
    BY <1>1, UnreleasedFinite, FS_EmptySet
  <1>5. counter \in 1 .. ChildrenCount
    BY <1>4, UnreleasedFinite, JoinAssumption DEF CountsUnreleased
  <1>6. ASSUME counter = 1 PROVE Unreleased \ {c} = {}
    BY <1>2, <1>6, FS_EmptySet DEF CountsUnreleased
  <1>7. QED
    BY <1>3, <1>5, <1>6 DEF Unreleased

(***************************************************************************)
(* A step inside wrapper c: its thread stays in it, or leaves it.          *)
(***************************************************************************)
LEMMA StaysInWrapper ==
  ASSUME TypeOK, StarterInLoop, NEW c \in Children, InWrapper(c), InWrapper(c)',
         \A d \in Children : d # c => wrap'[d] = wrap[d],
         UNCHANGED <<by, awaiting, starter, next>>
  PROVE  StarterInLoop'
  <1>1. \A d \in Children : wrap'[d] = "initial" <=> wrap[d] = "initial"
    BY DEF InWrapper
  <1>2. \A d \in Children : InWrapper(d)' <=> InWrapper(d)
    BY DEF InWrapper
  <1>3. QED
    BY <1>1, <1>2 DEF StarterInLoop

LEMMA LeavesWrapper ==
  ASSUME TypeOK, StarterInLoop, NEW c \in Children, InWrapper(c),
         wrap'[c] \in {"awaiting", "ended"}, LeaveChild(c),
         \A d \in Children : d # c => wrap'[d] = wrap[d],
         UNCHANGED <<by, awaiting>>
  PROVE  /\ StarterInLoop'
         /\ next' \in 1 .. ChildrenCount + 1
         /\ starter' \in {"begin", "loop", "child", "acquire", "returned"}
  <1>1. /\ \A d \in Children : wrap'[d] = "initial" <=> wrap[d] = "initial"
        /\ \A d \in Children : d # c => (InWrapper(d)' <=> InWrapper(d))
        /\ ~InWrapper(c)'
    BY DEF InWrapper
  <1>2. CASE by[c] = "starter"
    <2>1. starter = "child" /\ c = next /\ starter' = "loop" /\ next' = next + 1
      BY <1>2 DEF StarterInLoop, LeaveChild
    <2>2. awaiting'
      BY <2>1 DEF StarterInLoop
    <2>3. \A d \in Children : wrap'[d] = "initial" <=> d > next' \/ d = next'
      BY <1>1, <2>1, JoinAssumption DEF StarterInLoop, Children
    <2>4. \A d \in Children : InWrapper(d)' => by'[d] # "starter"
      BY <1>1, <2>1 DEF StarterInLoop
    <2>5. QED
      BY <2>1, <2>2, <2>3, <2>4, JoinAssumption DEF StarterInLoop, Children, TypeOK
  <1>3. CASE by[c] # "starter"
    <2>1. UNCHANGED <<starter, next>>
      BY <1>3 DEF LeaveChild
    <2>2. starter = "child" => next # c
      BY <1>3 DEF StarterInLoop
    <2>3. QED
      BY <1>1, <2>1, <2>2 DEF StarterInLoop, TypeOK
  <1>4. QED
    BY <1>2, <1>3

(***************************************************************************)
(* The invariant holds initially and every step preserves it.              *)
(***************************************************************************)
LEMMA InitAwait == Init => AwaitInv
  <1> SUFFICES ASSUME Init PROVE AwaitInv
    OBVIOUS
  <1>1. 1 \in Children /\ ChildrenCount \in Nat
    BY JoinAssumption DEF Children
  <1>2. TypeOK
    <2>1. flag \in [Children -> BOOLEAN] /\ cont \in [Children -> BOOLEAN]
      BY DEF Init
    <2>2. blocking \in BOOLEAN /\ awaiting \in BOOLEAN /\ alive \in BOOLEAN
      BY DEF Init
    <2>3. /\ job \in [Children -> {"queued", "running", "final", "ended"}]
          /\ wrap \in [Children -> {"initial", "testDone", "setCont", "testFlag", "awaiting",
                                    "release", "resumeParent", "ended"}]
          /\ by \in [Children -> {"starter", "runner"}]
      BY DEF Init
    <2>4. /\ counter \in 0 .. ChildrenCount /\ next \in 1 .. ChildrenCount + 1
          /\ starter = "begin" /\ parent = "suspended" /\ semaphore \in 0 .. 1
      BY <1>1 DEF Init, InitialCount
    <2>5. QED
      BY <2>1, <2>2, <2>3, <2>4 DEF TypeOK
  <1>3. Handshake /\ PastAwaitIsDone /\ LastResumes /\ ParentRunsInWrapper
    BY DEF Init, Handshake, PastAwaitIsDone, LastResumes, ParentRunsInWrapper
  <1>4. StarterInLoop
    BY <1>1 DEF Init, StarterInLoop, InWrapper, Children
  <1>5. CountsUnreleased
    <2>1. Unreleased = Children
      BY DEF Init, Unreleased
    <2>2. Cardinality(Children) = ChildrenCount
      BY <1>1, FS_Interval DEF Children
    <2>3. QED
      BY <2>1, <2>2 DEF Init, InitialCount, CountsUnreleased
  <1>6. QED
    BY <1>2, <1>3, <1>4, <1>5 DEF AwaitInv

LEMMA NextAwait == AwaitInv /\ [Next]_vars => AwaitInv'
  <1> SUFFICES ASSUME AwaitInv, [Next]_vars PROVE AwaitInv'
    OBVIOUS
  <1>0. /\ TypeOK /\ Handshake /\ PastAwaitIsDone /\ CountsUnreleased /\ LastResumes
        /\ ParentRunsInWrapper /\ StarterInLoop
    BY DEF AwaitInv
  <1>1. ASSUME NEW c \in Children, RunJob(c) \/ FinishBody(c) PROVE AwaitInv'
    <2>1. /\ UNCHANGED <<blocking, flag, cont, wrap, by, counter, awaiting, starter, next, parent,
                         semaphore, alive>>
          /\ job[c] \in {"queued", "running"} /\ job'[c] \in {"running", "final"}
          /\ job' \in [Children -> {"queued", "running", "final", "ended"}]
          /\ \A d \in Children : d # c => job'[d] = job[d]
      BY <1>0, <1>1 DEF RunJob, FinishBody, wrapVars, countVars, TypeOK
    <2>2. TypeOK'
      BY <1>0, <2>1 DEF TypeOK
    <2>3. Handshake' /\ PastAwaitIsDone'
      BY <1>0, <2>1 DEF Handshake, PastAwaitIsDone, Done
    <2>4. CountsUnreleased'
      BY <1>0, <2>1, CountKept
    <2>5. LastResumes' /\ ParentRunsInWrapper' /\ StarterInLoop'
      BY <1>0, <2>1 DEF LastResumes, ParentRunsInWrapper, StarterInLoop, InWrapper
    <2>6. QED
      BY <2>2, <2>3, <2>4, <2>5 DEF AwaitInv
  <1>2. ASSUME NEW c \in Children, FinalSuspend(c) PROVE AwaitInv'
    <2>1. /\ UNCHANGED <<blocking, cont, counter, awaiting, starter, next, parent, semaphore, alive>>
          /\ job[c] = "final" /\ job'[c] = "ended" /\ flag'[c] = TRUE
          /\ \A d \in Children : d # c => job'[d] = job[d] /\ flag'[d] = flag[d]
          /\ job' \in [Children -> {"queued", "running", "final", "ended"}]
          /\ flag' \in [Children -> BOOLEAN]
      BY <1>0, <1>2 DEF FinalSuspend, countVars, TypeOK
    <2>2. CASE flag[c]
      <3>1. /\ wrap[c] = "awaiting" /\ wrap'[c] = "release" /\ by'[c] = "runner"
            /\ \A d \in Children : d # c => wrap'[d] = wrap[d] /\ by'[d] = by[d]
            /\ wrap' = [wrap EXCEPT ![c] = "release"] /\ by' = [by EXCEPT ![c] = "runner"]
        BY <1>0, <1>2, <2>1, <2>2 DEF FinalSuspend, Handshake, TypeOK
      <3>2. TypeOK'
        BY <1>0, <2>1, <3>1 DEF TypeOK
      <3>3. Handshake'
        BY <1>0, <2>1, <3>1 DEF Handshake
      <3>4. PastAwaitIsDone'
        BY <1>0, <2>1, <3>1 DEF PastAwaitIsDone, Done
      <3>5. CountsUnreleased'
        BY <1>0, <2>1, <3>1, CountKept
      <3>6. LastResumes' /\ ParentRunsInWrapper'
        BY <1>0, <2>1, <3>1 DEF LastResumes, ParentRunsInWrapper
      <3>7. StarterInLoop'
        BY <1>0, <2>1, <3>1 DEF StarterInLoop, InWrapper
      <3>8. QED
        BY <3>2, <3>3, <3>4, <3>5, <3>6, <3>7 DEF AwaitInv
    <2>3. CASE ~flag[c]
      <3>1. UNCHANGED <<wrap, by>> /\ wrap[c] # "awaiting"
        BY <1>0, <1>2, <2>3 DEF FinalSuspend, wrapVars, Handshake
      <3>2. TypeOK'
        BY <1>0, <2>1, <3>1 DEF TypeOK
      <3>3. Handshake'
        BY <1>0, <2>1, <3>1 DEF Handshake
      <3>4. PastAwaitIsDone'
        BY <1>0, <2>1, <3>1 DEF PastAwaitIsDone, Done
      <3>5. CountsUnreleased'
        BY <1>0, <2>1, <3>1, CountKept
      <3>6. LastResumes' /\ ParentRunsInWrapper'
        BY <1>0, <2>1, <3>1 DEF LastResumes, ParentRunsInWrapper
      <3>7. StarterInLoop'
        BY <1>0, <2>1, <3>1 DEF StarterInLoop, InWrapper
      <3>8. QED
        BY <3>2, <3>3, <3>4, <3>5, <3>6, <3>7 DEF AwaitInv
    <2>4. QED
      BY <2>2, <2>3, <1>0 DEF TypeOK
  <1>3. ASSUME BeginAwait \/ EndLoop \/ Acquire PROVE AwaitInv'
    <2>1. UNCHANGED <<blocking, job, flag, cont, wrap, by, counter, next, parent>>
      BY <1>3 DEF BeginAwait, EndLoop, Acquire, jobVars, wrapVars, countVars
    <2>2. Handshake' /\ PastAwaitIsDone' /\ LastResumes'
      BY <1>0, <2>1 DEF Handshake, PastAwaitIsDone, LastResumes, Done
    <2>3. CountsUnreleased'
      BY <1>0, <2>1, CountKept
    <2>4. CASE BeginAwait
      <3>1. starter = "begin" /\ starter' = "loop" /\ awaiting' = TRUE /\ UNCHANGED <<semaphore, alive>>
        BY <2>4 DEF BeginAwait
      <3>2. QED
        BY <1>0, <2>1, <2>2, <2>3, <3>1
           DEF AwaitInv, TypeOK, ParentRunsInWrapper, StarterInLoop, InWrapper
    <2>5. CASE EndLoop
      <3>1. starter = "loop" /\ next \notin Children /\ starter' \in {"acquire", "returned"}
            /\ UNCHANGED <<awaiting, semaphore, alive>>
        BY <2>5 DEF EndLoop, countVars
      <3>2. QED
        BY <1>0, <2>1, <2>2, <2>3, <3>1
           DEF AwaitInv, TypeOK, ParentRunsInWrapper, StarterInLoop, InWrapper
    <2>6. CASE Acquire
      <3>1. starter = "acquire" /\ starter' = "returned" /\ semaphore > 0
            /\ semaphore' = semaphore - 1 /\ alive' = FALSE /\ awaiting' = awaiting
        BY <2>6 DEF Acquire, countVars
      <3>2. parent = "ended" /\ semaphore' \in 0 .. 1
        BY <1>0, <3>1 DEF TypeOK, ParentRunsInWrapper
      <3>3. TypeOK'
        BY <1>0, <2>1, <3>1, <3>2 DEF TypeOK
      <3>4. ParentRunsInWrapper'
        BY <1>0, <2>1, <3>2 DEF ParentRunsInWrapper
      <3>5. StarterInLoop'
        BY <1>0, <2>1, <3>1 DEF StarterInLoop, InWrapper
      <3>6. QED
        BY <2>2, <2>3, <3>3, <3>4, <3>5 DEF AwaitInv
    <2>7. QED
      BY <1>3, <2>4, <2>5, <2>6
  <1>4. ASSUME StartChild PROVE AwaitInv'
    <2>1. /\ UNCHANGED <<blocking, job, flag, cont, by, counter, awaiting, next, parent, semaphore, alive>>
          /\ starter = "loop" /\ next \in Children /\ starter' = "child"
          /\ wrap' = [wrap EXCEPT ![next] = "testDone"]
      BY <1>4 DEF StartChild, jobVars, countVars
    <2>2. wrap[next] = "initial" /\ wrap'[next] = "testDone"
          /\ \A d \in Children : d # next => wrap'[d] = wrap[d]
      BY <1>0, <2>1 DEF StarterInLoop, TypeOK
    <2>3. TypeOK'
      BY <1>0, <2>1 DEF TypeOK
    <2>4. Handshake' /\ PastAwaitIsDone'
      BY <1>0, <2>1, <2>2 DEF Handshake, PastAwaitIsDone, Done
    <2>5. CountsUnreleased'
      BY <1>0, <2>1, <2>2, CountKept
    <2>6. LastResumes' /\ ParentRunsInWrapper'
      BY <1>0, <2>1, <2>2 DEF LastResumes, ParentRunsInWrapper
    <2>7. StarterInLoop'
      <3>1. by[next] = "starter"
        BY <1>0, <2>1, <2>2 DEF StarterInLoop
      <3>2. \A d \in Children : d # next => (InWrapper(d)' <=> InWrapper(d))
        BY <2>2 DEF InWrapper
      <3>3. \A d \in Children : wrap'[d] = "initial" <=> d > next
        BY <1>0, <2>1, <2>2, JoinAssumption DEF StarterInLoop, Children
      <3>4. QED
        BY <1>0, <2>1, <2>2, <3>1, <3>2, <3>3 DEF StarterInLoop, InWrapper
    <2>8. QED
      BY <2>3, <2>4, <2>5, <2>6, <2>7 DEF AwaitInv
  <1>5. ASSUME NEW c \in Children, TestDone(c) \/ SetContinuation(c) PROVE AwaitInv'
    <2>1. /\ UNCHANGED <<blocking, job, flag, by, counter, awaiting, starter, next, parent,
                         semaphore, alive>>
          /\ wrap[c] \in {"testDone", "setCont"}
          /\ wrap'[c] \in {"setCont", "testFlag", "release"}
          /\ wrap'[c] = "testFlag" => cont'[c]
          /\ wrap'[c] = "release" => Done(c)
          /\ \A d \in Children : d # c => wrap'[d] = wrap[d] /\ cont'[d] = cont[d]
          /\ wrap' \in [Children -> {"initial", "testDone", "setCont", "testFlag", "awaiting",
                                     "release", "resumeParent", "ended"}]
          /\ cont' \in [Children -> BOOLEAN]
      BY <1>0, <1>5 DEF TestDone, SetContinuation, jobVars, countVars, TypeOK, Done
    <2>2. TypeOK'
      BY <1>0, <2>1 DEF TypeOK
    <2>3. Handshake' /\ PastAwaitIsDone'
      BY <1>0, <2>1 DEF Handshake, PastAwaitIsDone, Done
    <2>4. CountsUnreleased'
      BY <1>0, <2>1, CountKept
    <2>5. LastResumes' /\ ParentRunsInWrapper'
      BY <1>0, <2>1 DEF LastResumes, ParentRunsInWrapper
    <2>6. StarterInLoop'
      BY <1>0, <2>1, StaysInWrapper DEF InWrapper
    <2>7. QED
      BY <2>2, <2>3, <2>4, <2>5, <2>6 DEF AwaitInv
  <1>6. ASSUME NEW c \in Children, TestFlag(c) PROVE AwaitInv'
    <2>1. /\ UNCHANGED <<blocking, job, by, counter, awaiting, parent, semaphore, alive>>
          /\ wrap[c] = "testFlag" /\ flag'[c] = TRUE
          /\ \A d \in Children : d # c => /\ flag'[d] = flag[d] /\ wrap'[d] = wrap[d]
                                          /\ cont'[d] = cont[d]
          /\ flag' \in [Children -> BOOLEAN] /\ cont' \in [Children -> BOOLEAN]
          /\ wrap' \in [Children -> {"initial", "testDone", "setCont", "testFlag", "awaiting",
                                     "release", "resumeParent", "ended"}]
          /\ flag[c] => wrap'[c] = "release" /\ UNCHANGED <<starter, next>>
          /\ ~flag[c] => wrap'[c] = "awaiting" /\ LeaveChild(c) /\ cont'[c] = cont[c]
      BY <1>0, <1>6 DEF TestFlag, countVars, TypeOK
    <2>2. flag[c] => job[c] = "ended"
      BY <1>0, <2>1 DEF Handshake
    <2>3. ~flag[c] => job[c] # "ended"
      BY <1>0 DEF Handshake
    <2>4. Handshake' /\ PastAwaitIsDone'
      BY <1>0, <2>1, <2>2, <2>3 DEF Handshake, PastAwaitIsDone, Done
    <2>5. CountsUnreleased'
      BY <1>0, <2>1, CountKept
    <2>6. LastResumes' /\ ParentRunsInWrapper'
      BY <1>0, <2>1 DEF LastResumes, ParentRunsInWrapper
    <2>7. /\ StarterInLoop'
          /\ next' \in 1 .. ChildrenCount + 1
          /\ starter' \in {"begin", "loop", "child", "acquire", "returned"}
      <3>1. CASE flag[c]
        <4>1. InWrapper(c) /\ InWrapper(c)'
          BY <2>1, <3>1 DEF InWrapper
        <4>2. StarterInLoop'
          BY <1>0, <2>1, <3>1, <4>1, StaysInWrapper
        <4>3. QED
          BY <1>0, <2>1, <3>1, <4>2 DEF TypeOK
      <3>2. CASE ~flag[c]
        BY <1>0, <2>1, <3>2, LeavesWrapper DEF InWrapper
      <3>3. QED
        BY <3>1, <3>2
    <2>8. TypeOK'
      BY <1>0, <2>1, <2>7 DEF TypeOK
    <2>9. QED
      BY <2>4, <2>5, <2>6, <2>7, <2>8 DEF AwaitInv
  <1>7. ASSUME NEW c \in Children, Release(c) PROVE AwaitInv'
    <2>1. /\ UNCHANGED <<blocking, job, flag, cont, by, awaiting, parent, semaphore, alive>>
          /\ wrap[c] = "release" /\ counter' = counter - 1
          /\ \A d \in Children : d # c => wrap'[d] = wrap[d]
          /\ wrap' \in [Children -> {"initial", "testDone", "setCont", "testFlag", "awaiting",
                                     "release", "resumeParent", "ended"}]
          /\ counter = 1 => wrap'[c] = "resumeParent" /\ UNCHANGED <<starter, next>>
          /\ counter # 1 => wrap'[c] = "ended" /\ LeaveChild(c)
      BY <1>0, <1>7 DEF Release, jobVars, TypeOK
    <2>2. /\ CountsUnreleased'
          /\ counter \in 1 .. ChildrenCount
          /\ counter = 1 => \A d \in Children : d # c => wrap[d] \in {"resumeParent", "ended"}
      BY <1>0, <2>1, CountReleased
    <2>3. Handshake' /\ PastAwaitIsDone'
      BY <1>0, <2>1 DEF Handshake, PastAwaitIsDone, Done
    <2>4. \A d \in Children : wrap[d] # "resumeParent"
      BY <1>0, <2>1 DEF LastResumes
    <2>5. parent = "suspended"
      BY <1>0, <2>1, <2>4 DEF ParentRunsInWrapper, TypeOK
    <2>6. LastResumes'
      BY <2>1, <2>2, <2>4, <2>5, JoinAssumption DEF LastResumes
    <2>7. ParentRunsInWrapper'
      BY <1>0, <2>1, <2>5 DEF ParentRunsInWrapper
    <2>8. /\ StarterInLoop'
          /\ next' \in 1 .. ChildrenCount + 1
          /\ starter' \in {"begin", "loop", "child", "acquire", "returned"}
      <3>1. CASE counter = 1
        <4>1. InWrapper(c) /\ InWrapper(c)'
          BY <2>1, <3>1 DEF InWrapper
        <4>2. StarterInLoop'
          BY <1>0, <2>1, <3>1, <4>1, StaysInWrapper
        <4>3. QED
          BY <1>0, <2>1, <3>1, <4>2 DEF TypeOK
      <3>2. CASE counter # 1
        BY <1>0, <2>1, <3>2, LeavesWrapper DEF InWrapper
      <3>3. QED
        BY <3>1, <3>2
    <2>9. TypeOK'
      <3>1. counter' \in 0 .. ChildrenCount
        BY <2>1, <2>2, JoinAssumption
      <3>2. QED
        BY <1>0, <2>1, <2>8, <3>1 DEF TypeOK
    <2>10. QED
      BY <2>2, <2>3, <2>6, <2>7, <2>8, <2>9 DEF AwaitInv
  <1>8. ASSUME NEW c \in Children, ResumeParent(c) PROVE AwaitInv'
    <2>1. awaiting
      BY <1>0, <1>8, JoinAssumption DEF ResumeParent, StarterInLoop, TypeOK, Children
    <2>2. /\ UNCHANGED <<blocking, job, flag, cont, wrap, by, counter, awaiting, starter, next,
                         semaphore, alive>>
          /\ wrap[c] = "resumeParent" /\ parent = "suspended" /\ parent' = "running"
      BY <1>8, <2>1 DEF ResumeParent, jobVars, countVars
    <2>3. TypeOK' /\ Handshake' /\ PastAwaitIsDone' /\ LastResumes' /\ ParentRunsInWrapper'
      BY <1>0, <2>2
         DEF TypeOK, Handshake, PastAwaitIsDone, Done, LastResumes, ParentRunsInWrapper
    <2>4. CountsUnreleased'
      BY <1>0, <2>2, CountKept
    <2>5. StarterInLoop'
      BY <1>0, <2>2 DEF StarterInLoop, InWrapper
    <2>6. QED
      BY <2>3, <2>4, <2>5 DEF AwaitInv
  <1>9. ASSUME NEW c \in Children, FinishParent(c) PROVE AwaitInv'
    <2>1. /\ UNCHANGED <<blocking, job, flag, cont, by, counter, awaiting>>
          /\ wrap[c] = "resumeParent" /\ wrap'[c] = "ended"
          /\ parent = "running" /\ parent' = "ended" /\ LeaveChild(c)
          /\ \A d \in Children : d # c => wrap'[d] = wrap[d]
          /\ wrap' \in [Children -> {"initial", "testDone", "setCont", "testFlag", "awaiting",
                                     "release", "resumeParent", "ended"}]
      BY <1>0, <1>9 DEF FinishParent, jobVars, countVars, TypeOK
    <2>2. \A d \in Children : wrap'[d] = "ended"
      BY <1>0, <2>1 DEF LastResumes
    <2>3. semaphore' \in 0 .. 1 /\ alive' \in BOOLEAN
      <3>1. semaphore = 0
        BY <1>0, <2>1 DEF ParentRunsInWrapper, TypeOK
      <3>2. CASE blocking
        BY <1>0, <1>9, <3>1, <3>2 DEF FinishParent, TypeOK
      <3>3. CASE ~blocking
        BY <1>0, <1>9, <3>1, <3>3 DEF FinishParent, TypeOK
      <3>4. QED
        BY <3>2, <3>3
    <2>4. /\ StarterInLoop'
          /\ next' \in 1 .. ChildrenCount + 1
          /\ starter' \in {"begin", "loop", "child", "acquire", "returned"}
      BY <1>0, <2>1, LeavesWrapper DEF InWrapper
    <2>5. TypeOK'
      BY <1>0, <2>1, <2>3, <2>4 DEF TypeOK
    <2>6. Handshake' /\ PastAwaitIsDone'
      BY <1>0, <2>1 DEF Handshake, PastAwaitIsDone, Done
    <2>7. CountsUnreleased'
      BY <1>0, <2>1, CountKept
    <2>8. LastResumes' /\ ParentRunsInWrapper'
      BY <2>1, <2>2 DEF LastResumes, ParentRunsInWrapper
    <2>9. QED
      BY <2>4, <2>5, <2>6, <2>7, <2>8 DEF AwaitInv
  <1>10. ASSUME UNCHANGED vars PROVE AwaitInv'
    <2>1. UNCHANGED <<blocking, job, flag, cont, wrap, by, counter, awaiting, starter, next, parent,
                      semaphore, alive>>
      BY <1>10 DEF vars, jobVars, wrapVars, countVars
    <2>2. CountsUnreleased'
      BY <1>0, <2>1, CountKept
    <2>3. QED
      BY <1>0, <2>1, <2>2
         DEF AwaitInv, TypeOK, Handshake, PastAwaitIsDone, Done, LastResumes, ParentRunsInWrapper,
             StarterInLoop, InWrapper
  <1>11. QED
    BY <1>1, <1>2, <1>3, <1>4, <1>5, <1>6, <1>7, <1>8, <1>9, <1>10
       DEF Next, Starter, Job, Wrapper

LEMMA AwaitInvariant == Spec => []AwaitInv
  BY InitAwait, NextAwait, PTL DEF Spec

(***************************************************************************)
(* The theorems.                                                           *)
(***************************************************************************)
\* Every variable of awaitAllTasks has its type; above all its counter
\* (AwaitAllTasksCounter) never passes below zero.
THEOREM TypeCorrect == Spec => []TypeOK
  <1>1. AwaitInv => TypeOK
    BY DEF AwaitInv
  <1>2. QED
    BY AwaitInvariant, <1>1, PTL

\* A job that finds its flag set at its final suspend finds the continuation
\* written and the wrapper suspended in it (trySetContinuation against
\* FinalSuspendAwaiter), for any number of jobs.
THEOREM HandshakeIsComplete == Spec => []HandshakeComplete
  <1>1. AwaitInv => HandshakeComplete
    BY DEF AwaitInv, Handshake, HandshakeComplete
  <1>2. QED
    BY AwaitInvariant, <1>1, PTL

\* When the AwaitAllTasks object and the wrappers are destroyed, whether by the
\* parent or by the thread of waitOnAwaitable, no thread is to use them any more.
THEOREM NothingUsedAfterDestroyed == Spec => []FramesOutliveUse
  <1>1. ASSUME AwaitInv, ~alive PROVE FramesOutliveUse
    <2>1. \A c \in Children : wrap[c] = "ended"
      BY <1>1 DEF AwaitInv, ParentRunsInWrapper
    <2>2. next \notin Children
      BY <1>1, <2>1 DEF AwaitInv, StarterInLoop, InWrapper
    <2>3. starter # "begin"
      BY <1>1, <2>2, JoinAssumption DEF AwaitInv, StarterInLoop, Children
    <2>4. QED
      BY <2>1, <2>2, <2>3 DEF FramesOutliveUse
  <1>2. AwaitInv => FramesOutliveUse
    BY <1>1 DEF FramesOutliveUse
  <1>3. QED
    BY AwaitInvariant, <1>2, PTL

(***************************************************************************)
(* awaitAllTasks implements Join: the parent goes on at most once, and     *)
(* only when every job has finished.                                       *)
(***************************************************************************)
DoneJobs == {c \in Children : job[c] \in {"final", "ended"}}

\* The wrapper that resumes the parent finds every job finished: its own and,
\* since they have ended, those of all other wrappers.
LEMMA ResumesAfterAll ==
  ASSUME AwaitInv, NEW c \in Children, ResumeParent(c)
  PROVE  DoneJobs = Children /\ parent = "suspended" /\ job' = job /\ parent' \in {"suspended", "running"}
  <1>1. wrap[c] = "resumeParent" /\ parent = "suspended" /\ job' = job
    BY DEF ResumeParent, jobVars
  <1>2. \A d \in Children : wrap[d] \in {"resumeParent", "ended"}
    BY <1>1 DEF AwaitInv, LastResumes
  <1>3. DoneJobs = Children
    BY <1>2 DEF AwaitInv, PastAwaitIsDone, Done, DoneJobs
  <1>4. parent' \in {"suspended", "running"}
    BY DEF ResumeParent
  <1>5. QED
    BY <1>1, <1>3, <1>4

LEMMA NextJoin == AwaitInv /\ [Next]_vars => [J!Next]_(J!vars)
  <1> SUFFICES ASSUME AwaitInv, [Next]_vars PROVE [J!Next]_(J!vars)
    OBVIOUS
  <1>0. TypeOK
    BY DEF AwaitInv
  <1>1. ASSUME NEW c \in Children, FinishBody(c) PROVE J!Finish(c)
    <2>1. job[c] = "running" /\ job' = [job EXCEPT ![c] = "final"] /\ parent' = parent
      BY <1>1 DEF FinishBody
    <2>2. c \notin DoneJobs /\ DoneJobs' = DoneJobs \cup {c}
      BY <1>0, <2>1 DEF DoneJobs, TypeOK
    <2>3. QED
      BY <2>1, <2>2 DEF J!Finish, DoneJobs
  <1>2. ASSUME NEW c \in Children, RunJob(c) \/ FinalSuspend(c) PROVE UNCHANGED J!vars
    <2>1. /\ parent' = parent
          /\ \A d \in Children : job'[d] \in {"final", "ended"} <=> job[d] \in {"final", "ended"}
      BY <1>0, <1>2 DEF RunJob, FinalSuspend, TypeOK
    <2>2. QED
      BY <2>1 DEF J!vars
  <1>3. ASSUME NEW c \in Children, ResumeParent(c) PROVE [J!Next]_(J!vars)
    BY <1>3, ResumesAfterAll DEF J!Next, J!Resume, J!vars, DoneJobs
  <1>4. ASSUME NEW c \in Children, FinishParent(c) PROVE UNCHANGED J!vars
    BY <1>4 DEF FinishParent, jobVars, J!vars
  <1>5. ASSUME NEW c \in Children, TestDone(c) \/ SetContinuation(c) \/ TestFlag(c) \/ Release(c)
        PROVE UNCHANGED J!vars
    BY <1>5 DEF TestDone, SetContinuation, TestFlag, Release, jobVars, J!vars
  <1>6. ASSUME Starter PROVE UNCHANGED J!vars
    BY <1>6 DEF Starter, BeginAwait, StartChild, EndLoop, Acquire, jobVars, J!vars
  <1>7. ASSUME UNCHANGED vars PROVE UNCHANGED J!vars
    BY <1>7 DEF vars, jobVars, J!vars
  <1>8. QED
    BY <1>1, <1>2, <1>3, <1>4, <1>5, <1>6, <1>7 DEF Next, Job, Wrapper, J!Next

\* The safety part of ImplementsFairJoin, for every number of jobs: whatever
\* awaits them goes on once and after all of them have finished.
THEOREM ImplementsJoin == Spec => J!Spec
  <1>1. Init => J!Init
    BY DEF Init, J!Init
  <1>2. QED
    BY <1>1, NextJoin, AwaitInvariant, PTL DEF Spec, J!Spec
=============================================================================
