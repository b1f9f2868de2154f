--------------------------- MODULE ThreadSyncProofs ---------------------------
(***************************************************************************)
(* That waitForThreadSync counts right, for every number of workers,       *)
(* waiting threads, callers and jobs: the latch of a call, which is on the *)
(* stack of the thread that waits, stands at the number of coroutines that *)
(* can still touch it.                                                     *)
(***************************************************************************)
EXTENDS MCThreadSync, WorkerPoolProofs

(***************************************************************************)
(* The inductive invariant.  What is proved of the pool's coroutines, that *)
(* each is in one place (PlaceInv), holds of those of a call too; what is  *)
(* particular to them is that nobody else ever enqueues them and that they *)
(* only ever wait in the queue they were pushed to.                        *)
(***************************************************************************)
ToPush(t, w) == sync[t] = "none" \/ (sync[t] = "push" /\ w >= at[t])

Waits(j, v, p) == \E n \in Nat : At(j, v, p, n)

StaysInItsQueue(j, w) ==
    /\ j \notin toMain /\ ~Carried(j)
    /\ \A v \in Workers, p \in Priorities : Waits(j, v, p) => v = w /\ p = PriorityLow

SyncPlaces ==
    \A t \in Waiters, w \in Workers :
        /\ StaysInItsQueue(<<t, w>>, w)
        /\ ToPush(t, w) \/ w \notin Synced(t) => <<t, w>> \in idle

LoopsFromFirst == \A t \in Waiters : sync[t] = "none" => at[t] = 0

\* The coroutines of a call that are underway or still to be pushed.
Counted(t) == {w \in Synced(t) : <<t, w>> \notin idle \/ (sync[t] = "push" /\ w >= at[t])}

LatchIsCounted == \A t \in Waiters : allWorkerSync[t] = Cardinality(Counted(t))

ReturnsAtZero == \A t \in Waiters : sync[t] = "done" => allWorkerSync[t] = 0

SyncInv ==
    /\ PlaceInv
    /\ SyncTypeOK
    /\ LoopsFromFirst
    /\ SyncPlaces
    /\ LatchIsCounted
    /\ ReturnsAtZero

LEMMA SyncFacts ==
  /\ WorkersCount \in Nat \ {0} /\ Workers = 0 .. WorkersCount - 1 /\ 0 \in Workers
  /\ PriorityLow \in Priorities
  /\ \A t \in Waiters, w \in Workers : <<t, w>> \in Jobs /\ <<t, w>> \in SyncJobs
  /\ \A j \in SyncJobs : j \in Jobs /\ j[1] \in Waiters /\ j[2] \in Workers /\ j = <<j[1], j[2]>>
  /\ IsFiniteSet(Workers) /\ Cardinality(Workers) = WorkersCount
  <1>1. WorkersCount \in Nat \ {0} /\ Workers = 0 .. WorkersCount - 1 /\ 0 \in Workers
    BY PoolAssumption DEF Workers
  <1>2. PriorityLow \in Priorities
    BY PoolAssumption DEF Priorities, PriorityLow
  <1>3. \A t \in Waiters, w \in Workers : <<t, w>> \in Jobs /\ <<t, w>> \in SyncJobs
    BY SyncAssumption DEF SyncJobs
  <1>4. \A j \in SyncJobs : j \in Jobs /\ j[1] \in Waiters /\ j[2] \in Workers /\ j = <<j[1], j[2]>>
    BY SyncAssumption DEF SyncJobs
  <1>5. IsFiniteSet(Workers) /\ Cardinality(Workers) = WorkersCount
    <2>1. 0 \in Int /\ WorkersCount - 1 \in Int /\ (WorkersCount - 1) - 0 + 1 = WorkersCount
          /\ ~(0 > WorkersCount - 1)
      BY <1>1
    <2> QED
      BY <1>1, <2>1, FS_Interval
  <1> QED
    BY <1>1, <1>2, <1>3, <1>4, <1>5

\* Sets of workers are finite, and counted by at most WorkersCount.
LEMMA CountWorkers ==
  ASSUME NEW S \in SUBSET Workers
  PROVE  IsFiniteSet(S) /\ Cardinality(S) \in 0 .. WorkersCount
  <1>1. IsFiniteSet(S) /\ Cardinality(S) <= Cardinality(Workers) /\ Cardinality(S) \in Nat
    BY SyncFacts, FS_Subset, FS_CardinalityType
  <1> QED
    BY <1>1, SyncFacts

\* The steps of the pool that may happen in a synchronizing system: nobody
\* enqueues the coroutine of a call.
PoolStep ==
    \/ \E t \in Threads, k \in Jobs \ SyncJobs : EnqueueJob(t, k)
    \/ \E t \in Threads : CallStep(t)
    \/ \E w \in Workers : cur[w] \notin SyncJobs /\ WorkerStep(w)
    \/ RedirectToMain \/ ShutdownStep \/ UNCHANGED vars

\* They leave such a coroutine idle, or not, and move it into no queue.
LEMMA PoolKeepsSync ==
  ASSUME PlaceInv, PoolStep, NEW j \in SyncJobs, NEW w \in Workers, StaysInItsQueue(j, w)
  PROVE  StaysInItsQueue(j, w)' /\ (j \in idle' <=> j \in idle)
  <1>0. /\ TypeOK /\ CarriesOnlyInPush /\ CarriedByOne /\ j \in Jobs /\ j # NoJob
        /\ j \notin toMain /\ ~Carried(j)
    BY SyncFacts, PoolAssumption DEF PlaceInv, StaysInItsQueue
  <1> SUFFICES /\ j \notin toMain' /\ ~Carried(j)' /\ (j \in idle' <=> j \in idle)
               /\ \A v \in Workers, p \in Priorities : Waits(j, v, p)' => Waits(j, v, p)
    BY DEF StaysInItsQueue
  <1>1. ASSUME NEW t \in Threads, NEW k \in Jobs \ SyncJobs, call[t].phase = "none", EnterEnqueue(t, k)
        PROVE  /\ j \notin toMain' /\ ~Carried(j)'
               /\ \A v \in Workers, p \in Priorities : Waits(j, v, p)' => Waits(j, v, p)
    <2>1. /\ UNCHANGED jobQ /\ j # k
          /\ (toMain' = toMain /\ call'[t].job = k) \/ (toMain' = toMain \cup {k} /\ UNCHANGED call)
          /\ \A u \in Threads : u # t => call'[u] = call[u]
      BY <1>0, <1>1, EnterMoves
    <2>2. \A u \in Threads : call'[u].job # j
      BY <1>0, <2>1 DEF Carried
    <2> QED
      BY <1>0, <2>1, <2>2 DEF Carried, Waits, At
  <1>2. CASE \E t \in Threads, k \in Jobs \ SyncJobs : EnqueueJob(t, k)
    <2>1. PICK t \in Threads, k \in Jobs \ SyncJobs : EnqueueJob(t, k)
      BY <1>2
    <2>2. call[t].phase = "none" /\ EnterEnqueue(t, k) /\ idle' = idle \ {k}
      BY <2>1 DEF EnqueueJob, CanCall
    <2> QED
      BY <1>1, <2>2
  <1>3. CASE \E t \in Threads : PushJob(t)
    <2>1. PICK t \in Threads : PushJob(t)
      BY <1>3
    <2>2. PICK k \in Jobs : k = call[t].job
      BY <1>0, <2>1 DEF PushJob, TypeOK
    <2>3. k # j /\ ~Carried(j)' /\ UNCHANGED <<idle, toMain>>
      BY <1>0, <2>1, <2>2, PushPlaces DEF Carried
    <2>4. PICK v \in Workers, r \in Priorities : v = call[t].target /\ r = PriorityOf[k]
      BY <1>0, PoolAssumption DEF TypeOK, Calls
    <2>5. jobQ' = [jobQ EXCEPT ![v][r] = Append(@, k)]
      BY <2>1, <2>2, <2>4 DEF PushJob
    <2>6. \A u \in Workers, p \in Priorities, n \in Nat : At(j, u, p, n)' => At(j, u, p, n)
      <3> SUFFICES ASSUME NEW u \in Workers, NEW p \in Priorities, NEW n \in Nat, At(j, u, p, n)'
                   PROVE  At(j, u, p, n)
        OBVIOUS
      <3>1. jobQ[u][p] \in Seq(Jobs)
        BY <1>0 DEF TypeOK
      <3>2. CASE u = v /\ p = r
        <4>1. jobQ'[u][p] = Append(jobQ[u][p], k)
          BY <1>0, <2>5, <3>2 DEF TypeOK
        <4> QED
          BY <2>3, <3>1, <4>1 DEF At
      <3>3. CASE u # v \/ p # r
        <4>1. jobQ'[u][p] = jobQ[u][p]
          BY <1>0, <2>5, <3>3 DEF TypeOK
        <4> QED
          BY <4>1 DEF At
      <3> QED
        BY <3>2, <3>3
    <2> QED
      BY <1>0, <2>3, <2>6 DEF Waits
  <1>4. ASSUME NEW u \in Workers, cur[u] \notin SyncJobs, TakeJob(u)
        PROVE  /\ UNCHANGED <<idle, toMain, call>>
               /\ \A v \in Workers, p \in Priorities : Waits(j, v, p)' => Waits(j, v, p)
    <2>1. PICK v \in Workers, r \in Priorities : v = from[u] /\ r = prio[u]
      BY <1>0 DEF TypeOK
    <2>2. /\ UNCHANGED <<idle, toMain, call>> /\ jobQ[v][r] # <<>>
          /\ jobQ' = [jobQ EXCEPT ![v][r] = Tail(jobQ[v][r])]
      BY <1>4, <2>1 DEF TakeJob
    <2>3. ASSUME NEW x \in Workers, NEW p \in Priorities, NEW n \in Nat, At(j, x, p, n)'
          PROVE  Waits(j, x, p)
      <3>1. jobQ[x][p] \in Seq(Jobs)
        BY <1>0 DEF TypeOK
      <3>2. CASE x = v /\ p = r
        <4>1. jobQ'[x][p] = Tail(jobQ[x][p]) /\ jobQ[x][p] # <<>>
          BY <1>0, <2>2, <3>2 DEF TypeOK
        <4>2. /\ Len(Tail(jobQ[x][p])) = Len(jobQ[x][p]) - 1 /\ Len(jobQ[x][p]) \in Nat
              /\ \A m \in 1 .. Len(jobQ[x][p]) - 1 : Tail(jobQ[x][p])[m] = jobQ[x][p][m + 1]
          BY <3>1, <4>1, TailEntries
        <4>3. n \in 1 .. Len(jobQ[x][p]) - 1 /\ jobQ[x][p][n + 1] = j
          BY <2>3, <4>1, <4>2 DEF At
        <4>4. At(j, x, p, n + 1) /\ n + 1 \in Nat
          BY <4>2, <4>3 DEF At
        <4> QED
          BY <4>4 DEF Waits
      <3>3. CASE x # v \/ p # r
        <4>1. jobQ'[x][p] = jobQ[x][p]
          BY <1>0, <2>2, <3>3 DEF TypeOK
        <4> QED
          BY <2>3, <4>1 DEF At, Waits
      <3> QED
        BY <3>2, <3>3
    <2> QED
      BY <2>2, <2>3 DEF Waits
  <1>5. ASSUME NEW u \in Workers, cur[u] \notin SyncJobs, SwitchJobThread(u)
        PROVE  /\ j \notin toMain' /\ ~Carried(j)' /\ (j \in idle' <=> j \in idle)
               /\ \A v \in Workers, p \in Priorities : Waits(j, v, p)' => Waits(j, v, p)
    <2>1. u \in Threads /\ cur[u] \in Jobs \ SyncJobs /\ call[u].phase = "none"
          /\ EnterEnqueue(u, cur[u]) /\ UNCHANGED idle
      BY <1>0, <1>5 DEF SwitchJobThread, CanCall, Threads, TypeOK
    <2>2. PICK k \in Jobs \ SyncJobs : k = cur[u]
      BY <2>1
    <2>3. EnterEnqueue(u, k)
      BY <2>1, <2>2
    <2> QED
      BY <1>1, <2>1, <2>3
  <1>6. ASSUME NEW u \in Workers, cur[u] \notin SyncJobs, SuspendJob(u)
        PROVE  UNCHANGED <<jobQ, toMain, call>> /\ (j \in idle' <=> j \in idle)
    BY <1>6 DEF SuspendJob
  <1>7. CASE \/ \E t \in Threads : NotifyTarget(t)
             \/ \E u \in Workers : OtherWorkerStep(u)
             \/ RedirectToMain \/ ShutdownStep \/ UNCHANGED vars
    <2>1. UNCHANGED <<idle, toMain>> /\ ~Carried(j)'
      BY <1>0, <1>7, OthersKeepPlaces
    <2>2. UNCHANGED jobQ
      BY <1>7 DEF NotifyTarget, OtherWorkerStep, NextPriority, StartStealing, NothingFound, ResumeReturns,
                  TestExit, WaitForJob, ClearFlag, ExitWorker, RedirectToMain, ShutdownStep, RequestExit,
                  NotifyWorker, TryShutdown, vars
    <2> QED
      BY <1>0, <2>1, <2>2 DEF Waits, At
  <1>8. ASSUME NEW u \in Workers, cur[u] \notin SyncJobs, WorkerStep(u),
               ~TakeJob(u), ~SwitchJobThread(u), ~SuspendJob(u)
        PROVE  OtherWorkerStep(u)
    BY <1>8 DEF WorkerStep, OtherWorkerStep
  <1>9. CASE \E u \in Workers : cur[u] \notin SyncJobs /\ TakeJob(u)
    BY <1>0, <1>4, <1>9 DEF Carried
  <1>10. CASE \E u \in Workers : cur[u] \notin SyncJobs /\ SwitchJobThread(u)
    BY <1>5, <1>10
  <1>11. CASE \E u \in Workers : cur[u] \notin SyncJobs /\ SuspendJob(u)
    BY <1>0, <1>6, <1>11 DEF Carried, Waits, At
  <1> QED
    BY <1>2, <1>3, <1>7, <1>8, <1>9, <1>10, <1>11 DEF PoolStep, CallStep

(***************************************************************************)
(* The steps of a call.                                                    *)
(***************************************************************************)

\* NextThread goes through the workers one after another.
LEMMA NextThreadMoves ==
  ASSUME SyncTypeOK, NEW t \in Waiters, NEW after \in {"notify", "wait"},
         sync[t] \in {"push", "notify"}, NextThread(t, after)
  PROVE  /\ sync' \in [Waiters -> {"none", "push", "notify", "wait", "done"}]
         /\ at' \in [Waiters -> Workers]
         /\ \A u \in Waiters : u # t => sync'[u] = sync[u] /\ at'[u] = at[u]
         /\ \/ sync'[t] = sync[t] /\ at'[t] = at[t] + 1
            \/ sync'[t] = after /\ at[t] + 1 \notin Workers
  BY SyncFacts DEF SyncTypeOK, NextThread

\* The coroutine of a call for worker v goes from the hands of the waiter into
\* the lowest queue of v.
GoesToQueue(j, v) ==
    /\ j \in idle /\ idle' = idle \ {j}
    /\ jobQ' = [jobQ EXCEPT ![v][PriorityLow] = Append(@, j)]
    /\ UNCHANGED <<flag, workerVars, call, enqueues, toMain, latch, mainVars>>

LEMMA PushSyncPlaces ==
  ASSUME PlaceInv, NEW v \in Workers, NEW j \in Jobs, GoesToQueue(j, v)
  PROVE  /\ PlaceInv'
         /\ \A k \in Jobs, u \in Workers, p \in Priorities :
               Waits(k, u, p)' <=> Waits(k, u, p) \/ (k = j /\ u = v /\ p = PriorityLow)
  <1>0. /\ TypeOK /\ HoldsOnlyInRun /\ CarriesOnlyInPush /\ OpenUntilRedirected
        /\ HeldSomewhere /\ HeldInOneKind /\ RunByOne /\ CarriedByOne /\ QueuedOnce
        /\ j \in Jobs /\ ~Queued(j) /\ ~Carried(j) /\ ~Running(j) /\ j \notin toMain
    BY DEF PlaceInv, HeldInOneKind, GoesToQueue
  <1>1. /\ UNCHANGED <<pc, loop, from, prio, cur, call, toMain, redirected, exitFlag, main, mi, flag, latch, enqueues>>
        /\ idle' = idle \ {j} /\ jobQ' = [jobQ EXCEPT ![v][PriorityLow] = Append(@, j)]
    BY DEF workerVars, mainVars, GoesToQueue
  <1>r. PICK r \in Priorities : r = PriorityLow
    BY SyncFacts
  <1>2. \A u \in Workers, p \in Priorities :
           jobQ[u][p] \in Seq(Jobs) /\ (u # v \/ p # r => jobQ'[u][p] = jobQ[u][p])
    BY <1>0, <1>1, <1>r DEF TypeOK
  <1>3. jobQ'[v][r] = Append(jobQ[v][r], j)
    BY <1>0, <1>1, <1>r DEF TypeOK
  <1>n. PICK n \in Nat : n = Len(jobQ[v][r]) + 1
    BY <1>2
  <1>4. \A k \in Jobs, u \in Workers, p \in Priorities, i \in Nat :
           At(k, u, p, i)' <=> At(k, u, p, i) \/ (k = j /\ u = v /\ p = r /\ i = n)
    <2> SUFFICES ASSUME NEW k \in Jobs, NEW u \in Workers, NEW p \in Priorities, NEW i \in Nat
                 PROVE  At(k, u, p, i)' <=> At(k, u, p, i) \/ (k = j /\ u = v /\ p = r /\ i = n)
      OBVIOUS
    <2>1. CASE u = v /\ p = r
      BY <2>1, <1>0, <1>2, <1>3, <1>n DEF At
    <2>2. CASE u # v \/ p # r
      BY <2>2, <1>2 DEF At
    <2> QED
      BY <2>1, <2>2
  <1>5. TypeOK'
    <2>1. jobQ' \in [Workers -> [Priorities -> Seq(Jobs)]]
      <3>1. Append(jobQ[v][r], j) \in Seq(Jobs)
        BY <1>0, <1>2
      <3> QED
        BY <1>0, <1>1, <1>r, <3>1 DEF TypeOK
    <2> QED
      BY <1>0, <1>1, <2>1 DEF TypeOK
  <1>6. /\ \A k \in Jobs : (Running(k)' <=> Running(k)) /\ (Carried(k)' <=> Carried(k))
        /\ Queued(j)' /\ \A k \in Jobs : k # j => (Queued(k)' <=> Queued(k))
    BY <1>0, <1>1, <1>4 DEF Running, Carried, Queued
  <1>7. HoldsOnlyInRun' /\ CarriesOnlyInPush' /\ OpenUntilRedirected' /\ RunByOne' /\ CarriedByOne'
    BY <1>0, <1>1 DEF HoldsOnlyInRun, CarriesOnlyInPush, OpenUntilRedirected, RunByOne, CarriedByOne
  <1>8. QueuedOnce'
    BY <1>0, <1>4 DEF QueuedOnce, Queued
  <1>9. HeldSomewhere' /\ HeldInOneKind'
    BY <1>0, <1>1, <1>6 DEF HeldSomewhere, HeldInOneKind
  <1>10. PlaceInv'
    BY <1>5, <1>7, <1>8, <1>9 DEF PlaceInv
  <1> QED
    BY <1>4, <1>10, <1>r DEF Waits

LEMMA InitSync == SyncInit => SyncInv
  <1> SUFFICES ASSUME SyncInit PROVE SyncInv
    OBVIOUS
  <1>1. PlaceInv /\ idle = Jobs /\ toMain = {}
    BY InitPlaces DEF SyncInit, Init
  <1>2. SyncTypeOK /\ LoopsFromFirst /\ ReturnsAtZero
    BY SyncFacts DEF SyncInit, SyncTypeOK, LoopsFromFirst, ReturnsAtZero
  <1>3. SyncPlaces
    <2>1. ASSUME NEW t \in Waiters, NEW w \in Workers PROVE <<t, w>> \in Jobs /\ StaysInItsQueue(<<t, w>>, w)
      <3>1. <<t, w>> \in Jobs
        BY SyncFacts
      <3>2. ~Carried(<<t, w>>) /\ ~Queued(<<t, w>>)
        BY <1>1, <3>1 DEF PlaceInv, HeldInOneKind
      <3> QED
        BY <1>1, <3>1, <3>2 DEF StaysInItsQueue, Waits, Queued
    <2> QED
      BY <1>1, <2>1 DEF SyncPlaces
  <1>4. LatchIsCounted
    <2> SUFFICES ASSUME NEW t \in Waiters PROVE allWorkerSync[t] = Cardinality(Counted(t))
      BY DEF LatchIsCounted
    <2>1. Counted(t) = {}
      BY <1>1, SyncFacts DEF Counted, SyncInit, Synced
    <2> QED
      BY <2>1, FS_EmptySet DEF SyncInit
  <1> QED
    BY <1>1, <1>2, <1>3, <1>4 DEF SyncInv

\* A step of the pool keeps the invariant.
LEMMA PoolKeepsInv ==
  ASSUME SyncInv, PoolStep, UNCHANGED syncVars
  PROVE  SyncInv'
  <1>0. PlaceInv /\ SyncTypeOK /\ LoopsFromFirst /\ SyncPlaces /\ LatchIsCounted /\ ReturnsAtZero
        /\ UNCHANGED <<sync, at, allWorkerSync>>
    BY DEF SyncInv, syncVars
  <1>1. [Next]_vars
    BY DEF PoolStep, Next
  <1>2. PlaceInv'
    BY <1>0, <1>1, NextPlaces
  <1>3. SyncTypeOK' /\ LoopsFromFirst' /\ ReturnsAtZero'
    BY <1>0 DEF SyncTypeOK, LoopsFromFirst, ReturnsAtZero
  <1>4. ASSUME NEW t \in Waiters, NEW w \in Workers
        PROVE  StaysInItsQueue(<<t, w>>, w)' /\ (<<t, w>> \in idle' <=> <<t, w>> \in idle)
    <2>1. PICK j \in SyncJobs : j = <<t, w>>
      BY SyncFacts
    <2>2. StaysInItsQueue(j, w)
      BY <1>0, <2>1 DEF SyncPlaces
    <2>3. StaysInItsQueue(j, w)' /\ (j \in idle' <=> j \in idle)
      BY <1>0, <2>2, PoolKeepsSync
    <2> QED
      BY <2>1, <2>3
  <1>5. SyncPlaces'
    BY <1>0, <1>4 DEF SyncPlaces, ToPush
  <1>6. LatchIsCounted'
    <2> SUFFICES ASSUME NEW t \in Waiters PROVE allWorkerSync'[t] = Cardinality(Counted(t)')
      BY DEF LatchIsCounted
    <2>1. Counted(t)' = Counted(t)
      BY <1>0, <1>4 DEF Counted, Synced
    <2> QED
      BY <1>0, <2>1 DEF LatchIsCounted
  <1> QED
    BY <1>2, <1>3, <1>5, <1>6 DEF SyncInv

LEMMA NextSync == SyncInv /\ [SyncNext]_syncAllVars => SyncInv'
  <1> SUFFICES ASSUME SyncInv, [SyncNext]_syncAllVars PROVE SyncInv'
    OBVIOUS
  <1>0. PlaceInv /\ SyncTypeOK /\ LoopsFromFirst /\ SyncPlaces /\ LatchIsCounted /\ ReturnsAtZero
    BY DEF SyncInv
  <1>i. \A t \in Waiters, w \in Workers : <<t, w>> \in Jobs /\ (<<t, w>> \in idle =>
           ~Running(<<t, w>>) /\ ~Queued(<<t, w>>))
    BY <1>0, SyncFacts DEF PlaceInv, HeldInOneKind
  <1>1. CASE PoolStep /\ UNCHANGED syncVars
    BY <1>1, PoolKeepsInv
  <1>2. ASSUME NEW t \in Waiters, CallSync(t) PROVE SyncInv'
    <2>1. /\ sync[t] = "none" /\ at[t] = 0 /\ UNCHANGED <<vars, at>>
          /\ sync' = [sync EXCEPT ![t] = "push"]
          /\ allWorkerSync' = [allWorkerSync EXCEPT ![t] = Cardinality(Synced(t))]
      BY <1>0, <1>2 DEF CallSync, LoopsFromFirst
    <2>2. PoolStep /\ UNCHANGED <<idle, toMain, call, jobQ>>
      BY <2>1 DEF PoolStep, vars
    <2>3. PlaceInv'
      BY <1>0, <2>2, NextPlaces DEF PoolStep, Next
    <2>4. Synced(t) \in SUBSET Workers
      BY DEF Synced
    <2>5. SyncTypeOK'
      BY <1>0, <2>1, <2>4, CountWorkers DEF SyncTypeOK
    <2>6. sync'[t] = "push" /\ \A u \in Waiters : u # t => sync'[u] = sync[u]
      BY <1>0, <2>1 DEF SyncTypeOK
    <2>7. LoopsFromFirst' /\ ReturnsAtZero'
      BY <1>0, <2>1, <2>6 DEF LoopsFromFirst, ReturnsAtZero, SyncTypeOK
    <2>8. \A u \in Waiters, w \in Workers : (ToPush(u, w)' => ToPush(u, w))
      BY <2>1, <2>6 DEF ToPush
    <2>9. SyncPlaces'
      BY <1>0, <2>2, <2>8 DEF SyncPlaces, StaysInItsQueue, Carried, Waits, At, Synced
    <2>10. LatchIsCounted'
      <3> SUFFICES ASSUME NEW u \in Waiters PROVE allWorkerSync'[u] = Cardinality(Counted(u)')
        BY DEF LatchIsCounted
      <3>1. CASE u = t
        <4>1. Counted(t)' = Synced(t)
          BY <2>1, <2>6, SyncFacts DEF Counted, Synced
        <4> QED
          BY <1>0, <2>1, <3>1, <4>1 DEF SyncTypeOK
      <3>2. CASE u # t
        <4>1. Counted(u)' = Counted(u)
          BY <2>1, <2>2, <2>6, <3>2 DEF Counted, Synced
        <4> QED
          BY <1>0, <2>1, <3>2, <4>1 DEF SyncTypeOK, LatchIsCounted
      <3> QED
        BY <3>1, <3>2
    <2> QED
      BY <2>3, <2>5, <2>7, <2>9, <2>10 DEF SyncInv
  <1>3. ASSUME NEW t \in Waiters, PushSync(t) PROVE SyncInv'
    <2>1. /\ sync[t] = "push" /\ NextThread(t, "notify")
          /\ UNCHANGED <<flag, workerVars, call, enqueues, toMain, latch, mainVars, allWorkerSync>>
      BY <1>3 DEF PushSync
    <2>2. /\ sync' \in [Waiters -> {"none", "push", "notify", "wait", "done"}]
          /\ at' \in [Waiters -> Workers]
          /\ \A u \in Waiters : u # t => sync'[u] = sync[u] /\ at'[u] = at[u]
          /\ \/ sync'[t] = "push" /\ at'[t] = at[t] + 1
             \/ sync'[t] = "notify" /\ at[t] + 1 \notin Workers
      BY <1>0, <2>1, NextThreadMoves
    <2>3. PICK v \in Workers : v = at[t]
      BY <1>0 DEF SyncTypeOK
    <2>4. SyncTypeOK' /\ LoopsFromFirst' /\ ReturnsAtZero'
      BY <1>0, <2>1, <2>2 DEF SyncTypeOK, LoopsFromFirst, ReturnsAtZero
    <2>5. \A w \in Workers : (sync'[t] = "push" /\ w >= at'[t]) <=> (sync[t] = "push" /\ w >= at[t] /\ w # v)
      BY <2>1, <2>2, <2>3, SyncFacts
    <2>6. \A u \in Waiters, w \in Workers : ToPush(u, w)' <=> ToPush(u, w) /\ <<u, w>> # <<t, v>>
      BY <2>1, <2>2, <2>3, <2>5 DEF ToPush
    <2>7. CASE v \in Synced(t)
      <3>1. /\ jobQ' = [jobQ EXCEPT ![v][PriorityLow] = Append(@, <<t, v>>)]
            /\ idle' = idle \ {<<t, v>>}
        BY <1>3, <2>3, <2>7 DEF PushSync
      <3>2. <<t, v>> \in idle
        BY <1>0, <2>1, <2>3, SyncFacts DEF SyncPlaces, ToPush
      <3>3. PICK j \in Jobs : j = <<t, v>>
        BY SyncFacts
      <3>4. /\ PlaceInv'
            /\ \A k \in Jobs, u \in Workers, p \in Priorities :
                  Waits(k, u, p)' <=> Waits(k, u, p) \/ (k = j /\ u = v /\ p = PriorityLow)
        <4>1. GoesToQueue(j, v)
          BY <2>1, <3>1, <3>2, <3>3 DEF GoesToQueue
        <4> QED
          BY <1>0, <4>1, PushSyncPlaces
      <3>5. SyncPlaces'
        <4> SUFFICES ASSUME NEW u \in Waiters, NEW w \in Workers
                     PROVE  /\ StaysInItsQueue(<<u, w>>, w)'
                            /\ ToPush(u, w)' \/ w \notin Synced(u) => <<u, w>> \in idle'
          BY DEF SyncPlaces, Synced
        <4>1. PICK k \in Jobs : k = <<u, w>>
          BY SyncFacts
        <4>2. k = j => w = v /\ u = t
          BY <3>3, <4>1
        <4>3. StaysInItsQueue(k, w)
          BY <1>0, <4>1 DEF SyncPlaces
        <4>4. StaysInItsQueue(k, w)'
          BY <2>1, <3>4, <4>2, <4>3 DEF StaysInItsQueue, Carried
        <4>5. ToPush(u, w)' \/ w \notin Synced(u) => <<u, w>> \in idle'
          BY <1>0, <2>6, <2>7, <3>1 DEF SyncPlaces
        <4> QED
          BY <4>1, <4>4, <4>5
      <3>6. LatchIsCounted'
        <4> SUFFICES ASSUME NEW u \in Waiters PROVE allWorkerSync'[u] = Cardinality(Counted(u)')
          BY DEF LatchIsCounted
        <4>1. Counted(u)' = Counted(u)
          <5>1. CASE u = t
            <6>1. \A w \in Workers :
                     (<<t, w>> \notin idle' \/ (sync'[t] = "push" /\ w >= at'[t]))
                       <=> (<<t, w>> \notin idle \/ (sync[t] = "push" /\ w >= at[t]))
              BY <2>1, <2>3, <2>5, <3>1, SyncFacts
            <6> QED
              BY <5>1, <6>1 DEF Counted, Synced
          <5>2. CASE u # t
            BY <2>2, <3>1, <5>2 DEF Counted, Synced
          <5> QED
            BY <5>1, <5>2
        <4> QED
          BY <1>0, <2>1, <4>1 DEF LatchIsCounted
      <3> QED
        BY <2>4, <3>4, <3>5, <3>6 DEF SyncInv
    <2>8. CASE v \notin Synced(t)
      <3>1. UNCHANGED <<jobQ, idle>>
        BY <1>3, <2>3, <2>8 DEF PushSync
      <3>2. UNCHANGED vars
        BY <2>1, <3>1 DEF vars
      <3>3. PlaceInv'
        BY <1>0, <3>2, NextPlaces
      <3>4. SyncPlaces'
        BY <1>0, <2>1, <2>6, <3>1 DEF SyncPlaces, StaysInItsQueue, Carried, Waits, At, Synced
      <3>5. LatchIsCounted'
        <4> SUFFICES ASSUME NEW u \in Waiters PROVE allWorkerSync'[u] = Cardinality(Counted(u)')
          BY DEF LatchIsCounted
        <4>1. Counted(u)' = Counted(u)
          <5>1. CASE u = t
            <6>1. \A w \in Synced(t) :
                     (sync'[t] = "push" /\ w >= at'[t]) <=> (sync[t] = "push" /\ w >= at[t])
              BY <2>5, <2>8 DEF Synced
            <6> QED
              BY <3>1, <5>1, <6>1 DEF Counted, Synced
          <5>2. CASE u # t
            BY <2>2, <3>1, <5>2 DEF Counted, Synced
          <5> QED
            BY <5>1, <5>2
        <4> QED
          BY <1>0, <2>1, <4>1 DEF LatchIsCounted
      <3> QED
        BY <2>4, <3>3, <3>4, <3>5 DEF SyncInv
    <2> QED
      BY <2>7, <2>8
  <1>4. ASSUME NEW t \in Waiters, NotifySync(t) \/ EndSync(t) PROVE SyncInv'
    <2>1. /\ UNCHANGED <<jobQ, workerVars, call, idle, enqueues, toMain, latch, mainVars, allWorkerSync>>
          /\ flag' \in [Workers -> BOOLEAN]
      BY <1>0, <1>4 DEF NotifySync, EndSync, vars, PlaceInv, TypeOK
    <2>2. PlaceInv'
      BY <1>0, <2>1 DEF PlaceInv, TypeOK, workerVars, mainVars, HoldsOnlyInRun, CarriesOnlyInPush,
                        OpenUntilRedirected, HeldSomewhere, HeldInOneKind, RunByOne, CarriedByOne,
                        QueuedOnce, Running, Carried, Queued, At
    <2>3. /\ sync[t] \in {"notify", "wait"} /\ sync'[t] \in {"notify", "wait", "done"}
          /\ sync' \in [Waiters -> {"none", "push", "notify", "wait", "done"}]
          /\ at' \in [Waiters -> Workers]
          /\ \A u \in Waiters : u # t => sync'[u] = sync[u] /\ at'[u] = at[u]
      <3>1. CASE NotifySync(t)
        BY <1>0, <3>1, NextThreadMoves DEF NotifySync
      <3>2. CASE EndSync(t)
        BY <1>0, <3>2 DEF EndSync, SyncTypeOK
      <3> QED
        BY <1>4, <3>1, <3>2
    <2>4. SyncTypeOK' /\ LoopsFromFirst'
      BY <1>0, <2>1, <2>3 DEF SyncTypeOK, LoopsFromFirst
    <2>5. sync'[t] = "done" => allWorkerSync[t] = 0
      <3>1. CASE NotifySync(t)
        <4>1. sync'[t] \in {"notify", "wait"}
          BY <1>0, <3>1, NextThreadMoves DEF NotifySync
        <4> QED
          BY <4>1
      <3> QED
        BY <1>4, <3>1 DEF EndSync
    <2>6. ReturnsAtZero'
      BY <1>0, <2>1, <2>3, <2>5 DEF ReturnsAtZero
    <2>7. \A u \in Waiters, w \in Workers : ToPush(u, w)' => ToPush(u, w)
      BY <2>3 DEF ToPush
    <2>8. SyncPlaces'
      BY <1>0, <2>1, <2>7 DEF SyncPlaces, StaysInItsQueue, Carried, Waits, At, Synced
    <2>9. \A u \in Waiters : Counted(u)' = Counted(u)
      <3> SUFFICES ASSUME NEW u \in Waiters PROVE Counted(u)' = Counted(u)
        OBVIOUS
      <3>1. CASE u = t
        BY <2>1, <2>3, <3>1 DEF Counted, Synced
      <3>2. CASE u # t
        BY <2>1, <2>3, <3>2 DEF Counted, Synced
      <3> QED
        BY <3>1, <3>2
    <2>10. LatchIsCounted'
      BY <1>0, <2>1, <2>9 DEF LatchIsCounted
    <2> QED
      BY <2>2, <2>4, <2>6, <2>8, <2>10 DEF SyncInv
  <1>5. ASSUME NEW u \in Workers, CountDown(u) PROVE SyncInv'
    <2>1. PICK t \in Waiters, v \in Workers : cur[u] = <<t, v>>
      BY <1>5, SyncFacts DEF CountDown
    <2>2. PICK j \in Jobs : j = <<t, v>>
      BY SyncFacts
    <2>3. /\ SuspendJob(u) /\ idle' = idle \cup {j}
          /\ UNCHANGED <<jobQ, toMain, call, sync, at>>
          /\ allWorkerSync' = [allWorkerSync EXCEPT ![t] = @ - 1]
      BY <1>5, <2>1, <2>2 DEF CountDown, SuspendJob
    <2>4. PlaceInv'
      <3>1. Next
        BY <2>3 DEF Next, WorkerStep
      <3> QED
        BY <1>0, <3>1, NextPlaces
    <2>5. j \notin idle
      BY <2>1, <2>2, <1>0 DEF Running, PlaceInv, HeldInOneKind
    <2>6. v \in Synced(t) /\ ~ToPush(t, v)
      BY <1>0, <2>2, <2>5 DEF SyncPlaces
    <2>7. v \in Counted(t)
      BY <2>2, <2>5, <2>6 DEF Counted
    <2>8. Counted(t)' = Counted(t) \ {v}
      BY <2>2, <2>3, <2>6 DEF Counted, Synced, ToPush
    <2>9. PICK C \in SUBSET Workers : C = Counted(t)
      BY DEF Counted, Synced
    <2>10. Cardinality(C \ {v}) = Cardinality(C) - 1 /\ Cardinality(C) \in 1 .. WorkersCount
      <3>1. IsFiniteSet(C) /\ Cardinality(C) \in 0 .. WorkersCount /\ Cardinality(C \ {v}) \in 0 .. WorkersCount
        BY CountWorkers
      <3>2. Cardinality(C \ {v}) = Cardinality(C) - 1
        BY <2>7, <2>9, <3>1, FS_RemoveElement
      <3> QED
        BY <3>1, <3>2, SyncFacts
    <2>11. allWorkerSync[t] = Cardinality(C) /\ allWorkerSync'[t] = Cardinality(C) - 1
           /\ \A x \in Waiters : x # t => allWorkerSync'[x] = allWorkerSync[x]
      BY <1>0, <2>3, <2>9 DEF LatchIsCounted, SyncTypeOK
    <2>12. LatchIsCounted'
      <3> SUFFICES ASSUME NEW x \in Waiters PROVE allWorkerSync'[x] = Cardinality(Counted(x)')
        BY DEF LatchIsCounted
      <3>1. CASE x = t
        BY <2>8, <2>9, <2>10, <2>11, <3>1
      <3>2. CASE x # t
        <4>1. Counted(x)' = Counted(x)
          BY <2>2, <2>3, <3>2 DEF Counted, Synced
        <4> QED
          BY <1>0, <2>11, <3>2, <4>1 DEF LatchIsCounted
      <3> QED
        BY <3>1, <3>2
    <2>13. SyncTypeOK'
      <3>1. Cardinality(C) - 1 \in 0 .. WorkersCount
        BY <2>10, SyncFacts
      <3> QED
        BY <1>0, <2>3, <2>11, <3>1 DEF SyncTypeOK
    <2>14. sync[t] # "done"
      BY <1>0, <2>10, <2>11 DEF ReturnsAtZero
    <2>15. LoopsFromFirst' /\ ReturnsAtZero'
      BY <1>0, <2>3, <2>11, <2>14 DEF LoopsFromFirst, ReturnsAtZero
    <2>16. SyncPlaces'
      BY <1>0, <2>3 DEF SyncPlaces, StaysInItsQueue, Carried, Waits, At, Synced, ToPush
    <2> QED
      BY <2>4, <2>12, <2>13, <2>15, <2>16 DEF SyncInv
  <1>6. ASSUME NEW u \in Workers, PoolWorker(u) PROVE PoolStep /\ UNCHANGED syncVars
    BY <1>6 DEF PoolWorker, PoolStep
  <1>7. ASSUME NEW t \in Threads, NEW k \in Jobs, PoolCall(t, k) PROVE PoolStep /\ UNCHANGED syncVars
    BY <1>7 DEF PoolCall, PoolStep
  <1>8. CASE \E t \in Threads : CallStep(t) /\ UNCHANGED syncVars
    BY <1>1, <1>8 DEF PoolStep
  <1>9. CASE (RedirectToMain \/ ShutdownStep \/ Stopped) /\ UNCHANGED syncVars
    BY <1>1, <1>9 DEF PoolStep, Stopped
  <1>10. CASE UNCHANGED syncAllVars
    BY <1>1, <1>10 DEF PoolStep, syncAllVars
  <1> QED
    BY <1>1, <1>2, <1>3, <1>4, <1>5, <1>6, <1>7, <1>8, <1>9, <1>10 DEF SyncNext, WaiterStep, SyncWorker

(***************************************************************************)
(* The theorems.                                                           *)
(***************************************************************************)

\* The coroutines that can still touch the latch are those that are counted:
\* one that is not idle is run by a worker or waits in its queue.
LEMMA CountedAreOutstanding ==
  ASSUME SyncInv, NEW t \in Waiters
  PROVE  Outstanding(t) = Counted(t)
  <1>0. PlaceInv /\ SyncPlaces /\ TypeOK /\ HeldSomewhere /\ HeldInOneKind
    BY DEF SyncInv, PlaceInv
  <1> SUFFICES ASSUME NEW w \in Synced(t), ~(sync[t] = "push" /\ w >= at[t])
               PROVE  <<t, w>> \notin idle
                        <=> \/ \E v \in Workers : cur[v] = <<t, w>>
                            \/ \E i \in 1 .. Len(jobQ[w][PriorityLow]) : jobQ[w][PriorityLow][i] = <<t, w>>
    BY DEF Outstanding, Counted
  <1>1. w \in Workers
    BY DEF Synced
  <1>2. PICK j \in Jobs : j = <<t, w>>
    BY <1>1, SyncFacts
  <1>3. PICK r \in Priorities : r = PriorityLow
    BY SyncFacts
  <1>4. StaysInItsQueue(j, w)
    BY <1>0, <1>1, <1>2 DEF SyncPlaces
  <1>5. j \notin idle <=> Running(j) \/ Queued(j)
    BY <1>0, <1>4 DEF HeldSomewhere, HeldInOneKind, StaysInItsQueue
  <1>6. Queued(j) <=> \E i \in Nat : At(j, w, r, i)
    BY <1>1, <1>3, <1>4 DEF Queued, StaysInItsQueue, Waits
  <1>7. (\E i \in Nat : At(j, w, r, i)) <=> \E i \in 1 .. Len(jobQ[w][r]) : jobQ[w][r][i] = j
    <2>1. Len(jobQ[w][r]) \in Nat
      BY <1>0, <1>1 DEF TypeOK
    <2>2. \A i \in 1 .. Len(jobQ[w][r]) : i \in Nat
      BY <2>1
    <2> QED
      BY <2>2 DEF At
  <1> QED
    BY <1>2, <1>3, <1>5, <1>6, <1>7 DEF Running

\* The latch of waitForThreadSync stands at the number of coroutines that are
\* still to count it down, whoever steals them, for any number of workers and of
\* threads that wait at the same time.
THEOREM LatchCountsRight == SyncSpec => []LatchCountsOutstanding
  <1>1. ASSUME SyncInv PROVE LatchCountsOutstanding
    BY <1>1, CountedAreOutstanding DEF SyncInv, LatchIsCounted, LatchCountsOutstanding
  <1> QED
    BY <1>1, InitSync, NextSync, PTL DEF SyncSpec

NoneOutstandingAfter == \A t \in Waiters : sync[t] = "done" => Outstanding(t) = {}

LEMMA NoneLeft == SyncInv => NoneOutstandingAfter
  <1> SUFFICES ASSUME SyncInv, NEW t \in Waiters, sync[t] = "done" PROVE Outstanding(t) = {}
    BY DEF NoneOutstandingAfter
  <1>1. Counted(t) \in SUBSET Workers
    BY DEF Counted, Synced
  <1>2. IsFiniteSet(Counted(t)) /\ Cardinality(Counted(t)) = 0
    BY <1>1, CountWorkers DEF SyncInv, LatchIsCounted, ReturnsAtZero
  <1>3. Counted(t) = {}
    BY <1>2, FS_EmptySet
  <1> QED
    BY <1>3, CountedAreOutstanding

\* Once waitForThreadSync returned, and its latch is gone with its stack frame,
\* no coroutine of the call is queued or run any more.
THEOREM LatchOutlivesCoroutines == SyncSpec => []NoneOutstandingAfter
  <1> QED
    BY InitSync, NextSync, NoneLeft, PTL DEF SyncSpec

(***************************************************************************)
(* The jobs a call finds.  Every one that is still queued is ahead of the  *)
(* coroutine of the call in the queue of its worker, if that one is        *)
(* already there: queues are first in first out, and a thief takes from    *)
(* their front too.                                                        *)
(***************************************************************************)
EarlierAhead ==
    \A t \in Waiters : \A j \in earlier[t] :
        \E w \in Synced(t), i \in Nat :
            /\ At(j, w, PriorityLow, i)
            /\ ToPush(t, w) \/ \E k \in Nat : k > i /\ At(<<t, w>>, w, PriorityLow, k)

\* What a step may do to the queues.
QueueStep ==
    \/ UNCHANGED jobQ
    \/ \E v \in Workers, r \in Priorities, x \in Jobs :
          ~Queued(x) /\ jobQ' = [jobQ EXCEPT ![v][r] = Append(@, x)]
    \/ \E u \in Workers : TakeJob(u)

LEMMA QueuesStep == SyncInv /\ [SyncNext]_syncAllVars => QueueStep
  <1> SUFFICES ASSUME SyncInv, [SyncNext]_syncAllVars PROVE QueueStep
    OBVIOUS
  <1>0. PlaceInv /\ TypeOK /\ HeldInOneKind /\ SyncPlaces /\ SyncTypeOK
    BY DEF SyncInv, PlaceInv
  <1>1. ASSUME NEW t \in Threads, PushJob(t) PROVE QueueStep
    <2>1. PICK j \in Jobs, v \in Workers, r \in Priorities :
             j = call[t].job /\ v = call[t].target /\ r = PriorityOf[j]
      BY <1>0, <1>1, PoolAssumption DEF TypeOK, Calls, PushJob
    <2>2. ~Queued(j)
      BY <1>0, <2>1 DEF HeldInOneKind, Carried
    <2>3. jobQ' = [jobQ EXCEPT ![v][r] = Append(@, j)]
      BY <1>1, <2>1 DEF PushJob
    <2> QED
      BY <2>2, <2>3 DEF QueueStep
  <1>2. ASSUME NEW t \in Waiters, PushSync(t) PROVE QueueStep
    <2>1. PICK v \in Workers, r \in Priorities, j \in Jobs :
             v = at[t] /\ r = PriorityLow /\ j = <<t, v>>
      BY <1>0, SyncFacts DEF SyncTypeOK
    <2>2. ~Queued(j)
      BY <1>0, <1>2, <2>1, SyncFacts DEF HeldInOneKind, SyncPlaces, ToPush, PushSync
    <2>3. UNCHANGED jobQ \/ jobQ' = [jobQ EXCEPT ![v][r] = Append(@, j)]
      BY <1>2, <2>1 DEF PushSync
    <2> QED
      BY <2>2, <2>3 DEF QueueStep
  <1>3. ASSUME NEW u \in Workers, WorkerStep(u) PROVE QueueStep
    BY <1>3 DEF QueueStep, WorkerStep, NextPriority, StartStealing, NothingFound, SwitchJobThread,
                EnterEnqueue, SuspendJob, ResumeReturns, TestExit, WaitForJob, ClearFlag, ExitWorker
  <1>4. CASE \/ \E t \in Threads, j \in Jobs : PoolCall(t, j)
             \/ \E t \in Threads : NotifyTarget(t)
             \/ \E t \in Waiters : CallSync(t) \/ NotifySync(t) \/ EndSync(t)
             \/ RedirectToMain \/ ShutdownStep \/ Stopped \/ UNCHANGED syncAllVars
    BY <1>4 DEF QueueStep, PoolCall, EnqueueJob, EnterEnqueue, NotifyTarget, CallSync, NotifySync, EndSync,
                RedirectToMain, ShutdownStep, RequestExit, NotifyWorker, TryShutdown, Stopped, vars,
                syncAllVars
  <1>5. ASSUME NEW u \in Workers, PoolWorker(u) \/ SyncWorker(u) PROVE QueueStep
    <2>1. WorkerStep(u)
      BY <1>5 DEF PoolWorker, SyncWorker, CountDown, WorkerStep
    <2> QED
      BY <1>3, <2>1
  <1> QED
    BY <1>1, <1>2, <1>4, <1>5 DEF SyncNext, CallStep, WaiterStep

\* A coroutine that stays queued keeps its place before those behind it.
LEMMA StaysAhead ==
  ASSUME PlaceInv, QueueStep, NEW j \in Jobs, NEW w \in Workers, NEW p \in Priorities, NEW i \in Nat,
         At(j, w, p, i), Queued(j)'
  PROVE  \E d \in {0, 1} :
            /\ i - d \in Nat /\ At(j, w, p, i - d)'
            /\ \A l \in Jobs, k \in Nat : k > i /\ At(l, w, p, k) => At(l, w, p, k - d)'
  <1>0. TypeOK /\ jobQ[w][p] \in Seq(Jobs) /\ Len(jobQ[w][p]) \in Nat
    BY DEF PlaceInv, TypeOK
  <1>1. ASSUME jobQ'[w][p] = jobQ[w][p]
        PROVE  At(j, w, p, i - 0)' /\ \A l \in Jobs, k \in Nat : At(l, w, p, k) => At(l, w, p, k - 0)'
    BY <1>1 DEF At
  <1>2. ASSUME NEW v \in Workers, NEW r \in Priorities, NEW x \in Jobs,
               jobQ' = [jobQ EXCEPT ![v][r] = Append(@, x)]
        PROVE  At(j, w, p, i - 0)' /\ \A l \in Jobs, k \in Nat : At(l, w, p, k) => At(l, w, p, k - 0)'
    <2>1. CASE w = v /\ p = r
      <3>1. jobQ'[w][p] = Append(jobQ[w][p], x)
        BY <1>0, <1>2, <2>1 DEF TypeOK
      <3>2. /\ Len(jobQ'[w][p]) = Len(jobQ[w][p]) + 1
            /\ \A k \in 1 .. Len(jobQ[w][p]) : jobQ'[w][p][k] = jobQ[w][p][k]
        BY <1>0, <3>1
      <3>3. \A l \in Jobs, k \in Nat : At(l, w, p, k) => At(l, w, p, k)'
        BY <1>0, <3>2 DEF At
      <3>4. \A k \in Nat : k - 0 = k
        OBVIOUS
      <3> QED
        BY <3>3, <3>4 DEF At
    <2>2. CASE w # v \/ p # r
      BY <1>0, <1>1, <1>2, <2>2 DEF TypeOK
    <2> QED
      BY <2>1, <2>2
  <1>3. ASSUME NEW u \in Workers, TakeJob(u)
        PROVE  \E d \in {0, 1} :
                  /\ i - d \in Nat /\ At(j, w, p, i - d)'
                  /\ \A l \in Jobs, k \in Nat : k > i /\ At(l, w, p, k) => At(l, w, p, k - d)'
    <2>1. PICK v \in Workers, r \in Priorities : v = from[u] /\ r = prio[u]
      BY <1>0 DEF TypeOK
    <2>2. jobQ[v][r] # <<>> /\ jobQ' = [jobQ EXCEPT ![v][r] = Tail(jobQ[v][r])]
      BY <1>3, <2>1 DEF TakeJob
    <2>3. CASE w = v /\ p = r
      <3>1. jobQ[w][p] # <<>> /\ jobQ'[w][p] = Tail(jobQ[w][p])
        BY <1>0, <2>2, <2>3 DEF TypeOK
      <3>2. /\ Len(jobQ'[w][p]) = Len(jobQ[w][p]) - 1
            /\ \A n \in 1 .. Len(jobQ[w][p]) - 1 : jobQ'[w][p][n] = jobQ[w][p][n + 1]
        BY <1>0, <3>1, TailEntries
      <3>3. i # 1
        <4>1. SUFFICES ASSUME i = 1 PROVE FALSE
          OBVIOUS
        <4>2. j = Head(jobQ[from[u]][prio[u]])
          BY <1>0, <2>1, <2>3, <4>1 DEF At
        <4>3. ~Queued(j)'
          BY <1>3, <4>2, TakePlaces
        <4> QED
          BY <4>3
      <3>4. i - 1 \in Nat /\ At(j, w, p, i - 1)'
        BY <1>0, <3>2, <3>3 DEF At
      <3>5. \A l \in Jobs, k \in Nat : k > i /\ At(l, w, p, k) => At(l, w, p, k - 1)'
        BY <1>0, <3>2, <3>4 DEF At
      <3> QED
        BY <3>4, <3>5
    <2>4. CASE w # v \/ p # r
      <3>1. jobQ'[w][p] = jobQ[w][p]
        BY <1>0, <2>2, <2>4 DEF TypeOK
      <3> QED
        BY <1>1, <3>1
    <2> QED
      BY <2>3, <2>4
  <1> QED
    BY <1>1, <1>2, <1>3 DEF QueueStep

\* A call begins with all of its coroutines to push and moves no job.
LEMMA CallBegins ==
  ASSUME SyncInv, [SyncNext]_syncAllVars, NEW t \in Waiters, sync[t] = "none", sync'[t] # "none"
  PROVE  UNCHANGED jobQ /\ sync'[t] = "push" /\ at'[t] = 0
  <1>0. SyncTypeOK /\ at[t] = 0
    BY DEF SyncInv, LoopsFromFirst
  <1>1. ASSUME NEW u \in Waiters, CallSync(u)
        PROVE  UNCHANGED <<jobQ, at>> /\ sync' = [sync EXCEPT ![u] = "push"]
    BY <1>1 DEF CallSync, vars
  <1>2. ASSUME NEW u \in Waiters, WaiterStep(u) PROVE FALSE
    <2>1. u # t
      BY <1>2 DEF WaiterStep, PushSync, NotifySync, EndSync
    <2>2. sync'[t] = sync[t]
      BY <1>0, <1>2, <2>1 DEF WaiterStep, PushSync, NotifySync, EndSync, NextThread, SyncTypeOK
    <2> QED
      BY <2>2
  <1>3. ASSUME NEW u \in Waiters, CallSync(u) PROVE UNCHANGED jobQ /\ sync'[t] = "push" /\ at'[t] = 0
    BY <1>0, <1>1, <1>3 DEF SyncTypeOK
  <1> QED
    BY <1>2, <1>3 DEF SyncNext, syncAllVars, syncVars, PoolCall, PoolWorker, SyncWorker, CountDown

\* A coroutine of the call that was still to be pushed is pushed behind
\* whatever its queue holds.
LEMMA PushedBehind ==
  ASSUME SyncInv, [SyncNext]_syncAllVars, NEW t \in Waiters, NEW w \in Synced(t),
         ToPush(t, w), ~ToPush(t, w)'
  PROVE  \E n \in Nat : n = Len(jobQ[w][PriorityLow]) + 1 /\ At(<<t, w>>, w, PriorityLow, n)'
  <1>0. SyncTypeOK /\ TypeOK /\ w \in Workers /\ WorkersCount \in Nat
    BY SyncFacts DEF SyncInv, PlaceInv, Synced
  <1>1. sync[t] # "none"
    BY <1>0, CallBegins DEF ToPush, Workers
  <1>2. sync[t] = "push" /\ w >= at[t]
    BY <1>1 DEF ToPush
  <1>3. PushSync(t) /\ w = at[t]
    <2>1. ASSUME NEW u \in Waiters, CallSync(u) \/ WaiterStep(u), u # t
          PROVE  sync'[t] = sync[t] /\ at'[t] = at[t]
      BY <1>0, <2>1 DEF CallSync, WaiterStep, PushSync, NotifySync, EndSync, NextThread, SyncTypeOK
    <2>2. ~(\E u \in Waiters : u # t /\ (CallSync(u) \/ WaiterStep(u)))
      BY <1>2, <2>1 DEF ToPush
    <2>3. ~UNCHANGED syncVars
      BY <1>2 DEF ToPush, syncVars
    <2>4. ~(sync' = sync /\ at' = at)
      BY <1>2 DEF ToPush
    <2>5. PushSync(t)
      BY <1>2, <2>2, <2>3, <2>4 DEF SyncNext, syncAllVars, PoolCall, PoolWorker, SyncWorker, CountDown,
                                    CallSync, WaiterStep, NotifySync, EndSync
    <2>6. \/ sync'[t] = sync[t] /\ at'[t] = at[t] + 1
          \/ at[t] + 1 \notin Workers
      BY <1>0, <1>2, <2>5, NextThreadMoves DEF PushSync
    <2>7. w = at[t]
      BY <1>0, <1>2, <2>6 DEF ToPush, SyncTypeOK, Workers
    <2> QED
      BY <2>5, <2>7
  <1>4. jobQ' = [jobQ EXCEPT ![w][PriorityLow] = Append(@, <<t, w>>)]
    BY <1>3 DEF PushSync
  <1>r. PICK r \in Priorities, j \in Jobs : r = PriorityLow /\ j = <<t, w>>
    BY <1>0, SyncFacts
  <1>5. jobQ[w][r] \in Seq(Jobs) /\ jobQ'[w][r] = Append(jobQ[w][r], j)
    BY <1>0, <1>4, <1>r DEF TypeOK
  <1>6. PICK n \in Nat : n = Len(jobQ[w][r]) + 1
    BY <1>5
  <1>7. At(j, w, r, n)'
    BY <1>5, <1>6 DEF At
  <1> QED
    BY <1>6, <1>7, <1>r

EarlierInv == SyncInv /\ EarlierAhead

LEMMA NextEarlier == EarlierInv /\ [MCNext]_<<syncAllVars, earlier>> => EarlierInv'
  <1> SUFFICES ASSUME EarlierInv, [MCNext]_<<syncAllVars, earlier>> PROVE EarlierInv'
    OBVIOUS
  <1>0. SyncInv /\ EarlierAhead /\ [SyncNext]_syncAllVars
    BY DEF EarlierInv, MCNext
  <1>1. SyncInv' /\ QueueStep
    BY <1>0, NextSync, QueuesStep
  <1>r. PICK r \in Priorities : r = PriorityLow
    BY SyncFacts
  <1>t. /\ PlaceInv /\ TypeOK
        /\ \A w \in Workers : jobQ[w][r] \in Seq(Jobs) /\ Len(jobQ[w][r]) \in Nat
    BY <1>0 DEF SyncInv, PlaceInv, TypeOK
  <1>2. CASE UNCHANGED <<syncAllVars, earlier>>
    <2>1. UNCHANGED <<jobQ, sync, at, earlier>>
      BY <1>2 DEF syncAllVars, syncVars, vars
    <2>2. /\ \A j \in Jobs, w \in Workers, p \in Priorities, i \in Nat : At(j, w, p, i)' <=> At(j, w, p, i)
          /\ \A u \in Waiters, w \in Workers : ToPush(u, w)' <=> ToPush(u, w)
      BY <2>1 DEF At, ToPush
    <2>3. ASSUME NEW t \in Waiters, NEW j \in earlier[t]
          PROVE  \E w \in Synced(t), i \in Nat :
                    /\ At(j, w, r, i)'
                    /\ ToPush(t, w)' \/ \E k \in Nat : k > i /\ At(<<t, w>>, w, r, k)'
      <3>1. PICK w \in Synced(t), i \in Nat :
               /\ At(j, w, r, i)
               /\ ToPush(t, w) \/ \E k \in Nat : k > i /\ At(<<t, w>>, w, r, k)
        BY <1>0, <1>r DEF EarlierAhead
      <3>2. w \in Workers /\ j \in Jobs /\ <<t, w>> \in Jobs
        BY <1>t, <3>1, SyncFacts DEF Synced, At
      <3> QED
        BY <2>2, <3>1, <3>2
    <2>4. EarlierAhead'
      BY <1>r, <2>1, <2>3 DEF EarlierAhead, Synced
    <2> QED
      BY <1>1, <2>4 DEF EarlierInv
  <1>3. ASSUME MCNext, NEW t \in Waiters, NEW j \in earlier'[t]
        PROVE  \E w \in Synced(t), i \in Nat :
                  /\ At(j, w, r, i)'
                  /\ ToPush(t, w)' \/ \E k \in Nat : k > i /\ At(<<t, w>>, w, r, k)'
    <2>1. CASE sync[t] = "none" /\ sync'[t] = "push"
      <3>1. PICK w \in Synced(t) : j \in QueuedLow(w)
        BY <1>3, <2>1 DEF MCNext
      <3>2. w \in Workers
        BY DEF Synced
      <3>3. PICK i \in 1 .. Len(jobQ[w][r]) : jobQ[w][r][i] = j
        BY <1>r, <3>1 DEF QueuedLow
      <3>4. UNCHANGED jobQ /\ at'[t] = 0
        BY <1>0, <2>1, CallBegins
      <3>5. i \in Nat /\ At(j, w, r, i)'
        BY <1>t, <3>2, <3>3, <3>4 DEF At
      <3>6. ToPush(t, w)'
        BY <2>1, <3>2, <3>4, SyncFacts DEF ToPush
      <3> QED
        BY <3>5, <3>6
    <2>2. CASE ~(sync[t] = "none" /\ sync'[t] = "push")
      <3>1. j \in earlier[t] /\ j \in (UNION {QueuedLow(w) : w \in Workers})'
        BY <1>3, <2>2 DEF MCNext
      <3>2. PICK w \in Synced(t), i \in Nat :
               /\ At(j, w, r, i)
               /\ ToPush(t, w) \/ \E k \in Nat : k > i /\ At(<<t, w>>, w, r, k)
        BY <1>0, <1>r, <3>1 DEF EarlierAhead
      <3>3. w \in Workers /\ j \in Jobs
        BY <1>t, <3>2 DEF Synced, At
      <3>4. Queued(j)'
        <4>1. PICK v \in Workers : j \in QueuedLow(v)'
          BY <3>1
        <4>2. PICK n \in 1 .. Len(jobQ'[v][r]) : jobQ'[v][r][n] = j
          BY <1>r, <4>1 DEF QueuedLow
        <4>3. Len(jobQ'[v][r]) \in Nat
          BY <1>1 DEF SyncInv, PlaceInv, TypeOK
        <4>4. n \in Nat /\ At(j, v, r, n)'
          BY <4>2, <4>3 DEF At
        <4> QED
          BY <4>4 DEF Queued
      <3>5. PICK d \in {0, 1} :
               /\ i - d \in Nat /\ At(j, w, r, i - d)'
               /\ \A l \in Jobs, k \in Nat : k > i /\ At(l, w, r, k) => At(l, w, r, k - d)'
        BY <1>1, <1>t, <3>2, <3>3, <3>4, StaysAhead
      <3>6. ToPush(t, w)' \/ \E k \in Nat : k > i - d /\ At(<<t, w>>, w, r, k)'
        <4>1. CASE \E k \in Nat : k > i /\ At(<<t, w>>, w, r, k)
          <5>1. PICK k \in Nat : k > i /\ At(<<t, w>>, w, r, k)
            BY <4>1
          <5>2. k - d \in Nat /\ k - d > i - d
            BY <5>1
          <5>3. At(<<t, w>>, w, r, k - d)'
            BY <3>3, <3>5, <5>1, SyncFacts
          <5> QED
            BY <5>2, <5>3
        <4>2. CASE ToPush(t, w) /\ ~ToPush(t, w)'
          <5>1. PICK n \in Nat : n = Len(jobQ[w][r]) + 1 /\ At(<<t, w>>, w, r, n)'
            BY <1>0, <1>r, <4>2, PushedBehind
          <5>2. i <= Len(jobQ[w][r])
            BY <1>t, <3>2, <3>3 DEF At
          <5>3. n > i - d
            BY <1>t, <3>3, <5>1, <5>2
          <5> QED
            BY <5>1, <5>3
        <4> QED
          BY <3>2, <4>1, <4>2
      <3> QED
        BY <3>5, <3>6
    <2> QED
      BY <2>1, <2>2
  <1>4. CASE MCNext
    BY <1>1, <1>3, <1>4, <1>r DEF EarlierInv, EarlierAhead, Synced
  <1> QED
    BY <1>2, <1>4

\* When waitForThreadSync returns, no job of the lowest priority that was queued
\* to a worker when it was called is in a queue any more, for any number of
\* workers, whoever took it.
THEOREM EarlierJobsGone == MCSpec => []EarlierJobsTaken
  <1>1. MCInit => EarlierInv
    BY InitSync DEF MCInit, EarlierInv, EarlierAhead
  <1>2. ASSUME EarlierInv PROVE EarlierJobsTaken
    <2> SUFFICES ASSUME NEW t \in Waiters, sync[t] = "done", NEW j \in earlier[t] PROVE FALSE
      BY DEF EarlierJobsTaken
    <2>1. PICK w \in Synced(t), k \in Nat : At(<<t, w>>, w, PriorityLow, k)
      BY <1>2 DEF EarlierInv, EarlierAhead, ToPush
    <2>2. w \in Outstanding(t)
      BY <2>1 DEF Outstanding, At
    <2> QED
      BY <1>2, <2>2, NoneLeft DEF EarlierInv, NoneOutstandingAfter
  <1> QED
    BY <1>1, <1>2, NextEarlier, PTL DEF MCSpec
=============================================================================
