-------------------------- MODULE WorkerPoolProofs --------------------------
(***************************************************************************)
(* Safety of the worker pool for every number of workers, callers, jobs    *)
(* and priorities: type correctness; that no wake-up is lost, neither for  *)
(* a job nor for the request to exit; that a coroutine handle is in one    *)
(* place only; that every step of the pool is a step of a coroutine's life *)
(* cycle or leaves it where it is; and, of the pool with the history of    *)
(* MCWorkerPriority, the order in which a worker takes jobs of different   *)
(* priorities.                                                             *)
(***************************************************************************)
EXTENDS MCWorkerPriority, FiniteSetTheorems, SequenceTheorems, TLAPS

(***************************************************************************)
(* Type correctness, one step per action.                                  *)
(***************************************************************************)
LEMMA InitType == Init => TypeOK
  <1> SUFFICES ASSUME Init PROVE TypeOK
    OBVIOUS
  <1>1. 0 \in Workers /\ 0 \in Priorities
    BY PoolAssumption DEF Workers, Priorities
  <1>2. \A t \in Threads : call[t].phase = "none"
    BY DEF Init, NotCalling
  <1>3. call \in [Threads -> Calls]
    BY <1>1 DEF Init, NotCalling, Calls
  <1>4. QED
    BY <1>1, <1>2, <1>3, PoolAssumption DEF Init, TypeOK

LEMMA NextType == TypeOK /\ [Next]_vars => TypeOK'
  <1> SUFFICES ASSUME TypeOK, [Next]_vars PROVE TypeOK'
    OBVIOUS
  <1> USE DEF TypeOK
  <1>z. 0 \in Workers /\ 0 \in Priorities
    BY PoolAssumption DEF Workers, Priorities
  <1>e. ASSUME NEW t \in Threads, NEW j \in Jobs, EnterEnqueue(t, j)
        PROVE  /\ enqueues' \in 0 .. MaxEnqueues
               /\ toMain' \in SUBSET Jobs
               /\ call' \in [Threads -> Calls]
               /\ \A u \in Threads : call'[u].phase = "push" => call'[u].job \in Jobs
               /\ UNCHANGED <<jobQ, flag, latch, redirected, exitFlag, main, mi>>
    <2>1. enqueues' \in 0 .. MaxEnqueues
      BY <1>e, PoolAssumption DEF EnterEnqueue
    <2>2. UNCHANGED <<jobQ, flag, latch, redirected, exitFlag, main, mi>>
      BY <1>e DEF EnterEnqueue, mainVars
    <2>3. CASE toMain' = toMain \cup {j} /\ UNCHANGED call
      BY <2>1, <2>2, <2>3
    <2>4. CASE /\ UNCHANGED toMain
               /\ \E w \in Workers :
                    call' = [call EXCEPT ![t] = [phase |-> "push", job |-> j, target |-> w]]
      <3>1. PICK w \in Workers :
                    call' = [call EXCEPT ![t] = [phase |-> "push", job |-> j, target |-> w]]
        BY <2>4
      <3>2. [phase |-> "push", job |-> j, target |-> w] \in Calls
        BY DEF Calls
      <3>3. QED
        BY <2>1, <2>2, <2>4, <3>1, <3>2
    <2>5. QED
      BY <1>e, <2>3, <2>4 DEF EnterEnqueue
  <1>1. ASSUME NEW t \in Threads, NEW j \in Jobs, EnqueueJob(t, j) PROVE TypeOK'
    BY <1>1, <1>e DEF EnqueueJob, workerVars
  <1>2. ASSUME NEW w \in Workers, SwitchJobThread(w) PROVE TypeOK'
    <2>1. cur[w] \in Jobs /\ w \in Threads
      BY <1>2 DEF SwitchJobThread, CanCall, Threads
    <2>2. QED
      BY <1>2, <1>e, <2>1 DEF SwitchJobThread
  <1>3. ASSUME NEW t \in Threads, PushJob(t) PROVE TypeOK'
    <2> DEFINE c == call[t]
    <2>1. c \in Calls /\ c.job \in Jobs /\ c.target \in Workers
      BY <1>3 DEF PushJob, Calls
    <2>2. PriorityOf[c.job] \in Priorities
      BY <2>1, PoolAssumption
    <2>3. jobQ' \in [Workers -> [Priorities -> Seq(Jobs)]]
      BY <1>3, <2>1, <2>2 DEF PushJob
    <2>4. [phase |-> "notify", job |-> NoJob, target |-> c.target] \in Calls
      BY <2>1 DEF Calls
    <2>5. call' \in [Threads -> Calls]
      BY <1>3, <2>4 DEF PushJob
    <2>6. \A u \in Threads : call'[u].phase = "push" => call'[u].job \in Jobs
      BY <1>3, <2>1 DEF PushJob, Calls
    <2>7. QED
      BY <1>3, <2>3, <2>5, <2>6 DEF PushJob, workerVars, mainVars
  <1>4. ASSUME NEW t \in Threads, NotifyTarget(t) PROVE TypeOK'
    BY <1>4, <1>z DEF NotifyTarget, NotCalling, Calls, workerVars, mainVars
  <1>5. ASSUME NEW w \in Workers, TakeJob(w) PROVE TypeOK'
    <2> DEFINE q == jobQ[from[w]][prio[w]]
    <2>1. q \in Seq(Jobs) /\ q # <<>>
      BY <1>5 DEF TakeJob
    <2>2. Head(q) \in Jobs /\ Tail(q) \in Seq(Jobs)
      BY <2>1
    <2>3. QED
      BY <1>5, <2>2 DEF TakeJob, mainVars
  <1>6. ASSUME NEW w \in Workers, NextPriority(w) PROVE TypeOK'
    BY <1>6 DEF NextPriority, mainVars
  <1>7. ASSUME NEW w \in Workers, StartStealing(w) PROVE TypeOK'
    <2>1. PICK victim \in Workers : from' = [from EXCEPT ![w] = victim]
      BY <1>7 DEF StartStealing
    <2>2. from' \in [Workers -> Workers] /\ prio' \in [Workers -> Priorities]
          /\ loop' \in [Workers -> {"drain", "steal"}]
      BY <1>7, <1>z, <2>1 DEF StartStealing
    <2>3. QED
      BY <1>7, <2>2 DEF StartStealing, mainVars
  <1>8. ASSUME NEW w \in Workers, NothingFound(w) PROVE TypeOK'
    BY <1>8 DEF NothingFound, mainVars
  <1>9. ASSUME NEW w \in Workers, SuspendJob(w) PROVE TypeOK'
    BY <1>9 DEF SuspendJob, mainVars
  <1>10. ASSUME NEW w \in Workers, ResumeReturns(w) PROVE TypeOK'
    BY <1>10, <1>z DEF ResumeReturns, mainVars
  <1>11. ASSUME NEW w \in Workers, TestExit(w) PROVE TypeOK'
    BY <1>11 DEF TestExit, mainVars
  <1>12. ASSUME NEW w \in Workers, WaitForJob(w) PROVE TypeOK'
    BY <1>12 DEF WaitForJob, mainVars
  <1>13. ASSUME NEW w \in Workers, ClearFlag(w) PROVE TypeOK'
    BY <1>13, <1>z DEF ClearFlag, mainVars
  <1>14. ASSUME NEW w \in Workers, ExitWorker(w) PROVE TypeOK'
    BY <1>14 DEF ExitWorker, mainVars
  <1>15. CASE RedirectToMain
    BY <1>15 DEF RedirectToMain, workerVars
  <1>16. CASE RequestExit
    BY <1>16 DEF RequestExit, workerVars
  <1>17. CASE NotifyWorker
    BY <1>17, <1>z DEF NotifyWorker, workerVars
  <1>18. CASE TryShutdown
    BY <1>18 DEF TryShutdown, workerVars
  <1>19. CASE UNCHANGED vars
    BY <1>19 DEF vars, workerVars, mainVars
  <1>20. QED
    BY <1>1, <1>2, <1>3, <1>4, <1>5, <1>6, <1>7, <1>8, <1>9, <1>10, <1>11, <1>12, <1>13,
       <1>14, <1>15, <1>16, <1>17, <1>18, <1>19
       DEF Next, CallStep, WorkerStep, ShutdownStep, Stopped

\* Every variable keeps its type in every state of the pool, whatever the
\* number of workers, callers, coroutines and priorities.
THEOREM TypeCorrect == Spec => []TypeOK
  <1>1. QED
    BY InitType, NextType, PTL DEF Spec

(***************************************************************************)
(* The wake-up protocol.  NoLostWakeup is not inductive by itself: it also *)
(* needs that the queues a worker passes in its drain loop are its own,    *)
(* and ExitNotMissed needs that the notify loop of shutdown starts at the  *)
(* first worker.                                                           *)
(***************************************************************************)
DrainsOwnQueues == \A w \in Workers : loop[w] = "drain" => from[w] = w

NotifiesFromFirst == main \in {"up", "redirected"} => mi = 0

WakeupInv ==
    /\ TypeOK
    /\ DrainsOwnQueues
    /\ NotifiesFromFirst
    /\ NoLostWakeup
    /\ ExitNotMissed

LEMMA InitWakeup == Init => WakeupInv
  <1> SUFFICES ASSUME Init PROVE WakeupInv
    OBVIOUS
  <1>1. \A w \in Workers, p \in Priorities : jobQ[w][p] = <<>>
    BY DEF Init
  <1>2. TypeOK
    BY InitType
  <1>3. QED
    BY <1>1, <1>2 DEF Init, WakeupInv, DrainsOwnQueues, NotifiesFromFirst, NoLostWakeup, ExitNotMissed

\* The drain loop passes a queue of its worker only when that queue is empty.
LEMMA LastPriorityPassed ==
  ASSUME TypeOK, DrainsOwnQueues, NoLostWakeup,
         NEW w \in Workers, loop[w] = "drain", QueueIsEmpty(w), prio[w] + 1 \notin Priorities,
         NEW p \in Priorities, jobQ[w][p] # <<>>
  PROVE  flag[w] \/ NotifyPending(w)
  <1>1. from[w] = w /\ prio[w] \in Priorities
    BY DEF TypeOK, DrainsOwnQueues
  <1>2. p # prio[w]
    BY <1>1 DEF QueueIsEmpty
  <1>3. p < prio[w]
    BY <1>1, <1>2, PoolAssumption DEF Priorities
  <1>4. QED
    BY <1>3 DEF NoLostWakeup, Passed, QueueIsEmpty

LEMMA NextWakeup == WakeupInv /\ [Next]_vars => WakeupInv'
  <1> SUFFICES ASSUME WakeupInv, [Next]_vars PROVE WakeupInv'
    OBVIOUS
  <1>t. TypeOK /\ TypeOK'
    BY NextType DEF WakeupInv
  <1>h. DrainsOwnQueues /\ NotifiesFromFirst /\ NoLostWakeup /\ ExitNotMissed
    BY DEF WakeupInv
  <1> DEFINE Goal == DrainsOwnQueues' /\ NotifiesFromFirst' /\ NoLostWakeup' /\ ExitNotMissed'
  <1> USE DEF DrainsOwnQueues, NotifiesFromFirst, ExitNotMissed
  <1>e. ASSUME NEW t \in Threads, NEW j \in Jobs, EnterEnqueue(t, j), call[t].phase = "none"
        PROVE  /\ \A w \in Workers : NotifyPending(w) => NotifyPending(w)'
               /\ UNCHANGED <<jobQ, flag, redirected, exitFlag, main, mi>>
    <2>1. UNCHANGED <<jobQ, flag, redirected, exitFlag, main, mi>>
      BY <1>e DEF EnterEnqueue, mainVars
    <2>2. \A u \in Threads : u # t => call'[u] = call[u]
      BY <1>e, <1>t DEF EnterEnqueue, TypeOK
    <2>3. QED
      BY <2>1, <2>2, <1>e DEF NotifyPending
  <1>1. ASSUME NEW t \in Threads, NEW j \in Jobs, EnqueueJob(t, j) PROVE Goal
    <2>1. UNCHANGED <<pc, loop, from, prio>>
      BY <1>1 DEF EnqueueJob, workerVars
    <2>2. NoLostWakeup'
      BY <1>1, <1>e, <1>h, <2>1 DEF EnqueueJob, CanCall, NoLostWakeup, Passed
    <2>3. QED
      BY <1>1, <1>e, <1>h, <2>1, <2>2 DEF EnqueueJob, CanCall
  <1>2. ASSUME NEW w \in Workers, SwitchJobThread(w) PROVE Goal
    <2>1. UNCHANGED <<pc, loop, from, prio>> /\ w \in Threads /\ cur[w] \in Jobs
      BY <1>2, <1>t DEF SwitchJobThread, CanCall, Threads, TypeOK
    <2>2. NoLostWakeup'
      BY <1>2, <1>e, <1>h, <2>1 DEF SwitchJobThread, CanCall, NoLostWakeup, Passed
    <2>3. QED
      BY <1>2, <1>e, <1>h, <2>1, <2>2 DEF SwitchJobThread, CanCall
  <1>3. ASSUME NEW t \in Threads, PushJob(t) PROVE Goal
    <2> DEFINE c == call[t]
    <2>1. c.target \in Workers /\ c.job \in Jobs /\ PriorityOf[c.job] \in Priorities
      BY <1>3, <1>t, PoolAssumption DEF PushJob, TypeOK, Calls
    <2>0. PICK v \in Workers : v = c.target
      BY <2>1
    <2>2. UNCHANGED <<flag, pc, loop, from, prio, exitFlag, main, mi>>
      BY <1>3 DEF PushJob, workerVars, mainVars
    <2>3. \A w \in Workers : NotifyPending(w) => NotifyPending(w)'
      BY <1>3, <1>t DEF PushJob, TypeOK, NotifyPending
    <2>4. NotifyPending(v)'
      BY <1>3, <1>t, <2>0 DEF PushJob, TypeOK, NotifyPending
    <2>5. \A w \in Workers : w # v => jobQ'[w] = jobQ[w]
      BY <1>3, <1>t, <2>0, <2>1 DEF PushJob, TypeOK
    <2>6. ASSUME NEW w \in Workers, NEW p \in Priorities, Passed(w, p)', jobQ'[w][p] # <<>>
          PROVE  flag'[w] \/ NotifyPending(w)'
      <3>1. CASE w = v
        BY <2>4, <3>1
      <3>2. CASE w # v
        <4>1. Passed(w, p) /\ jobQ[w][p] # <<>>
          BY <2>2, <2>5, <2>6, <3>2 DEF Passed
        <4>2. flag[w] \/ NotifyPending(w)
          BY <4>1, <1>h DEF NoLostWakeup
        <4>3. QED
          BY <4>2, <2>2, <2>3
      <3>3. QED
        BY <3>1, <3>2
    <2>7. NoLostWakeup'
      BY <2>6 DEF NoLostWakeup
    <2>8. QED
      BY <1>h, <2>2, <2>7
  <1>4. ASSUME NEW t \in Threads, NotifyTarget(t) PROVE Goal
    <2> DEFINE c == call[t]
    <2>1. c.target \in Workers
      BY <1>t DEF TypeOK, Calls
    <2>2. UNCHANGED <<jobQ, pc, loop, from, prio, exitFlag, main, mi>>
      BY <1>4 DEF NotifyTarget, workerVars, mainVars
    <2>3. flag'[c.target] /\ \A w \in Workers : flag[w] => flag'[w]
      BY <1>4, <1>t, <2>1 DEF NotifyTarget, TypeOK
    <2>4. \A w \in Workers : w # c.target /\ NotifyPending(w) => NotifyPending(w)'
      BY <1>4, <1>t DEF NotifyTarget, TypeOK, NotifyPending
    <2>5. NoLostWakeup'
      BY <1>h, <2>2, <2>3, <2>4 DEF NoLostWakeup, Passed
    <2>6. QED
      BY <1>h, <2>2, <2>3, <2>5
  <1>5. ASSUME NEW w \in Workers, TakeJob(w) PROVE Goal
    <2>1. UNCHANGED <<flag, loop, from, prio, call, exitFlag, main, mi>>
      BY <1>5 DEF TakeJob, mainVars
    <2>2. \A v \in Workers, p \in Priorities : jobQ'[v][p] # <<>> => jobQ[v][p] # <<>>
      BY <1>5, <1>t DEF TakeJob, TypeOK
    <2>3. \A v \in Workers, p \in Priorities : Passed(v, p)' => Passed(v, p)
      BY <1>5, <1>t, <2>1 DEF TakeJob, TypeOK, Passed
    <2>4. NoLostWakeup'
      BY <1>h, <2>1, <2>2, <2>3 DEF NoLostWakeup, NotifyPending
    <2>5. ExitNotMissed'
      BY <1>5, <1>h, <1>t, <2>1 DEF TakeJob, TypeOK
    <2>6. QED
      BY <1>h, <2>1, <2>4, <2>5
  <1>6. ASSUME NEW w \in Workers, NextPriority(w) PROVE Goal
    <2>1. UNCHANGED <<jobQ, flag, pc, loop, from, call, exitFlag, main, mi>>
      BY <1>6 DEF NextPriority, mainVars
    <2>2. \A v \in Workers, p \in Priorities :
             Passed(v, p)' /\ jobQ[v][p] # <<>> => Passed(v, p)
      <3>1. prio' = [prio EXCEPT ![w] = prio[w] + 1] /\ prio[w] \in Nat
        BY <1>6, <1>t, PoolAssumption DEF NextPriority, TypeOK, Priorities
      <3>2. \A p \in Priorities : p < prio[w] + 1 => p < prio[w] \/ p = prio[w]
        BY <3>1 DEF Priorities
      <3>3. loop[w] = "drain" => jobQ[w][prio[w]] = <<>>
        BY <1>6, <1>h DEF NextPriority, QueueIsEmpty
      <3>4. \A v \in Workers : v # w => prio'[v] = prio[v]
        BY <3>1, <1>t DEF TypeOK
      <3>5. prio'[w] = prio[w] + 1
        BY <3>1, <1>t DEF TypeOK
      <3>6. QED
        BY <2>1, <3>2, <3>3, <3>4, <3>5 DEF Passed
    <2>3. NoLostWakeup'
      BY <1>h, <2>1, <2>2 DEF NoLostWakeup, NotifyPending
    <2>4. QED
      BY <1>h, <2>1, <2>3
  <1>7. ASSUME NEW w \in Workers, StartStealing(w) PROVE Goal
    <2>1. UNCHANGED <<jobQ, flag, pc, call, exitFlag, main, mi>>
      BY <1>7 DEF StartStealing, mainVars
    <2>2. \A v \in Workers : v # w =>
             prio'[v] = prio[v] /\ loop'[v] = loop[v] /\ from'[v] = from[v]
      BY <1>7, <1>t DEF StartStealing, TypeOK
    <2>3. \A p \in Priorities : jobQ[w][p] # <<>> => flag[w] \/ NotifyPending(w)
      BY <1>7, <1>h, <1>t, LastPriorityPassed DEF StartStealing
    <2>4. NoLostWakeup'
      BY <1>h, <2>1, <2>2, <2>3 DEF NoLostWakeup, NotifyPending, Passed
    <2>5. loop'[w] = "steal"
      BY <1>7, <1>t DEF StartStealing, TypeOK
    <2>6. QED
      BY <1>h, <2>1, <2>2, <2>4, <2>5
  <1>8. ASSUME NEW w \in Workers, NothingFound(w) PROVE Goal
    <2>1. UNCHANGED <<jobQ, flag, loop, from, prio, call, exitFlag, main, mi>>
      BY <1>8 DEF NothingFound, mainVars
    <2>2. \A v \in Workers : v # w => pc'[v] = pc[v]
      BY <1>8, <1>t DEF NothingFound, TypeOK
    <2>3. \A p \in Priorities : jobQ[w][p] # <<>> => flag[w] \/ NotifyPending(w)
      <3>1. CASE loop[w] = "drain"
        BY <3>1, <1>8, <1>h, <1>t, LastPriorityPassed DEF NothingFound
      <3>2. CASE loop[w] = "steal"
        BY <3>2, <1>8, <1>h DEF NothingFound, QueueIsEmpty, NoLostWakeup, Passed
      <3>3. QED
        BY <3>1, <3>2, <1>t DEF TypeOK
    <2>4. NoLostWakeup'
      BY <1>h, <2>1, <2>2, <2>3 DEF NoLostWakeup, NotifyPending, Passed
    <2>5. ExitNotMissed'
      BY <1>8, <1>h, <1>t, <2>1, <2>2 DEF NothingFound, TypeOK
    <2>6. QED
      BY <1>h, <2>1, <2>4, <2>5
  <1>9. ASSUME NEW w \in Workers, SuspendJob(w) PROVE Goal
    <2>1. UNCHANGED <<jobQ, flag, pc, loop, from, prio, call, exitFlag, main, mi>>
      BY <1>9 DEF SuspendJob, mainVars
    <2>2. QED
      BY <1>h, <2>1 DEF NoLostWakeup, NotifyPending, Passed
  <1>10. ASSUME NEW w \in Workers, ResumeReturns(w) PROVE Goal
    <2>1. UNCHANGED <<jobQ, flag, loop, from, call, exitFlag, main, mi>>
      BY <1>10 DEF ResumeReturns, mainVars
    <2>2. \A v \in Workers, p \in Priorities : Passed(v, p)' => Passed(v, p)
      BY <1>10, <1>t, <2>1 DEF ResumeReturns, TypeOK, Passed, Priorities
    <2>3. NoLostWakeup'
      BY <1>h, <2>1, <2>2 DEF NoLostWakeup, NotifyPending
    <2>4. ExitNotMissed'
      BY <1>10, <1>h, <1>t, <2>1 DEF ResumeReturns, TypeOK
    <2>5. QED
      BY <1>h, <2>1, <2>3, <2>4
  <1>11. ASSUME NEW w \in Workers, TestExit(w) PROVE Goal
    <2>1. UNCHANGED <<jobQ, flag, loop, from, prio, call, exitFlag, main, mi>>
      BY <1>11 DEF TestExit, mainVars
    <2>2. \A v \in Workers, p \in Priorities : Passed(v, p)' => Passed(v, p)
      BY <1>11, <1>t, <2>1 DEF TestExit, TypeOK, Passed
    <2>3. NoLostWakeup'
      BY <1>h, <2>1, <2>2 DEF NoLostWakeup, NotifyPending
    <2>4. ExitNotMissed'
      BY <1>11, <1>h, <1>t, <2>1 DEF TestExit, TypeOK
    <2>5. QED
      BY <1>h, <2>1, <2>3, <2>4
  <1>12. ASSUME NEW w \in Workers, WaitForJob(w) PROVE Goal
    <2>1. UNCHANGED <<jobQ, flag, loop, from, prio, call, exitFlag, main, mi>>
      BY <1>12 DEF WaitForJob, mainVars
    <2>2. \A v \in Workers, p \in Priorities : Passed(v, p)' => Passed(v, p)
      BY <1>12, <1>t, <2>1 DEF WaitForJob, TypeOK, Passed
    <2>3. NoLostWakeup'
      BY <1>h, <2>1, <2>2 DEF NoLostWakeup, NotifyPending
    <2>4. ExitNotMissed'
      BY <1>12, <1>h, <1>t, <2>1 DEF WaitForJob, TypeOK
    <2>5. QED
      BY <1>h, <2>1, <2>3, <2>4
  <1>13. ASSUME NEW w \in Workers, ClearFlag(w) PROVE Goal
    <2>1. UNCHANGED <<jobQ, call, exitFlag, main, mi>>
      BY <1>13 DEF ClearFlag, mainVars
    <2>2. \A v \in Workers : v # w => /\ flag'[v] = flag[v] /\ pc'[v] = pc[v] /\ loop'[v] = loop[v]
                                      /\ from'[v] = from[v] /\ prio'[v] = prio[v]
      BY <1>13, <1>t DEF ClearFlag, TypeOK
    <2>3. pc'[w] = "scan" /\ loop'[w] = "drain" /\ from'[w] = w /\ prio'[w] = 0
      BY <1>13, <1>t DEF ClearFlag, TypeOK
    <2>4. \A p \in Priorities : ~Passed(w, p)'
      BY <2>3 DEF Passed, Priorities
    <2>5. NoLostWakeup'
      BY <1>h, <2>1, <2>2, <2>4 DEF NoLostWakeup, NotifyPending, Passed
    <2>6. QED
      BY <1>h, <2>1, <2>2, <2>3, <2>5
  <1>14. ASSUME NEW w \in Workers, ExitWorker(w) PROVE Goal
    <2>1. UNCHANGED <<jobQ, flag, loop, from, prio, call, exitFlag, main, mi>>
      BY <1>14 DEF ExitWorker, mainVars
    <2>2. \A v \in Workers, p \in Priorities : Passed(v, p)' => Passed(v, p)
      BY <1>14, <1>t, <2>1 DEF ExitWorker, TypeOK, Passed
    <2>3. NoLostWakeup'
      BY <1>h, <2>1, <2>2 DEF NoLostWakeup, NotifyPending
    <2>4. ExitNotMissed'
      BY <1>14, <1>h, <1>t, <2>1 DEF ExitWorker, TypeOK
    <2>5. QED
      BY <1>h, <2>1, <2>3, <2>4
  <1>15. ASSUME RedirectToMain PROVE Goal
    <2>1. UNCHANGED <<jobQ, flag, pc, loop, from, prio, call, exitFlag, mi>> /\ main = "up" /\ main' = "redirected"
      BY <1>15 DEF RedirectToMain, workerVars
    <2>2. NoLostWakeup'
      BY <1>h, <2>1 DEF NoLostWakeup, NotifyPending, Passed
    <2>3. ExitNotMissed'
      BY <1>h, <2>1
    <2>4. QED
      BY <1>h, <2>1, <2>2, <2>3
  <1>16. ASSUME RequestExit PROVE Goal
    <2>1. mi' = 0 /\ main' = "notify" /\ UNCHANGED <<jobQ, flag, pc, loop, from, prio, call>>
      BY <1>16, <1>h DEF RequestExit, workerVars
    <2>2. \A w \in Workers : 0 <= w
      BY DEF Workers
    <2>3. NoLostWakeup'
      BY <1>h, <2>1 DEF NoLostWakeup, NotifyPending, Passed
    <2>4. ExitNotMissed'
      BY <2>1, <2>2
    <2>5. QED
      BY <1>h, <2>1, <2>3, <2>4
  <1>17. ASSUME NotifyWorker PROVE Goal
    <2>1. UNCHANGED <<jobQ, pc, loop, from, prio, call, exitFlag>>
      BY <1>17 DEF NotifyWorker, workerVars
    <2>2. flag'[mi] /\ \A w \in Workers : flag[w] => flag'[w]
      BY <1>17, <1>t DEF NotifyWorker, TypeOK
    <2>3. NoLostWakeup'
      BY <1>h, <2>1, <2>2 DEF NoLostWakeup, NotifyPending, Passed
    <2>4. ExitNotMissed'
      <3>1. \A w \in Workers : mi <= w => w = mi \/ mi + 1 <= w
        BY <1>t DEF TypeOK, Workers
      <3>2. CASE mi + 1 \in Workers
        BY <3>1, <3>2, <1>17, <1>h, <2>1, <2>2 DEF NotifyWorker
      <3>3. CASE mi + 1 \notin Workers
        <4>1. \A w \in Workers : mi <= w => w = mi
          BY <3>3, <1>t, PoolAssumption DEF TypeOK, Workers
        <4>2. QED
          BY <4>1, <1>h, <2>1, <2>2
      <3>4. QED
        BY <3>2, <3>3
    <2>5. NotifiesFromFirst'
      BY <1>17 DEF NotifyWorker
    <2>6. DrainsOwnQueues'
      BY <1>h, <2>1
    <2> HIDE DEF DrainsOwnQueues, NotifiesFromFirst, ExitNotMissed
    <2>7. QED
      BY <2>3, <2>4, <2>5, <2>6
  <1>18. ASSUME TryShutdown PROVE Goal
    <2>1. /\ UNCHANGED <<jobQ, flag, pc, loop, from, prio, call, exitFlag, mi>>
          /\ main = "tryWait" /\ main' \in {"down", "notify"}
      BY <1>18 DEF TryShutdown, workerVars
    <2>2. NoLostWakeup'
      BY <1>h, <2>1 DEF NoLostWakeup, NotifyPending, Passed
    <2>3. ExitNotMissed'
      BY <1>h, <2>1
    <2>4. QED
      BY <1>h, <2>1, <2>2, <2>3
  <1>19. ASSUME UNCHANGED vars PROVE Goal
    <2>1. UNCHANGED <<jobQ, flag, pc, loop, from, prio, call, exitFlag, main, mi>>
      BY <1>19 DEF vars, workerVars, mainVars
    <2>2. NoLostWakeup'
      BY <1>h, <2>1 DEF NoLostWakeup, NotifyPending, Passed
    <2>3. ExitNotMissed'
      BY <1>h, <2>1
    <2>4. QED
      BY <1>h, <2>1, <2>2, <2>3
  <1> HIDE DEF Goal
  <1>20. Goal
    BY <1>1, <1>2, <1>3, <1>4, <1>5, <1>6, <1>7, <1>8, <1>9, <1>10, <1>11, <1>12, <1>13,
       <1>14, <1>15, <1>16, <1>17, <1>18, <1>19
       DEF Next, CallStep, WorkerStep, ShutdownStep, Stopped
  <1>21. QED
    BY <1>t, <1>20 DEF WakeupInv, Goal

\* No wake-up for a job is lost: enqueueJob sets the flag after the job is in
\* the queue, the worker clears it before it looks at its queues again.
THEOREM WakeupNeverLost == Spec => []NoLostWakeup
  <1>1. WakeupInv => NoLostWakeup
    BY DEF WakeupInv
  <1>2. QED
    BY InitWakeup, NextWakeup, <1>1, PTL DEF Spec

\* No worker sleeps through the request to exit: one that read bExitMain
\* before it was set is notified after it is set.
THEOREM ExitNeverMissed == Spec => []ExitNotMissed
  <1>1. WakeupInv => ExitNotMissed
    BY DEF WakeupInv
  <1>2. QED
    BY InitWakeup, NextWakeup, <1>1, PTL DEF Spec

(***************************************************************************)
(* The places a coroutine can be in, as predicates.                        *)
(***************************************************************************)
Running(j) == \E w \in Workers : cur[w] = j

Carried(j) == \E t \in Threads : call[t].job = j

At(j, w, p, i) == i \in 1 .. Len(jobQ[w][p]) /\ jobQ[w][p][i] = j

Queued(j) == \E w \in Workers, p \in Priorities, i \in Nat : At(j, w, p, i)

(***************************************************************************)
(* The inductive invariant.  A coroutine is in some place, in no two kinds *)
(* of places, and at one place of its kind.  To keep this, a worker that   *)
(* takes a job must hold none, and a thread that enters enqueueJob must    *)
(* carry none.                                                             *)
(***************************************************************************)
HoldsOnlyInRun == \A w \in Workers : cur[w] # NoJob => pc[w] = "run"

CarriesOnlyInPush == \A t \in Threads : call[t].phase # "push" => call[t].job = NoJob

OpenUntilRedirected == main = "up" => ~redirected

HeldSomewhere ==
    \A j \in Jobs : j \in idle \/ j \in toMain \/ Running(j) \/ Carried(j) \/ Queued(j)

HeldInOneKind ==
    \A j \in Jobs :
        /\ j \in idle => j \notin toMain /\ ~Running(j) /\ ~Carried(j) /\ ~Queued(j)
        /\ j \in toMain => ~Running(j) /\ ~Carried(j) /\ ~Queued(j)
        /\ Running(j) => ~Carried(j) /\ ~Queued(j)
        /\ Carried(j) => ~Queued(j)

RunByOne ==
    \A v, w \in Workers : cur[v] = cur[w] /\ cur[v] # NoJob => v = w

CarriedByOne ==
    \A t, u \in Threads : call[t].job = call[u].job /\ call[t].job # NoJob => t = u

QueuedOnce ==
    \A j \in Jobs, v, w \in Workers, p, q \in Priorities, i, k \in Nat :
        At(j, v, p, i) /\ At(j, w, q, k) => v = w /\ p = q /\ i = k

PlaceInv ==
    /\ TypeOK
    /\ HoldsOnlyInRun
    /\ CarriesOnlyInPush
    /\ OpenUntilRedirected
    /\ HeldSomewhere
    /\ HeldInOneKind
    /\ RunByOne
    /\ CarriedByOne
    /\ QueuedOnce

(***************************************************************************)
(* How each action that touches a coroutine moves it.                      *)
(***************************************************************************)
\* Entering enqueueJob: a thread that carries nothing now carries j, or j
\* went to the main thread.
LEMMA EnterMoves ==
  ASSUME TypeOK, CarriesOnlyInPush,
         NEW t \in Threads, NEW j \in Jobs, call[t].phase = "none", EnterEnqueue(t, j)
  PROVE  /\ UNCHANGED <<jobQ, redirected, main>>
         /\ \/ /\ toMain' = toMain
               /\ call'[t].job = j /\ call'[t].phase = "push"
            \/ /\ redirected /\ toMain' = toMain \cup {j}
               /\ UNCHANGED call
         /\ call[t].job = NoJob
         /\ \A u \in Threads : u # t => call'[u] = call[u]
  <1>1. UNCHANGED <<jobQ, redirected, main>> /\ call[t].job = NoJob
    BY DEF EnterEnqueue, mainVars, CarriesOnlyInPush
  <1>2. CASE redirected /\ toMain' = toMain \cup {j} /\ UNCHANGED call
    BY <1>1, <1>2
  <1>3. CASE /\ UNCHANGED toMain
             /\ \E w \in Workers :
                  call' = [call EXCEPT ![t] = [phase |-> "push", job |-> j, target |-> w]]
    BY <1>1, <1>3 DEF TypeOK
  <1>4. QED
    BY <1>2, <1>3 DEF EnterEnqueue

\* Seen from the predicates: j is carried, or handed to the main thread, and
\* no other coroutine moves.
LEMMA EnterPlaces ==
  ASSUME TypeOK, CarriesOnlyInPush, CarriedByOne,
         NEW t \in Threads, NEW j \in Jobs, call[t].phase = "none", EnterEnqueue(t, j),
         ~Carried(j)
  PROVE  /\ \A k \in Jobs : Queued(k)' <=> Queued(k)
         /\ \A k \in Jobs : k # j => (Carried(k)' <=> Carried(k)) /\ (k \in toMain' <=> k \in toMain)
         /\ \/ Carried(j)' /\ (j \in toMain' <=> j \in toMain)
            \/ ~Carried(j)' /\ j \in toMain' /\ redirected
         /\ CarriesOnlyInPush'
         /\ CarriedByOne'
         /\ QueuedOnce' <=> QueuedOnce
  <1>1. /\ UNCHANGED jobQ
        /\ \/ toMain' = toMain /\ call'[t].job = j /\ call'[t].phase = "push"
           \/ redirected /\ toMain' = toMain \cup {j} /\ UNCHANGED call
        /\ call[t].job = NoJob
        /\ \A u \in Threads : u # t => call'[u] = call[u]
    BY EnterMoves
  <1>2. /\ \A k \in Jobs : Queued(k)' <=> Queued(k)
        /\ QueuedOnce' <=> QueuedOnce
    BY <1>1 DEF Queued, At, QueuedOnce
  <1>3. \A k \in Jobs : k # j => (Carried(k)' <=> Carried(k)) /\ (k \in toMain' <=> k \in toMain)
    BY <1>1, PoolAssumption DEF Carried
  <1>4. \/ Carried(j)' /\ (j \in toMain' <=> j \in toMain)
        \/ ~Carried(j)' /\ j \in toMain' /\ redirected
    BY <1>1 DEF Carried
  <1>5. CarriesOnlyInPush'
    BY <1>1 DEF CarriesOnlyInPush
  <1>6. CarriedByOne'
    BY <1>1 DEF CarriedByOne, Carried
  <1>7. QED
    BY <1>2, <1>3, <1>4, <1>5, <1>6

\* PushJob: the carried coroutine is now at the end of one queue.
LEMMA PushPlaces ==
  ASSUME PlaceInv, NEW t \in Threads, PushJob(t), NEW j \in Jobs, j = call[t].job
  PROVE  /\ UNCHANGED <<cur, pc, idle, toMain, redirected, main>>
         /\ Carried(j) /\ ~Carried(j)' /\ Queued(j)'
         /\ \A k \in Jobs : k # j => (Carried(k)' <=> Carried(k)) /\ (Queued(k)' <=> Queued(k))
         /\ CarriesOnlyInPush'
         /\ CarriedByOne'
         /\ QueuedOnce'
  <1>0. PICK v \in Workers, r \in Priorities : v = call[t].target /\ r = PriorityOf[j]
    BY PoolAssumption DEF PlaceInv, TypeOK, Calls
  <1>1. /\ TypeOK /\ CarriesOnlyInPush /\ CarriedByOne /\ QueuedOnce
        /\ ~Queued(j) /\ j # NoJob
    BY PoolAssumption DEF PlaceInv, HeldInOneKind, Carried
  <1>2. UNCHANGED <<cur, pc, idle, toMain, redirected, main>>
    BY DEF PushJob, workerVars, mainVars
  <1>3. call'[t].job = NoJob /\ \A u \in Threads : u # t => call'[u] = call[u]
    BY <1>1 DEF PushJob, TypeOK
  <1>4. jobQ' = [jobQ EXCEPT ![v][r] = Append(@, j)]
    BY <1>0 DEF PushJob
  <1>5. \A w \in Workers, p \in Priorities :
           jobQ[w][p] \in Seq(Jobs) /\ (w # v \/ p # r => jobQ'[w][p] = jobQ[w][p])
    BY <1>1, <1>4 DEF TypeOK
  <1>6. jobQ'[v][r] = Append(jobQ[v][r], j)
    BY <1>1, <1>4 DEF TypeOK
  <1>n. PICK n \in Nat : n = Len(jobQ[v][r]) + 1
    BY <1>5
  <1>8. \A k \in Jobs, w \in Workers, p \in Priorities, i \in Nat :
           At(k, w, p, i)' <=> At(k, w, p, i) \/ (k = j /\ w = v /\ p = r /\ i = n)
    <2> SUFFICES ASSUME NEW k \in Jobs, NEW w \in Workers, NEW p \in Priorities, NEW i \in Nat
                 PROVE  At(k, w, p, i)' <=> At(k, w, p, i) \/ (k = j /\ w = v /\ p = r /\ i = n)
      OBVIOUS
    <2>1. CASE w = v /\ p = r
      BY <2>1, <1>5, <1>6, <1>n DEF At
    <2>2. CASE w # v \/ p # r
      BY <2>2, <1>5 DEF At
    <2>3. QED
      BY <2>1, <2>2
  <1>9. Carried(j) /\ ~Carried(j)' /\ \A k \in Jobs : k # j => (Carried(k)' <=> Carried(k))
    BY <1>1, <1>3, PoolAssumption DEF Carried, CarriedByOne
  <1>10. Queued(j)' /\ \A k \in Jobs : k # j => (Queued(k)' <=> Queued(k))
    BY <1>8 DEF Queued
  <1>11. CarriesOnlyInPush'
    BY <1>1, <1>3 DEF CarriesOnlyInPush
  <1>12. CarriedByOne'
    BY <1>1, <1>3 DEF CarriedByOne
  <1>13. QueuedOnce'
    BY <1>1, <1>8 DEF QueuedOnce, Queued
  <1>14. QED
    BY <1>2, <1>9, <1>10, <1>11, <1>12, <1>13

\* TakeJob: the coroutine at the head of a queue is the one the worker runs.
LEMMA TailEntries ==
  ASSUME NEW s \in Seq(Jobs), s # <<>>
  PROVE  /\ Len(Tail(s)) = Len(s) - 1
         /\ \A n \in 1 .. Len(s) - 1 : Tail(s)[n] = s[n + 1]
  <1>1. QED
    BY HeadTailProperties

LEMMA TakePlaces ==
  ASSUME PlaceInv, NEW w \in Workers, TakeJob(w),
         NEW j \in Jobs, j = Head(jobQ[from[w]][prio[w]])
  PROVE  /\ UNCHANGED <<call, idle, toMain, redirected, main>>
         /\ Queued(j) /\ ~Queued(j)' /\ Running(j)'
         /\ \A k \in Jobs : k # j => (Running(k)' <=> Running(k)) /\ (Queued(k)' <=> Queued(k))
         /\ HoldsOnlyInRun'
         /\ RunByOne'
         /\ QueuedOnce'
  <1>0. PICK v \in Workers, r \in Priorities : v = from[w] /\ r = prio[w]
    BY DEF PlaceInv, TypeOK
  <1>1. UNCHANGED <<call, idle, toMain, redirected, main>>
    BY DEF TakeJob, mainVars
  <1>2. TypeOK /\ QueuedOnce /\ HoldsOnlyInRun /\ RunByOne /\ cur[w] = NoJob
    BY DEF PlaceInv, HoldsOnlyInRun, TakeJob
  <1>3. /\ cur'[w] = j /\ pc'[w] = "run"
        /\ \A u \in Workers : u # w => cur'[u] = cur[u] /\ pc'[u] = pc[u]
    BY <1>2 DEF TakeJob, TypeOK
  <1>4. jobQ[v][r] # <<>> /\ jobQ' = [jobQ EXCEPT ![v][r] = Tail(jobQ[v][r])]
    BY <1>0 DEF TakeJob
  <1>5. \A u \in Workers, p \in Priorities :
           jobQ[u][p] \in Seq(Jobs) /\ (u # v \/ p # r => jobQ'[u][p] = jobQ[u][p])
    BY <1>2, <1>4 DEF TypeOK
  <1>6. jobQ'[v][r] = Tail(jobQ[v][r])
    BY <1>2, <1>4 DEF TypeOK
  <1>7. At(j, v, r, 1)
    BY <1>0, <1>4, <1>5 DEF At
  <1>8. \A k \in Jobs, u \in Workers, p \in Priorities, i \in Nat :
           At(k, u, p, i)' <=> IF u = v /\ p = r THEN i > 0 /\ At(k, u, p, i + 1)
                                                 ELSE At(k, u, p, i)
    <2> SUFFICES ASSUME NEW k \in Jobs, NEW u \in Workers, NEW p \in Priorities, NEW i \in Nat
                 PROVE  At(k, u, p, i)' <=> IF u = v /\ p = r THEN i > 0 /\ At(k, u, p, i + 1)
                                                              ELSE At(k, u, p, i)
      OBVIOUS
    <2>1. CASE u = v /\ p = r
      <3>0. jobQ[v][r] \in Seq(Jobs) /\ jobQ[v][r] # <<>>
        BY <1>4, <1>5
      <3>t. /\ Len(Tail(jobQ[v][r])) = Len(jobQ[v][r]) - 1
            /\ \A n \in 1 .. Len(jobQ[v][r]) - 1 : Tail(jobQ[v][r])[n] = jobQ[v][r][n + 1]
        BY <3>0, TailEntries
      <3>1. /\ Len(jobQ'[v][r]) = Len(jobQ[v][r]) - 1
            /\ \A n \in 1 .. Len(jobQ[v][r]) - 1 : jobQ'[v][r][n] = jobQ[v][r][n + 1]
        BY <1>6, <3>t, Zenon
      <3>2. Len(jobQ[v][r]) \in Nat
        BY <1>5
      <3>3. QED
        BY <2>1, <3>1, <3>2 DEF At
    <2>2. CASE u # v \/ p # r
      BY <2>2, <1>5 DEF At
    <2>3. QED
      BY <2>1, <2>2
  <1>9. \A k \in Jobs, u \in Workers, p \in Priorities, i \in Nat : At(k, u, p, i) => i > 0
    BY <1>5 DEF At
  <1>10. Queued(j) /\ ~Queued(j)'
    <2>1. Queued(j)
      BY <1>7 DEF Queued
    <2>2. ASSUME NEW u \in Workers, NEW p \in Priorities, NEW i \in Nat, At(j, u, p, i)'
          PROVE  FALSE
      <3>1. CASE u = v /\ p = r
        BY <3>1, <2>2, <1>2, <1>7, <1>8 DEF QueuedOnce
      <3>2. CASE u # v \/ p # r
        BY <3>2, <2>2, <1>2, <1>7, <1>8 DEF QueuedOnce
      <3>3. QED
        BY <3>1, <3>2
    <2>3. QED
      BY <2>1, <2>2 DEF Queued
  <1>11. ASSUME NEW k \in Jobs, k # j PROVE Queued(k)' <=> Queued(k)
    <2>1. ASSUME NEW u \in Workers, NEW p \in Priorities, NEW i \in Nat, At(k, u, p, i)
          PROVE  Queued(k)'
      <3>1. CASE u = v /\ p = r
        <4>1. i # 1
          BY <3>1, <2>1, <1>7, <1>11 DEF At
        <4>2. i - 1 \in Nat /\ i - 1 > 0
          BY <4>1, <2>1, <1>9
        <4>3. At(k, u, p, i - 1)'
          BY <4>2, <3>1, <2>1, <1>8
        <4>4. QED
          BY <4>2, <4>3 DEF Queued
      <3>2. CASE u # v \/ p # r
        BY <3>2, <2>1, <1>8 DEF Queued
      <3>3. QED
        BY <3>1, <3>2
    <2>2. ASSUME NEW u \in Workers, NEW p \in Priorities, NEW i \in Nat, At(k, u, p, i)'
          PROVE  Queued(k)
      BY <2>2, <1>8 DEF Queued
    <2>3. QED
      BY <2>1, <2>2 DEF Queued
  <1>12. QueuedOnce'
    <2> SUFFICES ASSUME NEW k \in Jobs, NEW u \in Workers, NEW x \in Workers,
                        NEW p \in Priorities, NEW q \in Priorities, NEW i \in Nat, NEW m \in Nat,
                        At(k, u, p, i)', At(k, x, q, m)'
                 PROVE  u = x /\ p = q /\ i = m
      BY DEF QueuedOnce
    <2>1. PICK i1 \in Nat, m1 \in Nat :
             /\ At(k, u, p, i1) /\ i1 = IF u = v /\ p = r THEN i + 1 ELSE i
             /\ At(k, x, q, m1) /\ m1 = IF x = v /\ q = r THEN m + 1 ELSE m
      BY <1>8
    <2>2. u = x /\ p = q /\ i1 = m1
      BY <2>1, <1>2 DEF QueuedOnce
    <2>3. QED
      BY <2>1, <2>2
  <1>13. Running(j)' /\ \A k \in Jobs : k # j => (Running(k)' <=> Running(k))
    BY <1>2, <1>3, PoolAssumption DEF Running
  <1>14. HoldsOnlyInRun'
    BY <1>2, <1>3 DEF HoldsOnlyInRun
  <1>15. RunByOne'
    <2>1. ~Running(j)
      BY <1>10 DEF PlaceInv, HeldInOneKind
    <2>2. QED
      BY <2>1, <1>2, <1>3 DEF RunByOne, Running
  <1>16. QED
    BY <1>1, <1>10, <1>11, <1>12, <1>13, <1>14, <1>15

\* A worker lets go of the coroutine it ran: it goes back to idle, or enters
\* enqueueJob.
LEMMA RunnerLetsGo ==
  ASSUME PlaceInv, NEW w \in Workers, NEW j \in Jobs, j = cur[w],
         cur' = [cur EXCEPT ![w] = NoJob], UNCHANGED pc
  PROVE  /\ Running(j) /\ ~Running(j)'
         /\ \A k \in Jobs : k # j => (Running(k)' <=> Running(k))
         /\ HoldsOnlyInRun'
         /\ RunByOne'
  <1>1. TypeOK /\ HoldsOnlyInRun /\ RunByOne
    BY DEF PlaceInv
  <1>2. cur'[w] = NoJob /\ \A u \in Workers : u # w => cur'[u] = cur[u]
    BY <1>1 DEF TypeOK
  <1>3. Running(j) /\ ~Running(j)'
    BY <1>1, <1>2, PoolAssumption DEF Running, RunByOne
  <1>4. \A k \in Jobs : k # j => (Running(k)' <=> Running(k))
    BY <1>2, PoolAssumption DEF Running
  <1>5. HoldsOnlyInRun' /\ RunByOne'
    BY <1>1, <1>2 DEF HoldsOnlyInRun, RunByOne
  <1>6. QED
    BY <1>3, <1>4, <1>5

\* Every other action leaves every coroutine where it is.
OtherWorkerStep(w) ==
    \/ NextPriority(w) \/ StartStealing(w) \/ NothingFound(w) \/ ResumeReturns(w)
    \/ TestExit(w) \/ WaitForJob(w) \/ ClearFlag(w) \/ ExitWorker(w)

LEMMA OthersKeepPlaces ==
  ASSUME PlaceInv,
         \/ \E t \in Threads : NotifyTarget(t)
         \/ \E w \in Workers : OtherWorkerStep(w)
         \/ RedirectToMain \/ ShutdownStep \/ UNCHANGED vars
  PROVE  /\ UNCHANGED <<idle, toMain>>
         /\ \A k \in Jobs : (Running(k)' <=> Running(k)) /\ (Carried(k)' <=> Carried(k))
                              /\ (Queued(k)' <=> Queued(k))
         /\ redirected' = redirected \/ RedirectToMain
         /\ HoldsOnlyInRun' /\ CarriesOnlyInPush' /\ OpenUntilRedirected'
         /\ RunByOne' /\ CarriedByOne' /\ QueuedOnce'
  <1> DEFINE Keeps == /\ UNCHANGED <<jobQ, cur, idle, toMain>>
                      /\ \A t \in Threads : call'[t].job = call[t].job
                      /\ HoldsOnlyInRun' /\ CarriesOnlyInPush' /\ OpenUntilRedirected'
                      /\ redirected' = redirected \/ RedirectToMain
  <1>0. TypeOK /\ HoldsOnlyInRun /\ CarriesOnlyInPush /\ OpenUntilRedirected
        /\ RunByOne /\ CarriedByOne /\ QueuedOnce
    BY DEF PlaceInv
  <1>1. ASSUME NEW t \in Threads, NotifyTarget(t) PROVE Keeps
    <2>1. UNCHANGED <<jobQ, cur, pc, idle, toMain, redirected, main>>
      BY <1>1 DEF NotifyTarget, workerVars, mainVars
    <2>2. call[t].job = NoJob /\ call'[t].job = NoJob
          /\ \A u \in Threads : u # t => call'[u] = call[u]
      BY <1>0, <1>1 DEF NotifyTarget, NotCalling, CarriesOnlyInPush, TypeOK
    <2>3. QED
      BY <1>0, <2>1, <2>2 DEF HoldsOnlyInRun, CarriesOnlyInPush, OpenUntilRedirected
  <1>2. ASSUME NEW w \in Workers, OtherWorkerStep(w) PROVE Keeps
    <2>1. UNCHANGED <<jobQ, cur, idle, toMain, call, redirected, main>>
      BY <1>2 DEF OtherWorkerStep, NextPriority, StartStealing, NothingFound, ResumeReturns,
                  TestExit, WaitForJob, ClearFlag, ExitWorker, mainVars
    <2>2. \A v \in Workers : pc'[v] = pc[v] \/ (v = w /\ (pc[w] # "run" \/ cur[w] = NoJob))
      BY <1>0, <1>2 DEF OtherWorkerStep, NextPriority, StartStealing, NothingFound, ResumeReturns,
                  TestExit, WaitForJob, ClearFlag, ExitWorker, QueueIsEmpty, TypeOK
    <2>3. QED
      BY <1>0, <2>1, <2>2 DEF HoldsOnlyInRun, CarriesOnlyInPush, OpenUntilRedirected
  <1>3. ASSUME RedirectToMain \/ ShutdownStep \/ UNCHANGED vars PROVE Keeps
    <2>1. UNCHANGED <<jobQ, cur, pc, idle, toMain, call>>
      BY <1>3 DEF RedirectToMain, ShutdownStep, RequestExit, NotifyWorker, TryShutdown,
                  vars, workerVars
    <2>2. redirected' = redirected \/ RedirectToMain
      BY <1>3 DEF ShutdownStep, RequestExit, NotifyWorker, TryShutdown, vars, mainVars
    <2>3. OpenUntilRedirected'
      BY <1>0, <1>3 DEF RedirectToMain, ShutdownStep, RequestExit, NotifyWorker, TryShutdown,
                  vars, mainVars, OpenUntilRedirected
    <2>4. QED
      BY <1>0, <2>1, <2>2, <2>3 DEF HoldsOnlyInRun, CarriesOnlyInPush
  <1>4. Keeps
    BY <1>1, <1>2, <1>3
  <1> HIDE DEF Keeps
  <1>5. \A k \in Jobs : (Running(k)' <=> Running(k)) /\ (Carried(k)' <=> Carried(k))
                          /\ (Queued(k)' <=> Queued(k))
    BY <1>4 DEF Keeps, Running, Carried, Queued, At
  <1>6. RunByOne' /\ CarriedByOne' /\ QueuedOnce'
    BY <1>0, <1>4 DEF Keeps, RunByOne, CarriedByOne, QueuedOnce, At
  <1>7. QED
    BY <1>4, <1>5, <1>6 DEF Keeps

(***************************************************************************)
(* The invariant holds initially and every step preserves it.              *)
(***************************************************************************)
LEMMA InitPlaces == Init => PlaceInv
  <1> SUFFICES ASSUME Init PROVE PlaceInv
    OBVIOUS
  <1>1. TypeOK /\ \A w \in Workers, p \in Priorities : jobQ[w][p] = <<>>
    BY InitType DEF Init
  <1>2. \A j \in Jobs : ~Running(j) /\ ~Carried(j) /\ ~Queued(j)
    BY <1>1, PoolAssumption DEF Init, NotCalling, Running, Carried, Queued, At
  <1>3. QueuedOnce
    BY <1>2 DEF QueuedOnce, Queued
  <1>4. RunByOne /\ CarriedByOne /\ HoldsOnlyInRun /\ CarriesOnlyInPush /\ OpenUntilRedirected
    BY DEF Init, NotCalling, RunByOne, CarriedByOne, HoldsOnlyInRun, CarriesOnlyInPush,
           OpenUntilRedirected
  <1>5. HeldSomewhere /\ HeldInOneKind
    BY <1>2 DEF Init, HeldSomewhere, HeldInOneKind
  <1>6. QED
    BY <1>1, <1>3, <1>4, <1>5 DEF PlaceInv

LEMMA NextPlaces == PlaceInv /\ [Next]_vars => PlaceInv'
  <1> SUFFICES ASSUME PlaceInv, [Next]_vars PROVE PlaceInv'
    OBVIOUS
  <1>0. TypeOK /\ HoldsOnlyInRun /\ CarriesOnlyInPush /\ OpenUntilRedirected
        /\ HeldSomewhere /\ HeldInOneKind /\ RunByOne /\ CarriedByOne /\ QueuedOnce
    BY DEF PlaceInv
  <1>t. TypeOK'
    BY <1>0, NextType
  <1>1. ASSUME NEW t \in Threads, NEW j \in Jobs, EnqueueJob(t, j) PROVE PlaceInv'
    <2>1. call[t].phase = "none" /\ EnterEnqueue(t, j) /\ j \in idle /\ idle' = idle \ {j}
          /\ UNCHANGED <<cur, pc>>
      BY <1>1 DEF EnqueueJob, CanCall, workerVars
    <2>2. ~Carried(j)
      BY <1>0, <2>1 DEF HeldInOneKind
    <2>3. \A k \in Jobs : Running(k)' <=> Running(k)
      BY <2>1 DEF Running
    <2>4. HoldsOnlyInRun' /\ RunByOne' /\ OpenUntilRedirected'
      BY <1>0, <2>1, EnterMoves DEF HoldsOnlyInRun, RunByOne, OpenUntilRedirected
    <2>5. HeldSomewhere'
      BY <1>0, <2>1, <2>2, <2>3, EnterPlaces DEF HeldSomewhere
    <2>6. HeldInOneKind'
      BY <1>0, <2>1, <2>2, <2>3, EnterPlaces DEF HeldInOneKind
    <2>7. QED
      BY <1>0, <1>t, <2>1, <2>2, <2>4, <2>5, <2>6, EnterPlaces DEF PlaceInv
  <1>2. ASSUME NEW w \in Workers, SwitchJobThread(w) PROVE PlaceInv'
    <2>1. PICK j \in Jobs : j = cur[w]
      BY <1>0, <1>2 DEF SwitchJobThread, CanCall, TypeOK, Threads
    <2>2. w \in Threads /\ call[w].phase = "none" /\ EnterEnqueue(w, j)
          /\ cur' = [cur EXCEPT ![w] = NoJob] /\ UNCHANGED <<pc, idle>>
      BY <1>2, <2>1 DEF SwitchJobThread, CanCall, Threads
    <2>3. /\ Running(j) /\ ~Running(j)'
          /\ \A k \in Jobs : k # j => (Running(k)' <=> Running(k))
          /\ HoldsOnlyInRun' /\ RunByOne'
      BY <2>1, <2>2, RunnerLetsGo
    <2>4. ~Carried(j)
      BY <1>0, <2>3 DEF HeldInOneKind
    <2>5. OpenUntilRedirected'
      BY <1>0, <2>2, EnterMoves DEF OpenUntilRedirected
    <2>6. HeldSomewhere'
      BY <1>0, <2>2, <2>3, <2>4, EnterPlaces DEF HeldSomewhere
    <2>7. HeldInOneKind'
      BY <1>0, <2>2, <2>3, <2>4, EnterPlaces DEF HeldInOneKind
    <2>8. QED
      BY <1>0, <1>t, <2>2, <2>3, <2>4, <2>5, <2>6, <2>7, EnterPlaces DEF PlaceInv
  <1>3. ASSUME NEW t \in Threads, PushJob(t) PROVE PlaceInv'
    <2>1. PICK j \in Jobs : j = call[t].job
      BY <1>0, <1>3 DEF PushJob, TypeOK
    <2>2. HoldsOnlyInRun' /\ RunByOne' /\ OpenUntilRedirected'
      BY <1>0, <1>3, <2>1, PushPlaces DEF HoldsOnlyInRun, RunByOne, OpenUntilRedirected
    <2>3. \A k \in Jobs : Running(k)' <=> Running(k)
      BY <1>3, <2>1, PushPlaces DEF Running
    <2>4. HeldSomewhere'
      BY <1>0, <1>3, <2>1, <2>3, PushPlaces DEF HeldSomewhere
    <2>5. HeldInOneKind'
      BY <1>0, <1>3, <2>1, <2>3, PushPlaces DEF HeldInOneKind
    <2>6. QED
      BY <1>t, <1>3, <2>1, <2>2, <2>4, <2>5, PushPlaces DEF PlaceInv
  <1>4. ASSUME NEW w \in Workers, TakeJob(w) PROVE PlaceInv'
    <2>1. PICK j \in Jobs : j = Head(jobQ[from[w]][prio[w]])
      BY <1>0, <1>4 DEF TakeJob, TypeOK
    <2>2. CarriesOnlyInPush' /\ CarriedByOne' /\ OpenUntilRedirected'
      BY <1>0, <1>4, <2>1, TakePlaces DEF CarriesOnlyInPush, CarriedByOne, OpenUntilRedirected
    <2>3. \A k \in Jobs : Carried(k)' <=> Carried(k)
      BY <1>4, <2>1, TakePlaces DEF Carried
    <2>4. HeldSomewhere'
      BY <1>0, <1>4, <2>1, <2>3, TakePlaces DEF HeldSomewhere
    <2>5. HeldInOneKind'
      BY <1>0, <1>4, <2>1, <2>3, TakePlaces DEF HeldInOneKind
    <2>6. QED
      BY <1>t, <1>4, <2>1, <2>2, <2>4, <2>5, TakePlaces DEF PlaceInv
  <1>5. ASSUME NEW w \in Workers, SuspendJob(w) PROVE PlaceInv'
    <2>1. PICK j \in Jobs : j = cur[w]
      BY <1>0, <1>5 DEF SuspendJob, TypeOK
    <2>2. cur' = [cur EXCEPT ![w] = NoJob] /\ idle' = idle \cup {j}
          /\ UNCHANGED <<pc, call, jobQ, toMain, redirected, main>>
      BY <1>5, <2>1 DEF SuspendJob, mainVars
    <2>3. /\ Running(j) /\ ~Running(j)'
          /\ \A k \in Jobs : k # j => (Running(k)' <=> Running(k))
          /\ HoldsOnlyInRun' /\ RunByOne'
      BY <2>1, <2>2, RunnerLetsGo
    <2>4. \A k \in Jobs : (Carried(k)' <=> Carried(k)) /\ (Queued(k)' <=> Queued(k))
      BY <2>2 DEF Carried, Queued, At
    <2>5. CarriesOnlyInPush' /\ CarriedByOne' /\ QueuedOnce' /\ OpenUntilRedirected'
      BY <1>0, <2>2 DEF CarriesOnlyInPush, CarriedByOne, QueuedOnce, At, OpenUntilRedirected
    <2>6. HeldSomewhere' /\ HeldInOneKind'
      BY <1>0, <2>2, <2>3, <2>4 DEF HeldSomewhere, HeldInOneKind
    <2>7. QED
      BY <1>t, <2>3, <2>5, <2>6 DEF PlaceInv
  <1>6. ASSUME \/ \E t \in Threads : NotifyTarget(t)
               \/ \E w \in Workers : OtherWorkerStep(w)
               \/ RedirectToMain \/ ShutdownStep \/ UNCHANGED vars
        PROVE  PlaceInv'
    <2>1. HeldSomewhere' /\ HeldInOneKind'
      BY <1>0, <1>6, OthersKeepPlaces DEF HeldSomewhere, HeldInOneKind
    <2>2. QED
      BY <1>t, <1>6, <2>1, OthersKeepPlaces DEF PlaceInv
  <1>7. QED
    BY <1>1, <1>2, <1>3, <1>4, <1>5, <1>6
       DEF Next, CallStep, WorkerStep, OtherWorkerStep, Stopped

\* What the invariant says of the set of holders of a coroutine.
LEMMA PlaceIsHolder ==
  ASSUME PlaceInv, NEW j \in Jobs
  PROVE  \E x : Holders(j) = {x}
  <1>0. HeldSomewhere /\ HeldInOneKind /\ RunByOne /\ CarriedByOne /\ QueuedOnce /\ j # NoJob
    BY PoolAssumption DEF PlaceInv
  <1> DEFINE I == {<<"idle">> : x \in {j} \cap idle}
             M == {<<"main">> : x \in {j} \cap toMain}
             R == {<<"cur", w>> : w \in {v \in Workers : cur[v] = j}}
             C == {<<"call", t>> : t \in {u \in Threads : call[u].job = j}}
             Entries(w, p) == {i \in 1 .. Len(jobQ[w][p]) : jobQ[w][p][i] = j}
             Block(w, p) == {<<"queue", w, p, i>> : i \in Entries(w, p)}
             Q == UNION {Block(w, p) : w \in Workers, p \in Priorities}
  <1>1. Holders(j) = I \cup M \cup R \cup C \cup Q
    BY DEF Holders
  <1>2. /\ j \notin idle => I = {}
        /\ j \notin toMain => M = {}
        /\ ~Running(j) => R = {}
        /\ ~Carried(j) => C = {}
    BY DEF Running, Carried
  <1>e. \A w \in Workers, p \in Priorities : \A i : i \in Entries(w, p) <=> i \in Nat /\ At(j, w, p, i)
    <2>1. \A w \in Workers, p \in Priorities : Len(jobQ[w][p]) \in Nat
      BY DEF PlaceInv, TypeOK
    <2>2. QED
      BY <2>1 DEF At
  <1> HIDE DEF Entries
  <1>b. \A x : x \in Q <=> \E w \in Workers, p \in Priorities : x \in Block(w, p)
    <2> HIDE DEF Block
    <2>1. QED
      OBVIOUS
  <1>3. \A x : x \in Q <=> \E w \in Workers, p \in Priorities, i \in Nat :
                              At(j, w, p, i) /\ x = <<"queue", w, p, i>>
    <2> HIDE DEF Q
    <2>1. \A w \in Workers, p \in Priorities : \A x :
             x \in Block(w, p) <=> \E i \in Nat : At(j, w, p, i) /\ x = <<"queue", w, p, i>>
      BY <1>e
    <2>2. QED
      BY <1>b, <2>1
  <1> HIDE DEF Q
  <1>4. ~Queued(j) => Q = {}
    BY <1>3 DEF Queued
  <1>5. CASE j \in idle
    <2>1. I = {<<"idle">>}
      BY <1>5
    <2>2. M = {} /\ R = {} /\ C = {} /\ Q = {}
      BY <1>0, <1>2, <1>4, <1>5 DEF HeldInOneKind
    <2> HIDE DEF I, M, R, C
    <2>3. QED
      BY <1>1, <2>1, <2>2
  <1>6. CASE j \in toMain
    <2>1. M = {<<"main">>}
      BY <1>6
    <2>2. I = {} /\ R = {} /\ C = {} /\ Q = {}
      BY <1>0, <1>2, <1>4, <1>6 DEF HeldInOneKind
    <2> HIDE DEF I, M, R, C
    <2>3. QED
      BY <1>1, <2>1, <2>2
  <1>7. CASE Running(j)
    <2>1. PICK w \in Workers : cur[w] = j
      BY <1>7 DEF Running
    <2>2. {v \in Workers : cur[v] = j} = {w}
      BY <1>0, <2>1 DEF RunByOne
    <2>3. R = {<<"cur", w>>}
      BY <2>2
    <2>4. I = {} /\ M = {} /\ C = {} /\ Q = {}
      BY <1>0, <1>2, <1>4, <1>7 DEF HeldInOneKind
    <2> HIDE DEF I, M, R, C
    <2>5. QED
      BY <1>1, <2>3, <2>4
  <1>8. CASE Carried(j)
    <2>1. PICK t \in Threads : call[t].job = j
      BY <1>8 DEF Carried
    <2>2. {u \in Threads : call[u].job = j} = {t}
      BY <1>0, <2>1 DEF CarriedByOne
    <2>3. C = {<<"call", t>>}
      BY <2>2
    <2>4. I = {} /\ M = {} /\ R = {} /\ Q = {}
      BY <1>0, <1>2, <1>4, <1>8 DEF HeldInOneKind
    <2> HIDE DEF I, M, R, C
    <2>5. QED
      BY <1>1, <2>3, <2>4
  <1>9. CASE Queued(j)
    <2>1. PICK w \in Workers, p \in Priorities, i \in Nat : At(j, w, p, i)
      BY <1>9 DEF Queued
    <2>2. \A x : x \in Q <=> x = <<"queue", w, p, i>>
      BY <1>0, <1>3, <2>1 DEF QueuedOnce
    <2>3. I = {} /\ M = {} /\ R = {} /\ C = {}
      BY <1>0, <1>2, <1>4, <1>9 DEF HeldInOneKind
    <2>4. Q = {<<"queue", w, p, i>>}
      BY <2>2
    <2> HIDE DEF I, M, R, C
    <2>5. QED
      BY <1>1, <2>3, <2>4
  <1>10. QED
    BY <1>0, <1>5, <1>6, <1>7, <1>8, <1>9 DEF HeldSomewhere

\* A coroutine handle is neither lost nor duplicated: at any time exactly one
\* thread, queue position or container holds it, for any number of workers
\* that enqueue, steal, and enqueue the coroutine they run themselves.
THEOREM HeldOnce == Spec => []OneHolder
  <1>1. ASSUME PlaceInv PROVE OneHolder
    BY <1>1, PlaceIsHolder, FS_Singleton DEF OneHolder
  <1>2. QED
    BY InitPlaces, NextPlaces, <1>1, PTL DEF Spec

(***************************************************************************)
(* Refinement.  What JobState says of a coroutine depends on three of the  *)
(* five predicates, so the effect of each action on them, stated above,    *)
(* gives the step of the life cycle.                                       *)
(***************************************************************************)
LEMMA StateByPlace ==
  ASSUME NEW j \in Jobs
  PROVE  JobState(j) = IF Running(j) THEN "running"
                       ELSE IF j \in idle THEN "idle"
                       ELSE IF j \in toMain THEN "main" ELSE "queued"
  BY DEF JobState, Running

LEMMA NextStateByPlace ==
  ASSUME NEW j \in Jobs
  PROVE  JobState(j)' = IF Running(j)' THEN "running"
                        ELSE IF j \in idle' THEN "idle"
                        ELSE IF j \in toMain' THEN "main" ELSE "queued"
  BY DEF JobState, Running

\* One coroutine changes its state, the others keep theirs.
LEMMA BecomeByState ==
  ASSUME NEW j \in Jobs, NEW old, NEW new,
         JobState(j) \in old, JobState(j)' = new,
         \A k \in Jobs : k # j => JobState(k)' = JobState(k),
         UNCHANGED redirected
  PROVE  Lifecycle!Become(j, old, new)
  <1>1. [k \in Jobs |-> JobState(k)'] = [[k \in Jobs |-> JobState(k)] EXCEPT ![j] = new]
    OBVIOUS
  <1>2. QED
    BY <1>1 DEF Lifecycle!Become

\* Of a coroutine that entered enqueueJob while idle or running.
LEMMA EnqueueOrHandOver ==
  ASSUME PlaceInv, NEW j \in Jobs,
         j \in idle \/ Running(j),
         ~Running(j)', j \notin idle',
         \/ Carried(j)' /\ (j \in toMain' <=> j \in toMain)
         \/ j \in toMain' /\ redirected,
         \A k \in Jobs : k # j => /\ Running(k)' <=> Running(k)
                                  /\ k \in idle' <=> k \in idle
                                  /\ k \in toMain' <=> k \in toMain,
         UNCHANGED redirected
  PROVE  Lifecycle!Enqueue(j) \/ Lifecycle!HandOver(j)
  <1>1. JobState(j) \in {"idle", "running"}
    BY StateByPlace
  <1>2. \A k \in Jobs : k # j => JobState(k)' = JobState(k)
    BY StateByPlace, NextStateByPlace
  <1>3. CASE j \in toMain' /\ redirected
    <2>1. JobState(j)' = "main"
      BY <1>3, NextStateByPlace
    <2>2. Lifecycle!Become(j, {"idle", "running"}, "main")
      BY <1>1, <1>2, <2>1, BecomeByState
    <2>3. QED
      BY <1>3, <2>2 DEF Lifecycle!HandOver
  <1>4. CASE j \in toMain' <=> j \in toMain
    <2>1. j \notin toMain
      BY DEF PlaceInv, HeldInOneKind
    <2>2. JobState(j)' = "queued"
      BY <1>4, <2>1, NextStateByPlace
    <2>3. Lifecycle!Become(j, {"idle", "running"}, "queued")
      BY <1>1, <1>2, <2>2, BecomeByState
    <2>4. QED
      BY <2>3 DEF Lifecycle!Enqueue
  <1>5. QED
    BY <1>3, <1>4

LEMMA InitLifecycle == Init => Lifecycle!Init
  <1> SUFFICES ASSUME Init PROVE Lifecycle!Init
    OBVIOUS
  <1>1. \A j \in Jobs : JobState(j) = "idle"
    BY PoolAssumption, StateByPlace DEF Init, Running
  <1>2. QED
    BY <1>1 DEF Init, Lifecycle!Init

LEMMA NextLifecycle ==
  PlaceInv /\ [Next]_vars => [Lifecycle!Next]_(Lifecycle!lvars)
  <1> DEFINE Goal == [Lifecycle!Next]_(Lifecycle!lvars)
  <1> SUFFICES ASSUME PlaceInv, [Next]_vars PROVE Goal
    OBVIOUS
  <1>0. TypeOK /\ CarriesOnlyInPush /\ CarriedByOne /\ OpenUntilRedirected /\ HeldInOneKind
    BY DEF PlaceInv
  <1>1. ASSUME NEW t \in Threads, NEW j \in Jobs, EnqueueJob(t, j) PROVE Goal
    <2>1. call[t].phase = "none" /\ EnterEnqueue(t, j) /\ j \in idle /\ idle' = idle \ {j}
          /\ UNCHANGED cur
      BY <1>1 DEF EnqueueJob, CanCall, workerVars
    <2>2. ~Carried(j) /\ ~Running(j)
      BY <1>0, <2>1 DEF HeldInOneKind
    <2>3. \A k \in Jobs : Running(k)' <=> Running(k)
      BY <2>1 DEF Running
    <2>4. UNCHANGED redirected
      BY <1>0, <2>1, EnterMoves
    <2>5. \/ Carried(j)' /\ (j \in toMain' <=> j \in toMain)
          \/ j \in toMain' /\ redirected
      BY <1>0, <2>1, <2>2, EnterPlaces
    <2>6. \A k \in Jobs : k # j => (k \in toMain' <=> k \in toMain)
      BY <1>0, <2>1, <2>2, EnterPlaces
    <2>7. Lifecycle!Enqueue(j) \/ Lifecycle!HandOver(j)
      BY <2>1, <2>2, <2>3, <2>4, <2>5, <2>6, EnqueueOrHandOver
    <2>8. QED
      BY <2>7 DEF Lifecycle!Next
  <1>2. ASSUME NEW w \in Workers, SwitchJobThread(w) PROVE Goal
    <2>1. PICK j \in Jobs : j = cur[w]
      BY <1>0, <1>2 DEF SwitchJobThread, CanCall, TypeOK, Threads
    <2>2. w \in Threads /\ call[w].phase = "none" /\ EnterEnqueue(w, j)
          /\ cur' = [cur EXCEPT ![w] = NoJob] /\ UNCHANGED <<pc, idle>>
      BY <1>2, <2>1 DEF SwitchJobThread, CanCall, Threads
    <2>3. /\ Running(j) /\ ~Running(j)'
          /\ \A k \in Jobs : k # j => (Running(k)' <=> Running(k))
      BY <2>1, <2>2, RunnerLetsGo
    <2>4. ~Carried(j) /\ j \notin idle'
      BY <1>0, <2>2, <2>3 DEF HeldInOneKind
    <2>5. UNCHANGED redirected
      BY <1>0, <2>2, EnterMoves
    <2>6. \/ Carried(j)' /\ (j \in toMain' <=> j \in toMain)
          \/ j \in toMain' /\ redirected
      BY <1>0, <2>2, <2>4, EnterPlaces
    <2>7. \A k \in Jobs : k # j => (k \in toMain' <=> k \in toMain)
      BY <1>0, <2>2, <2>4, EnterPlaces
    <2>8. Lifecycle!Enqueue(j) \/ Lifecycle!HandOver(j)
      BY <2>2, <2>3, <2>4, <2>5, <2>6, <2>7, EnqueueOrHandOver
    <2>9. QED
      BY <2>8 DEF Lifecycle!Next
  <1>3. ASSUME NEW t \in Threads, PushJob(t) PROVE Goal
    <2>1. PICK j \in Jobs : j = call[t].job
      BY <1>0, <1>3 DEF PushJob, TypeOK
    <2>2. UNCHANGED <<cur, idle, toMain, redirected>>
      BY <1>3, <2>1, PushPlaces
    <2>3. [k \in Jobs |-> JobState(k)'] = [k \in Jobs |-> JobState(k)]
      BY <2>2, StateByPlace, NextStateByPlace DEF Running
    <2>4. QED
      BY <2>2, <2>3 DEF Lifecycle!lvars
  <1>4. ASSUME NEW w \in Workers, TakeJob(w) PROVE Goal
    <2>1. PICK j \in Jobs : j = Head(jobQ[from[w]][prio[w]])
      BY <1>0, <1>4 DEF TakeJob, TypeOK
    <2>2. /\ UNCHANGED <<idle, toMain, redirected>>
          /\ Queued(j) /\ Running(j)'
          /\ \A k \in Jobs : k # j => (Running(k)' <=> Running(k))
      BY <1>4, <2>1, TakePlaces
    <2>3. JobState(j) = "queued" /\ JobState(j)' = "running"
      BY <1>0, <2>2, StateByPlace, NextStateByPlace DEF HeldInOneKind
    <2>4. \A k \in Jobs : k # j => JobState(k)' = JobState(k)
      BY <2>2, StateByPlace, NextStateByPlace
    <2>5. Lifecycle!Become(j, {"queued"}, "running")
      BY <2>2, <2>3, <2>4, BecomeByState
    <2>6. QED
      BY <2>5 DEF Lifecycle!Next, Lifecycle!Resume
  <1>5. ASSUME NEW w \in Workers, SuspendJob(w) PROVE Goal
    <2>1. PICK j \in Jobs : j = cur[w]
      BY <1>0, <1>5 DEF SuspendJob, TypeOK
    <2>2. cur' = [cur EXCEPT ![w] = NoJob] /\ idle' = idle \cup {j}
          /\ UNCHANGED <<pc, toMain, redirected>>
      BY <1>5, <2>1 DEF SuspendJob, mainVars
    <2>3. /\ Running(j) /\ ~Running(j)'
          /\ \A k \in Jobs : k # j => (Running(k)' <=> Running(k))
      BY <2>1, <2>2, RunnerLetsGo
    <2>4. JobState(j) = "running" /\ JobState(j)' = "idle"
      BY <2>2, <2>3, StateByPlace, NextStateByPlace
    <2>5. \A k \in Jobs : k # j => JobState(k)' = JobState(k)
      BY <2>2, <2>3, StateByPlace, NextStateByPlace
    <2>6. Lifecycle!Become(j, {"running"}, "idle")
      BY <2>2, <2>4, <2>5, BecomeByState
    <2>7. QED
      BY <2>6 DEF Lifecycle!Next, Lifecycle!Suspend
  <1>6. ASSUME \/ \E t \in Threads : NotifyTarget(t)
               \/ \E w \in Workers : OtherWorkerStep(w)
               \/ RedirectToMain \/ ShutdownStep \/ UNCHANGED vars
        PROVE  Goal
    <2>1. [k \in Jobs |-> JobState(k)'] = [k \in Jobs |-> JobState(k)]
      BY <1>6, OthersKeepPlaces, StateByPlace, NextStateByPlace
    <2>2. CASE redirected' = redirected
      BY <2>1, <2>2 DEF Lifecycle!lvars
    <2>3. CASE RedirectToMain
      BY <1>0, <2>1, <2>3 DEF RedirectToMain, OpenUntilRedirected, Lifecycle!Close, Lifecycle!Next
    <2>4. QED
      BY <1>6, <2>2, <2>3, OthersKeepPlaces
  <1> HIDE DEF Goal
  <1>7. QED
    BY <1>1, <1>2, <1>3, <1>4, <1>5, <1>6
       DEF Next, CallStep, WorkerStep, OtherWorkerStep, Stopped

\* Every step of the pool is a step of the life cycle of one coroutine or
\* leaves all of them in their state: a coroutine is resumed only after it
\* was enqueued, once for each enqueueJob, and by one thread.
THEOREM PoolImplementsLifecycle == Spec => ImplementsLifecycle
  <1>1. QED
    BY InitPlaces, NextPlaces, InitLifecycle, NextLifecycle, PTL
       DEF Spec, ImplementsLifecycle, Lifecycle!Spec

(***************************************************************************)
(* The order of priorities. The inductive invariant: while a worker looks  *)
(* at the queues of a thread, whatever is in those it has passed arrived   *)
(* since it began to look. PriorityOrder is this, restricted to the        *)
(* moments at which the worker has found a job.                            *)
(***************************************************************************)
PassedAreLate ==
    \A w \in Workers : pc[w] = "scan" =>
        \A p \in 0 .. prio[w] - 1 :
            \A i \in 1 .. Len(jobQ[from[w]][p]) : jobQ[from[w]][p][i] \in late[w]

PriorityInv == TypeOK /\ late \in [Workers -> SUBSET Jobs] /\ PassedAreLate

\* A worker that begins to look has passed nothing.
LEMMA BeginsAtHighest ==
  ASSUME TypeOK, [Next]_vars, NEW w \in Workers, StartsAfresh(w), pc'[w] = "scan"
  PROVE  prio'[w] = 0
  <1>1. CASE \E t \in Threads, j \in Jobs : EnqueueJob(t, j)
    BY <1>1 DEF StartsAfresh, EnqueueJob, workerVars
  <1>2. CASE \E t \in Threads : CallStep(t)
    BY <1>2 DEF StartsAfresh, CallStep, PushJob, NotifyTarget, workerVars
  <1>3. CASE RedirectToMain \/ ShutdownStep \/ UNCHANGED vars
    BY <1>3 DEF StartsAfresh, RedirectToMain, ShutdownStep, RequestExit, NotifyWorker, TryShutdown,
                vars, workerVars
  <1>4. ASSUME NEW v \in Workers, WorkerStep(v) PROVE prio'[w] = 0
    <2>1. CASE ResumeReturns(v) \/ ClearFlag(v) \/ StartStealing(v)
      BY <2>1 DEF TypeOK, StartsAfresh, ResumeReturns, ClearFlag, StartStealing
    <2>2. CASE TakeJob(v) \/ NextPriority(v) \/ NothingFound(v)
      BY <2>2 DEF TypeOK, StartsAfresh, TakeJob, NextPriority, NothingFound
    <2>3. CASE SwitchJobThread(v) \/ SuspendJob(v) \/ TestExit(v) \/ WaitForJob(v) \/ ExitWorker(v)
      BY <2>3 DEF TypeOK, StartsAfresh, SwitchJobThread, SuspendJob, TestExit, WaitForJob, ExitWorker
    <2> QED
      BY <1>4, <2>1, <2>2, <2>3 DEF WorkerStep
  <1> QED
    BY <1>1, <1>2, <1>3, <1>4 DEF Next, Stopped

\* One that looks already keeps to the thread whose queues it looks at, and
\* lowers the priority only past an empty queue.
LEMMA LooksOn ==
  ASSUME TypeOK, [Next]_vars, NEW w \in Workers, ~StartsAfresh(w)
  PROVE  /\ pc[w] = "scan" /\ from'[w] = from[w]
         /\ \/ prio'[w] = prio[w]
            \/ prio'[w] = prio[w] + 1 /\ jobQ[from[w]][prio[w]] = <<>> /\ UNCHANGED <<jobQ, call>>
  <1>0. pc[w] = "scan" /\ pc'[w] = "scan" /\ loop'[w] = loop[w]
    BY DEF StartsAfresh
  <1>1. CASE \E t \in Threads, j \in Jobs : EnqueueJob(t, j)
    BY <1>0, <1>1 DEF EnqueueJob, workerVars
  <1>2. CASE \E t \in Threads : CallStep(t)
    BY <1>0, <1>2 DEF CallStep, PushJob, NotifyTarget, workerVars
  <1>3. CASE RedirectToMain \/ ShutdownStep \/ UNCHANGED vars
    BY <1>0, <1>3 DEF RedirectToMain, ShutdownStep, RequestExit, NotifyWorker, TryShutdown,
                vars, workerVars
  <1>4. ASSUME NEW v \in Workers, WorkerStep(v)
        PROVE  /\ from'[w] = from[w]
               /\ \/ prio'[w] = prio[w]
                  \/ prio'[w] = prio[w] + 1 /\ jobQ[from[w]][prio[w]] = <<>> /\ UNCHANGED <<jobQ, call>>
    <2>1. CASE ResumeReturns(v) \/ ClearFlag(v) \/ StartStealing(v)
      BY <1>0, <2>1 DEF TypeOK, ResumeReturns, ClearFlag, StartStealing, QueueIsEmpty
    <2>2. CASE TakeJob(v) \/ NothingFound(v)
      BY <1>0, <2>2 DEF TypeOK, TakeJob, NothingFound
    <2>3. CASE NextPriority(v)
      <3>1. CASE v = w
        BY <1>0, <2>3, <3>1 DEF TypeOK, NextPriority, QueueIsEmpty
      <3>2. CASE v # w
        BY <1>0, <2>3, <3>2 DEF TypeOK, NextPriority
      <3> QED
        BY <3>1, <3>2
    <2>4. CASE SwitchJobThread(v) \/ SuspendJob(v) \/ TestExit(v) \/ WaitForJob(v) \/ ExitWorker(v)
      BY <1>0, <2>4 DEF TypeOK, SwitchJobThread, SuspendJob, TestExit, WaitForJob, ExitWorker
    <2> QED
      BY <1>4, <2>1, <2>2, <2>3, <2>4 DEF WorkerStep
  <1> QED
    BY <1>0, <1>1, <1>2, <1>3, <1>4 DEF Next, Stopped

\* What a queue holds after a step it held before, or a thread pushed it.
LEMMA OldOrPushed ==
  ASSUME TypeOK, [Next]_vars, NEW v \in Workers, NEW p \in Priorities,
         NEW i \in 1 .. Len(jobQ'[v][p])
  PROVE  \/ \E k \in 1 .. Len(jobQ[v][p]) : jobQ[v][p][k] = jobQ'[v][p][i]
         \/ jobQ'[v][p][i] \in Pushed(v)
  <1>0. jobQ[v][p] \in Seq(Jobs) /\ Len(jobQ[v][p]) \in Nat
    BY DEF TypeOK
  <1>1. CASE \E t \in Threads : PushJob(t)
    <2>1. PICK t \in Threads : PushJob(t)
      BY <1>1
    <2>2. PICK j \in Jobs, u \in Workers, r \in Priorities :
             j = call[t].job /\ u = call[t].target /\ r = PriorityOf[j]
      BY <2>1, PoolAssumption DEF TypeOK, Calls, PushJob
    <2>3. jobQ' = [jobQ EXCEPT ![u][r] = Append(@, j)]
      BY <2>1, <2>2 DEF PushJob
    <2>4. call[t].phase = "push" /\ call'[t].phase = "notify"
      BY <2>1 DEF PushJob, TypeOK
    <2>5. CASE u = v /\ r = p
      <3>1. jobQ'[v][p] = Append(jobQ[v][p], j)
        BY <2>3, <2>5 DEF TypeOK
      <3>2. j \in Pushed(v)
        BY <2>2, <2>4, <2>5 DEF Pushed
      <3>3. /\ Len(jobQ'[v][p]) = Len(jobQ[v][p]) + 1
            /\ \A k \in 1 .. Len(jobQ[v][p]) : jobQ'[v][p][k] = jobQ[v][p][k]
            /\ jobQ'[v][p][Len(jobQ[v][p]) + 1] = j
        BY <1>0, <3>1
      <3>4. i \in 1 .. Len(jobQ[v][p]) \/ i = Len(jobQ[v][p]) + 1
        BY <1>0, <3>3
      <3> QED
        BY <3>2, <3>3, <3>4, Zenon
    <2>6. CASE u # v \/ r # p
      BY <2>3, <2>6 DEF TypeOK
    <2> QED
      BY <2>5, <2>6
  <1>2. CASE \E w \in Workers : TakeJob(w)
    <2>1. PICK w \in Workers : TakeJob(w)
      BY <1>2
    <2>2. PICK u \in Workers, r \in Priorities : u = from[w] /\ r = prio[w]
      BY DEF TypeOK
    <2>3. jobQ[u][r] # <<>> /\ jobQ' = [jobQ EXCEPT ![u][r] = Tail(jobQ[u][r])]
      BY <2>1, <2>2 DEF TakeJob
    <2>4. CASE u = v /\ r = p
      <3>1. jobQ'[v][p] = Tail(jobQ[v][p]) /\ jobQ[v][p] # <<>>
        BY <2>3, <2>4 DEF TypeOK
      <3>2. /\ Len(jobQ'[v][p]) = Len(jobQ[v][p]) - 1
            /\ \A n \in 1 .. Len(jobQ[v][p]) - 1 : jobQ'[v][p][n] = jobQ[v][p][n + 1]
        BY <1>0, <3>1, TailEntries
      <3> QED
        BY <1>0, <3>2
    <2>5. CASE u # v \/ r # p
      BY <2>3, <2>5 DEF TypeOK
    <2> QED
      BY <2>4, <2>5
  <1>3. ASSUME ~(\E t \in Threads : PushJob(t)), ~(\E w \in Workers : TakeJob(w)) PROVE UNCHANGED jobQ
    BY <1>3 DEF Next, Stopped, vars, EnqueueJob, EnterEnqueue, CallStep, NotifyTarget, WorkerStep, NextPriority,
                StartStealing, NothingFound, SwitchJobThread, SuspendJob, ResumeReturns, TestExit,
                WaitForJob, ClearFlag, ExitWorker, RedirectToMain, ShutdownStep, RequestExit,
                NotifyWorker, TryShutdown
  <1> QED
    BY <1>0, <1>1, <1>2, <1>3

\* The step of late, with the pool's.
LateNext ==
    /\ Next
    /\ late' = [w \in Workers |->
                  IF StartsAfresh(w) THEN {} ELSE late[w] \cup Pushed(from[w])]

LEMMA NextPriorityInv == PriorityInv /\ [LateNext]_<<vars, late>> => PriorityInv'
  <1> SUFFICES ASSUME PriorityInv, [LateNext]_<<vars, late>> PROVE PriorityInv'
    OBVIOUS
  <1>0. TypeOK /\ late \in [Workers -> SUBSET Jobs] /\ PassedAreLate /\ [Next]_vars
    BY DEF PriorityInv, LateNext
  <1>1. TypeOK'
    BY <1>0, NextType
  <1>2. CASE UNCHANGED <<vars, late>>
    BY <1>0, <1>1, <1>2 DEF PriorityInv, PassedAreLate, vars, workerVars
  <1>3. CASE LateNext
    <2>1. \A v \in Workers : Pushed(v) \in SUBSET Jobs
      BY <1>0 DEF Pushed, TypeOK
    <2>2. late' \in [Workers -> SUBSET Jobs]
      BY <1>0, <1>3, <2>1 DEF LateNext, TypeOK
    <2>3. PassedAreLate'
      <3> SUFFICES ASSUME NEW w \in Workers, pc'[w] = "scan", NEW p \in 0 .. prio'[w] - 1,
                          NEW i \in 1 .. Len(jobQ'[from'[w]][p])
                   PROVE  jobQ'[from'[w]][p][i] \in late'[w]
        BY DEF PassedAreLate
      <3>1. CASE StartsAfresh(w)
        BY <1>0, <3>1, BeginsAtHighest
      <3>2. CASE ~StartsAfresh(w)
        <4>1. PICK v \in Workers : v = from[w]
          BY <1>0 DEF TypeOK
        <4>2. PICK r \in Priorities, s \in Priorities : r = prio[w] /\ s = prio'[w]
          BY <1>0, <1>1 DEF TypeOK
        <4>3. p \in Priorities
          BY <4>2, PoolAssumption DEF Priorities
        <4>4. /\ pc[w] = "scan" /\ from'[w] = v
              /\ \/ s = r
                 \/ s = r + 1 /\ jobQ[v][r] = <<>> /\ UNCHANGED <<jobQ, call>>
          BY <1>0, <3>2, <4>1, <4>2, LooksOn
        <4>5. late'[w] = late[w] \cup Pushed(v)
          BY <1>3, <3>2, <4>1 DEF LateNext
        <4>6. \/ \E k \in 1 .. Len(jobQ[v][p]) : jobQ[v][p][k] = jobQ'[v][p][i]
              \/ jobQ'[v][p][i] \in Pushed(v)
          BY <1>0, <4>3, <4>4, OldOrPushed
        <4>7. ASSUME NEW k \in 1 .. Len(jobQ[v][p]) PROVE jobQ[v][p][k] \in late[w]
          <5>1. CASE p \in 0 .. r - 1
            BY <1>0, <4>1, <4>2, <4>4, <5>1 DEF PassedAreLate
          <5>2. CASE p \notin 0 .. r - 1
            <6>1. r \in Nat /\ p \in 0 .. s - 1
              BY <4>2, PoolAssumption DEF Priorities
            <6>2. p = r /\ jobQ[v][r] = <<>>
              BY <4>4, <5>2, <6>1
            <6>3. 1 .. Len(jobQ[v][p]) = {}
              BY <6>2
            <6> QED
              BY <6>3
          <5> QED
            BY <5>1, <5>2
        <4> QED
          BY <4>4, <4>5, <4>6, <4>7
      <3> QED
        BY <3>1, <3>2
    <2> QED
      BY <1>1, <2>2, <2>3 DEF PriorityInv
  <1> QED
    BY <1>2, <1>3

\* A worker takes a job of a lower priority only when every job of a higher
\* priority in the same queues arrived after it began to look: the loops of
\* doWorkerJobs start again at the highest priority after each job.
THEOREM PrioritiesObserved == PrioritySpec => []PriorityOrder
  <1>1. Init /\ late = [w \in Workers |-> {}] => PriorityInv
    <2> SUFFICES ASSUME Init, late = [w \in Workers |-> {}] PROVE PriorityInv
      OBVIOUS
    <2>1. TypeOK /\ \A w \in Workers : prio[w] = 0
      BY InitType DEF Init
    <2> QED
      BY <2>1 DEF PriorityInv, PassedAreLate
  <1>2. PriorityInv => PriorityOrder
    BY DEF PriorityInv, PassedAreLate, PriorityOrder
  <1>3. PrioritySpec => Init /\ late = [w \in Workers |-> {}] /\ [][LateNext]_<<vars, late>>
    BY DEF PrioritySpec, LateNext
  <1> QED
    BY <1>1, <1>2, <1>3, NextPriorityInv, PTL
=============================================================================
