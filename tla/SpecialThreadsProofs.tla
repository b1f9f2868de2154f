------------------------ MODULE SpecialThreadsProofs ------------------------
(***************************************************************************)
(* Safety of the special threads and the supervisor, for every number of   *)
(* threads, callers, jobs, waiters and priorities: type correctness, that  *)
(* no wake-up is lost where the clear of the event is not delayed, and     *)
(* that a job is resumed once for each time it is enqueued.                *)
(***************************************************************************)
EXTENDS MCSpecialThreads, SequenceTheorems, TLAPS

(***************************************************************************)
(* Type correctness.  A thread that pushes carries a coroutine.            *)
(***************************************************************************)
PushCarries == \A t \in Threads : call[t].phase = "push" => call[t].coro \in Coroutines

TypeInv == TypeOK /\ PushCarries

LEMMA InitType == Init => TypeInv
  <1> SUFFICES ASSUME Init PROVE TypeInv
    OBVIOUS
  <1>1. 0 \in Specials /\ 0 \in Priorities
    BY SpecialAssumption DEF Specials, Priorities
  <1>2. NotCalling \in Calls
    BY <1>1 DEF NotCalling, Calls
  <1>3. PushCarries
    BY DEF Init, PushCarries, NotCalling
  <1>4. /\ jobQ \in [Specials -> [Priorities -> Seq(Coroutines)]]
        /\ flag \in [Specials -> BOOLEAN] /\ clearing \in [Specials -> BOOLEAN]
        /\ call \in [Threads -> Calls]
    BY <1>2 DEF Init
  <1>5. /\ pc \in [Specials -> {"scan", "run", "test", "wait", "clear", "exit", "gone"}]
        /\ prio \in [Specials -> Priorities]
        /\ cur \in [Specials -> Coroutines \cup {NoJob}]
        /\ waitFlag \in [Waiters -> BOOLEAN] /\ waited \in SUBSET Waiters
        /\ idle \in SUBSET Jobs /\ toMain \in SUBSET Jobs
    BY <1>1 DEF Init
  <1>6. enqueues \in 0 .. MaxEnqueues /\ latch \in Int /\ mi \in Specials
    BY <1>1, SpecialAssumption DEF Init
  <1>7. buffering \in BOOLEAN
    BY DEF Init
  <1>8. /\ redirected \in BOOLEAN /\ exitFlag \in BOOLEAN
        /\ main \in {"up", "redirected", "notify", "tryWait", "down"}
    BY DEF Init
  <1>9. QED
    BY <1>3, <1>4, <1>5, <1>6, <1>7, <1>8 DEF TypeInv, TypeOK

LEMMA NextType == TypeInv /\ [Next]_vars => TypeInv'
  <1> SUFFICES ASSUME TypeInv, [Next]_vars PROVE TypeInv'
    OBVIOUS
  <1> USE DEF TypeInv, TypeOK, PushCarries
  <1>z. 0 \in Specials /\ 0 \in Priorities /\ PriorityLow \in Priorities
    BY SpecialAssumption DEF Specials, Priorities, PriorityLow
  <1>c. Jobs \subseteq Coroutines /\ Waiters \subseteq Coroutines /\ Specials \subseteq Threads
    BY DEF Coroutines, Threads
  <1>e. ASSUME NEW t \in Threads, NEW j \in Jobs, NEW targets \in SUBSET Specials, Enter(t, j, targets)
        PROVE  /\ enqueues' \in 0 .. MaxEnqueues
               /\ toMain' \in SUBSET Jobs
               /\ call' \in [Threads -> Calls]
               /\ PushCarries'
               /\ UNCHANGED <<buffering, jobQ, flag, clearing, waitFlag, waited, latch,
                              redirected, exitFlag, main, mi>>
    <2>1. enqueues' \in 0 .. MaxEnqueues
      BY <1>e, SpecialAssumption DEF Enter
    <2>2. UNCHANGED <<buffering, jobQ, flag, clearing, waitFlag, waited, latch,
                      redirected, exitFlag, main, mi>>
      BY <1>e DEF Enter, mainVars, syncVars
    <2>3. CASE toMain' = toMain \cup {j} /\ UNCHANGED call
      BY <2>1, <2>2, <2>3
    <2>4. CASE /\ UNCHANGED toMain
               /\ \E s \in targets :
                    call' = [call EXCEPT ![t] = [phase |-> "push", coro |-> j, target |-> s]]
      <3>1. PICK s \in targets :
                    call' = [call EXCEPT ![t] = [phase |-> "push", coro |-> j, target |-> s]]
        BY <2>4
      <3>2. [phase |-> "push", coro |-> j, target |-> s] \in Calls
        BY <1>c DEF Calls
      <3>3. QED
        BY <2>1, <2>2, <2>4, <3>1, <3>2, <1>c
    <2>5. QED
      BY <1>e, <2>3, <2>4 DEF Enter
  <1>1. ASSUME NEW t \in Threads, NEW j \in Jobs, EnqueueJob(t, j) PROVE TypeInv'
    <2>1. {EnqueueInThread[j]} \in SUBSET Specials
      BY SpecialAssumption
    <2>2. UNCHANGED <<pc, prio, cur>> /\ idle' \in SUBSET Jobs
      BY <1>1 DEF EnqueueJob, loopVars
    <2>3. QED
      BY <1>1, <1>e, <2>1, <2>2 DEF EnqueueJob
  <1>2. ASSUME NEW s \in Specials, SwitchJobThread(s) PROVE TypeInv'
    <2>1. s \in Threads /\ cur[s] \in Jobs /\ Enter(s, cur[s], Specials)
      BY <1>2, <1>c DEF SwitchJobThread, CanCall
    <2>2. UNCHANGED <<pc, prio, idle>> /\ cur' \in [Specials -> Coroutines \cup {NoJob}]
      BY <1>2 DEF SwitchJobThread
    <2>3. QED
      BY <1>e, <2>1, <2>2
  <1>3. ASSUME NEW t \in Waiters, CallSync(t) PROVE TypeInv'
    <2>1. t \in Threads /\ t \in Coroutines /\ WaitsFor[t] \in Specials
      BY <1>c, SpecialAssumption
    <2>2. call' = [call EXCEPT ![t] = [phase |-> "push", coro |-> t, target |-> WaitsFor[t]]]
          /\ waited' \in SUBSET Waiters
      BY <1>3 DEF CallSync
    <2>3. UNCHANGED <<buffering, jobQ, flag, clearing, pc, prio, cur, waitFlag, idle, enqueues,
                      toMain, latch, redirected, exitFlag, main, mi>>
      BY <1>3 DEF CallSync, loopVars, mainVars
    <2>4. [phase |-> "push", coro |-> t, target |-> WaitsFor[t]] \in Calls
      BY <2>1 DEF Calls
    <2>5. QED
      BY <2>1, <2>2, <2>3, <2>4
  <1>4. ASSUME NEW t \in Threads, Push(t) PROVE TypeInv'
    <2> DEFINE c == call[t]
    <2>1. c.coro \in Coroutines /\ c.target \in Specials
      BY <1>4 DEF Push, Calls
    <2>2. QueueOf(c.coro) \in Priorities
      BY <1>z, SpecialAssumption DEF QueueOf
    <2>3. jobQ' \in [Specials -> [Priorities -> Seq(Coroutines)]]
      BY <1>4, <2>1, <2>2 DEF Push
    <2>4. call' = [call EXCEPT ![t].phase = "notify"]
          /\ UNCHANGED <<buffering, flag, clearing, pc, prio, cur, waitFlag, waited, idle,
                         enqueues, toMain, latch, redirected, exitFlag, main, mi>>
      BY <1>4 DEF Push, loopVars, syncVars, mainVars
    <2>c. PICK d \in Calls : d.phase # "push" /\ call' = [call EXCEPT ![t] = d]
      <3>1. [c EXCEPT !.phase = "notify"] \in Calls /\ [c EXCEPT !.phase = "notify"].phase # "push"
        BY DEF Calls
      <3> QED
        BY <2>4, <3>1
    <2>5. call' \in [Threads -> Calls] /\ PushCarries'
      BY <2>c
    <2>6. QED
      BY <2>3, <2>4, <2>5
  <1>5. ASSUME NEW t \in Threads, Notify(t) PROVE TypeInv'
    <2>1. UNCHANGED <<buffering, jobQ, clearing, pc, prio, cur, waitFlag, waited, idle,
                      enqueues, toMain, latch, redirected, exitFlag, main, mi>>
          /\ flag' \in [Specials -> BOOLEAN]
      BY <1>5 DEF Notify, loopVars, syncVars, mainVars
    <2>2. call' = [call EXCEPT ![t] = IF call[t].coro = t THEN [call[t] EXCEPT !.phase = "wait"]
                                                          ELSE NotCalling]
      BY <1>5 DEF Notify
    <2>3. PICK c \in Calls : c = call[t] /\ c.phase = "notify"
      BY <1>5 DEF Notify
    <2>n. [c EXCEPT !.phase = "wait"] \in Calls /\ NotCalling \in Calls
      BY <1>z DEF NotCalling, Calls
    <2>p. NotCalling.phase # "push" /\ [c EXCEPT !.phase = "wait"].phase # "push"
      BY DEF NotCalling, Calls
    <2>c. PICK d \in Calls : d.phase # "push" /\ call' = [call EXCEPT ![t] = d]
      BY <2>2, <2>3, <2>n, <2>p
    <2>4. call' \in [Threads -> Calls] /\ PushCarries'
      BY <2>c
    <2> QED
      BY <2>1, <2>4
  <1>6. ASSUME NEW t \in Threads, SyncReturned(t) PROVE TypeInv'
    BY <1>6, <1>z DEF SyncReturned, NotCalling, Calls, loopVars, syncVars, mainVars
  <1>7. ASSUME NEW s \in Specials, TakeJob(s) PROVE TypeInv'
    <2> DEFINE q == jobQ[s][prio[s]]
    <2>1. q \in Seq(Coroutines) /\ q # <<>>
      BY <1>7 DEF TakeJob
    <2>2. Head(q) \in Coroutines /\ Tail(q) \in Seq(Coroutines)
      BY <2>1
    <2>3. QED
      BY <1>7, <2>2 DEF TakeJob, syncVars, mainVars
  <1>8. ASSUME NEW s \in Specials, NextPriority(s) PROVE TypeInv'
    BY <1>8 DEF NextPriority, syncVars, mainVars
  <1>9. ASSUME NEW s \in Specials, SuspendJob(s) PROVE TypeInv'
    BY <1>9, <1>z DEF SuspendJob, NextJob, syncVars, mainVars
  <1>10. ASSUME NEW s \in Specials, SetWaitFlag(s) PROVE TypeInv'
    BY <1>10, <1>z DEF SetWaitFlag, NextJob, mainVars
  <1>11. ASSUME NEW s \in Specials, ResumeReturns(s) PROVE TypeInv'
    BY <1>11, <1>z DEF ResumeReturns, NextJob, syncVars, mainVars
  <1>12. ASSUME NEW s \in Specials, TestExit(s) PROVE TypeInv'
    BY <1>12 DEF TestExit, syncVars, mainVars
  <1>13. ASSUME NEW s \in Specials, WaitForJob(s) PROVE TypeInv'
    BY <1>13 DEF WaitForJob, syncVars, mainVars
  <1>14. ASSUME NEW s \in Specials, ClearFlag(s) PROVE TypeInv'
    BY <1>14, <1>z DEF ClearFlag, syncVars, mainVars
  <1>15. ASSUME NEW s \in Specials, Drain(s) PROVE TypeInv'
    BY <1>15 DEF Drain, loopVars, syncVars, mainVars
  <1>16. ASSUME NEW s \in Specials, ExitSpecial(s) PROVE TypeInv'
    BY <1>16 DEF ExitSpecial, syncVars, mainVars
  <1>17. CASE RedirectToMain
    BY <1>17 DEF RedirectToMain, loopVars, syncVars
  <1>18. CASE RequestExit
    BY <1>18 DEF RequestExit, loopVars, syncVars
  <1>19. CASE NotifySpecial
    BY <1>19, <1>z DEF NotifySpecial, loopVars, syncVars
  <1>20. CASE TryShutdown
    BY <1>20 DEF TryShutdown, loopVars, syncVars
  <1>21. CASE UNCHANGED vars
    BY <1>21 DEF vars, loopVars, syncVars, mainVars
  <1>22. QED
    BY <1>1, <1>2, <1>3, <1>4, <1>5, <1>6, <1>7, <1>8, <1>9, <1>10, <1>11, <1>12, <1>13,
       <1>14, <1>15, <1>16, <1>17, <1>18, <1>19, <1>20, <1>21
       DEF Next, CallStep, SpecialStep, ShutdownStep, Stopped

\* Every variable keeps its type, whatever the number of threads, callers,
\* waiters, coroutines and priorities.
THEOREM TypeCorrect == Spec => []TypeOK
  <1>1. TypeInv => TypeOK
    BY DEF TypeInv
  <1>2. QED
    BY InitType, NextType, <1>1, PTL DEF Spec

(***************************************************************************)
(* The wake-up protocol, on a processor that does not delay the clear of   *)
(* the event: there no clear is ever in a store buffer, which is what      *)
(* keeps Drain from overwriting a flag that was set meanwhile.             *)
(***************************************************************************)
ClearsAtOnce == ~buffering => \A s \in Specials : ~clearing[s]

WakeupInv == TypeInv /\ ClearsAtOnce /\ NoLostWakeup

LEMMA InitWakeup == Init => WakeupInv
  <1> SUFFICES ASSUME Init PROVE WakeupInv
    OBVIOUS
  <1>1. ClearsAtOnce
    BY DEF Init, ClearsAtOnce
  <1>2. \A s \in Specials, p \in Priorities : jobQ[s][p] = <<>>
    BY DEF Init
  <1>3. NoLostWakeup
    BY <1>2 DEF NoLostWakeup
  <1>4. QED
    BY <1>1, <1>3, InitType DEF WakeupInv

LEMMA NextWakeup == WakeupInv /\ [Next]_vars => WakeupInv'
  <1> SUFFICES ASSUME WakeupInv, [Next]_vars PROVE WakeupInv'
    OBVIOUS
  <1>t. TypeOK /\ TypeOK' /\ TypeInv'
    BY NextType DEF WakeupInv, TypeInv
  <1> DEFINE Awake(s, p) == Passed(s, p) /\ jobQ[s][p] # <<>> => flag[s] \/ NotifyPending(s)
             Goal == \/ buffering /\ buffering'
                     \/ /\ \A s \in Specials : ~clearing'[s]
                        /\ \A s \in Specials, p \in Priorities : Awake(s, p)'
  <1>b. ASSUME buffering, buffering' = buffering PROVE Goal
    BY <1>b
  <1>h. ASSUME ~buffering
        PROVE  /\ \A s \in Specials : ~clearing[s]
               /\ \A s \in Specials, p \in Priorities : Awake(s, p)
    BY <1>h DEF WakeupInv, ClearsAtOnce, NoLostWakeup
  <1>s. ASSUME ~buffering, UNCHANGED <<clearing, jobQ, pc, prio>>,
               \A s \in Specials : flag[s] \/ NotifyPending(s) => flag'[s] \/ NotifyPending(s)'
        PROVE  Goal
    BY <1>s, <1>h DEF Passed
  <1>e. ASSUME NEW t \in Threads, NEW j \in Jobs, NEW targets \in SUBSET Specials,
               Enter(t, j, targets), call[t].phase = "none"
        PROVE  /\ UNCHANGED <<buffering, clearing, jobQ>>
               /\ \A s \in Specials : flag[s] \/ NotifyPending(s) => flag'[s] \/ NotifyPending(s)'
    <2>1. UNCHANGED <<buffering, clearing, jobQ, flag>>
      BY <1>e DEF Enter
    <2>2. \A u \in Threads : u # t => call'[u] = call[u]
      BY <1>e, <1>t DEF Enter, TypeOK
    <2>3. QED
      BY <1>e, <2>1, <2>2 DEF NotifyPending
  <1>1. ASSUME NEW t \in Threads, NEW j \in Jobs, EnqueueJob(t, j) PROVE Goal
    <2>1. {EnqueueInThread[j]} \in SUBSET Specials
      BY SpecialAssumption
    <2>2. UNCHANGED <<pc, prio>> /\ Enter(t, j, {EnqueueInThread[j]}) /\ call[t].phase = "none"
      BY <1>1 DEF EnqueueJob, CanCall, loopVars
    <2>3. QED
      BY <1>b, <1>s, <1>e, <2>1, <2>2, <1>t DEF TypeOK
  <1>2. ASSUME NEW s \in Specials, SwitchJobThread(s) PROVE Goal
    <2>1. s \in Threads /\ cur[s] \in Jobs /\ Enter(s, cur[s], Specials) /\ call[s].phase = "none"
          /\ UNCHANGED <<pc, prio>>
      BY <1>2 DEF SwitchJobThread, CanCall, Threads
    <2>2. QED
      BY <1>b, <1>s, <1>e, <2>1, <1>t DEF TypeOK
  <1>3. ASSUME NEW t \in Waiters, CallSync(t) PROVE Goal
    <2>1. t \in Threads /\ call[t].phase = "none"
          /\ UNCHANGED <<buffering, clearing, jobQ, flag, pc, prio>>
      BY <1>3, SpecialAssumption DEF CallSync, CanCall, loopVars
    <2>2. \A u \in Threads : u # t => call'[u] = call[u]
      BY <1>3, <1>t DEF CallSync, TypeOK
    <2>3. \A s \in Specials : NotifyPending(s) => NotifyPending(s)'
      BY <2>1, <2>2 DEF NotifyPending
    <2>4. QED
      BY <1>b, <1>s, <2>1, <2>3
  <1>4. ASSUME NEW t \in Threads, Push(t) PROVE Goal
    <2>1. UNCHANGED <<buffering, clearing, flag, pc, prio>>
      BY <1>4 DEF Push, loopVars
    <2>2. PICK v \in Specials : v = call[t].target
      BY <1>t DEF TypeOK, Calls
    <2>3. call' = [call EXCEPT ![t].phase = "notify"]
      BY <1>4 DEF Push
    <2>4. call'[t].phase = "notify" /\ call'[t].target = v
          /\ \A u \in Threads : u # t => call'[u] = call[u]
      BY <1>t, <2>2, <2>3 DEF TypeOK, Calls
    <2>5. NotifyPending(v)' /\ \A s \in Specials : NotifyPending(s) => NotifyPending(s)'
      BY <2>4, <1>4, <2>2 DEF NotifyPending, Push
    <2>6. \A s \in Specials : s # v => jobQ'[s] = jobQ[s]
      BY <1>4, <1>t, <2>2 DEF Push, TypeOK
    <2>7. ASSUME ~buffering PROVE \A s \in Specials, p \in Priorities : Awake(s, p)'
      BY <1>h, <2>1, <2>5, <2>6, <2>7 DEF Passed
    <2>8. ASSUME ~buffering PROVE \A s \in Specials : ~clearing'[s]
      BY <1>h, <2>1, <2>8
    <2>9. QED
      BY <1>b, <2>1, <2>7, <2>8
  <1>5. ASSUME NEW t \in Threads, Notify(t) PROVE Goal
    <2>1. UNCHANGED <<buffering, clearing, jobQ, pc, prio>> /\ call[t].target \in Specials
      BY <1>5, <1>t DEF Notify, loopVars, TypeOK, Calls
    <2>2. flag'[call[t].target] /\ \A s \in Specials : flag[s] => flag'[s]
      BY <1>5, <1>t, <2>1 DEF Notify, TypeOK
    <2>3. \A u \in Threads : u # t => call'[u] = call[u]
      BY <1>5, <1>t DEF Notify, TypeOK
    <2>4. \A s \in Specials : s # call[t].target /\ NotifyPending(s) => NotifyPending(s)'
      BY <2>3 DEF NotifyPending
    <2>5. QED
      BY <1>b, <1>s, <2>1, <2>2, <2>4
  <1>6. ASSUME NEW t \in Threads, SyncReturned(t) PROVE Goal
    <2>1. UNCHANGED <<buffering, clearing, jobQ, pc, prio, flag>>
      BY <1>6 DEF SyncReturned, loopVars
    <2>2. \A u \in Threads : u # t => call'[u] = call[u]
      BY <1>6, <1>t DEF SyncReturned, TypeOK
    <2>3. \A s \in Specials : NotifyPending(s) => NotifyPending(s)'
      BY <2>2, <1>6 DEF NotifyPending, SyncReturned
    <2>4. QED
      BY <1>b, <1>s, <2>1, <2>3
  <1>7. ASSUME NEW s \in Specials,
               \/ TakeJob(s) \/ SuspendJob(s) \/ SetWaitFlag(s) \/ ResumeReturns(s)
               \/ TestExit(s) \/ WaitForJob(s) \/ ExitSpecial(s)
        PROVE  Goal
    <2>1. UNCHANGED <<buffering, clearing, flag, call>>
      BY <1>7 DEF TakeJob, SuspendJob, SetWaitFlag, ResumeReturns, TestExit, WaitForJob, ExitSpecial
    <2>2. \A v \in Specials, p \in Priorities : jobQ'[v][p] # <<>> => jobQ[v][p] # <<>>
      <3>1. CASE TakeJob(s)
        BY <3>1, <1>t DEF TakeJob, TypeOK
      <3>2. CASE ~TakeJob(s)
        BY <3>2, <1>7 DEF SuspendJob, SetWaitFlag, ResumeReturns, TestExit, WaitForJob, ExitSpecial
      <3>3. QED
        BY <3>1, <3>2
    <2>3. \A v \in Specials, p \in Priorities : Passed(v, p)' => Passed(v, p)
      <3>1. \A v \in Specials : v # s => pc'[v] = pc[v] /\ prio'[v] = prio[v]
        BY <1>7, <1>t DEF TakeJob, SuspendJob, SetWaitFlag, ResumeReturns, TestExit, WaitForJob,
                          ExitSpecial, NextJob, TypeOK
      <3>2. \A p \in Priorities : ~(p < 0)
        BY DEF Priorities
      <3>0. \/ pc'[s] \in {"run", "clear"}
            \/ pc'[s] = "scan" /\ prio'[s] = 0
            \/ pc[s] \in {"test", "exit"}
        BY <1>7, <1>t DEF TakeJob, SuspendJob, SetWaitFlag, ResumeReturns, TestExit,
                          WaitForJob, ExitSpecial, NextJob, TypeOK
      <3>3. \A p \in Priorities : Passed(s, p)' => Passed(s, p)
        BY <3>0, <3>2 DEF Passed
      <3>4. QED
        BY <3>1, <3>3 DEF Passed
    <2>4. QED
      BY <1>b, <1>h, <2>1, <2>2, <2>3 DEF NotifyPending
  <1>8. ASSUME NEW s \in Specials, NextPriority(s) PROVE Goal
    <2>1. UNCHANGED <<buffering, clearing, flag, call, jobQ>>
          /\ jobQ[s][prio[s]] = <<>> /\ pc[s] = "scan" /\ prio[s] \in Priorities
      BY <1>8, <1>t DEF NextPriority, TypeOK
    <2>2. \A v \in Specials : v # s => pc'[v] = pc[v] /\ prio'[v] = prio[v]
      BY <1>8, <1>t DEF NextPriority, TypeOK
    <2>3. \A p \in Priorities : Passed(s, p)' => p < prio[s] \/ p = prio[s]
      <3>1. CASE prio[s] + 1 \in Priorities
        <4>1. prio'[s] = prio[s] + 1 /\ pc'[s] = "scan"
          BY <3>1, <1>8, <1>t DEF NextPriority, TypeOK
        <4>2. QED
          BY <2>1, <4>1 DEF Passed, Priorities
      <3>2. CASE prio[s] + 1 \notin Priorities
        BY <2>1, <3>2, SpecialAssumption DEF Priorities
      <3>3. QED
        BY <3>1, <3>2
    <2>4. \A v \in Specials, p \in Priorities :
             Passed(v, p)' /\ jobQ[v][p] # <<>> => Passed(v, p)
      BY <2>1, <2>2, <2>3 DEF Passed
    <2>5. QED
      BY <1>b, <1>h, <2>1, <2>4 DEF NotifyPending
  <1>9. ASSUME NEW s \in Specials, ClearFlag(s) PROVE Goal
    <2>1. UNCHANGED <<buffering, call, jobQ>>
      BY <1>9 DEF ClearFlag
    <2>2. pc'[s] = "scan" /\ prio'[s] = 0
          /\ \A v \in Specials : v # s => pc'[v] = pc[v] /\ prio'[v] = prio[v]
      BY <1>9, <1>t DEF ClearFlag, TypeOK
    <2>f. ASSUME ~buffering PROVE \A v \in Specials : v # s => flag'[v] = flag[v]
      BY <2>f, <1>9, <1>t DEF ClearFlag, TypeOK
    <2>3. \A p \in Priorities : ~Passed(s, p)'
      BY <2>2 DEF Passed, Priorities
    <2>4. ASSUME ~buffering PROVE clearing' = clearing
      BY <2>4, <1>9 DEF ClearFlag
    <2>5. QED
      BY <1>b, <1>h, <2>1, <2>2, <2>3, <2>4, <2>f DEF NotifyPending, Passed
  <1>10. ASSUME NEW s \in Specials, Drain(s) PROVE Goal
    BY <1>10, <1>b, <1>h DEF Drain
  <1>11. ASSUME RedirectToMain \/ ShutdownStep \/ UNCHANGED vars PROVE Goal
    <2>1. UNCHANGED <<buffering, clearing, jobQ, pc, prio, call>>
      BY <1>11 DEF RedirectToMain, ShutdownStep, RequestExit, NotifySpecial, TryShutdown, vars,
                   loopVars
    <2>2. \A s \in Specials : flag[s] => flag'[s]
      BY <1>11, <1>t DEF RedirectToMain, ShutdownStep, RequestExit, NotifySpecial, TryShutdown,
                         vars, TypeOK
    <2>3. QED
      BY <1>b, <1>s, <2>1, <2>2 DEF NotifyPending
  <1> HIDE DEF Goal
  <1>12. Goal
    BY <1>1, <1>2, <1>3, <1>4, <1>5, <1>6, <1>7, <1>8, <1>9, <1>10, <1>11
       DEF Next, CallStep, SpecialStep, Stopped
  <1>13. QED
    BY <1>t, <1>12 DEF Goal, WakeupInv, ClearsAtOnce, NoLostWakeup

\* No wake-up is lost where the relaxed clear is not delayed: a coroutine in a
\* queue that its thread has passed on the way to sleep leaves the flag set, or
\* a thread that is about to set it.
THEOREM WakeupNeverLost == Spec => []NoLostWakeup
  <1>1. WakeupInv => NoLostWakeup
    BY DEF WakeupInv
  <1>2. QED
    BY InitWakeup, NextWakeup, <1>1, PTL DEF Spec

(***************************************************************************)
(* The places of a job, and the inductive invariant of the life cycle: a   *)
(* job is in some place, in no two kinds of places, and at one place of    *)
(* its kind.  The coroutines of waitForThreadSync go through the same      *)
(* queues but are never jobs.                                              *)
(***************************************************************************)
Running(j) == \E s \in Specials : cur[s] = j

Carried(j) == \E t \in Threads : call[t].phase = "push" /\ call[t].coro = j

At(j, s, p, i) == i \in 1 .. Len(jobQ[s][p]) /\ jobQ[s][p][i] = j

Queued(j) == \E s \in Specials, p \in Priorities, i \in Nat : At(j, s, p, i)

HoldsOnlyInRun == \A s \in Specials : cur[s] # NoJob => pc[s] = "run"

OpenUntilRedirected == main = "up" => ~redirected

HeldSomewhere ==
    \A j \in Jobs : j \in idle \/ j \in toMain \/ Running(j) \/ Carried(j) \/ Queued(j)

HeldInOneKind ==
    \A j \in Jobs :
        /\ j \in idle => j \notin toMain /\ ~Running(j) /\ ~Carried(j) /\ ~Queued(j)
        /\ j \in toMain => ~Running(j) /\ ~Carried(j) /\ ~Queued(j)
        /\ Running(j) => ~Carried(j) /\ ~Queued(j)
        /\ Carried(j) => ~Queued(j)

RunByOne ==
    \A r, s \in Specials : cur[r] = cur[s] /\ cur[r] \in Jobs => r = s

CarriedByOne ==
    \A t, u \in Threads :
        /\ call[t].phase = "push" /\ call[u].phase = "push"
        /\ call[t].coro = call[u].coro /\ call[t].coro \in Jobs
        => t = u

QueuedOnce ==
    \A j \in Jobs, r, s \in Specials, p, q \in Priorities, i, k \in Nat :
        At(j, r, p, i) /\ At(j, s, q, k) => r = s /\ p = q /\ i = k

JobsHeldOnce ==
    /\ HeldSomewhere
    /\ HeldInOneKind
    /\ RunByOne
    /\ CarriedByOne
    /\ QueuedOnce

PlaceInv ==
    /\ TypeInv
    /\ HoldsOnlyInRun
    /\ OpenUntilRedirected
    /\ JobsHeldOnce

(***************************************************************************)
(* How each action that touches a coroutine moves it.                      *)
(***************************************************************************)
\* Entering enqueueJob: j is carried by t, or was handed to the main thread.
LEMMA EnterPlaces ==
  ASSUME TypeInv, CarriedByOne,
         NEW t \in Threads, NEW j \in Jobs, NEW targets \in SUBSET Specials,
         call[t].phase = "none", Enter(t, j, targets), ~Carried(j)
  PROVE  /\ UNCHANGED <<redirected, main>>
         /\ \A k \in Jobs : Queued(k)' <=> Queued(k)
         /\ \A k \in Jobs : k # j => (Carried(k)' <=> Carried(k)) /\ (k \in toMain' <=> k \in toMain)
         /\ \/ Carried(j)' /\ (j \in toMain' <=> j \in toMain)
            \/ ~Carried(j)' /\ j \in toMain' /\ redirected
         /\ CarriedByOne'
         /\ QueuedOnce' <=> QueuedOnce
  <1>1. UNCHANGED <<jobQ, redirected, main>>
    BY DEF Enter, mainVars
  <1>2. /\ \/ /\ toMain' = toMain
              /\ call'[t].phase = "push" /\ call'[t].coro = j
           \/ redirected /\ toMain' = toMain \cup {j} /\ UNCHANGED call
        /\ \A u \in Threads : u # t => call'[u] = call[u]
    <2>1. CASE redirected /\ toMain' = toMain \cup {j} /\ UNCHANGED call
      BY <2>1
    <2>2. CASE /\ UNCHANGED toMain
               /\ \E s \in targets :
                    call' = [call EXCEPT ![t] = [phase |-> "push", coro |-> j, target |-> s]]
      BY <2>2 DEF TypeInv, TypeOK
    <2>3. QED
      BY <2>1, <2>2 DEF Enter
  <1>3. /\ \A k \in Jobs : Queued(k)' <=> Queued(k)
        /\ QueuedOnce' <=> QueuedOnce
    BY <1>1 DEF Queued, At, QueuedOnce
  <1>4. \A k \in Jobs : k # j => (Carried(k)' <=> Carried(k)) /\ (k \in toMain' <=> k \in toMain)
    BY <1>2 DEF Carried
  <1>5. \/ Carried(j)' /\ (j \in toMain' <=> j \in toMain)
        \/ ~Carried(j)' /\ j \in toMain' /\ redirected
    BY <1>2 DEF Carried
  <1>6. CarriedByOne'
    BY <1>2 DEF CarriedByOne, Carried
  <1>7. QED
    BY <1>1, <1>3, <1>4, <1>5, <1>6

\* Push: the carried coroutine is now at the end of one queue.
LEMMA PushPlaces ==
  ASSUME PlaceInv, NEW t \in Threads, Push(t), NEW j \in Coroutines, j = call[t].coro
  PROVE  /\ UNCHANGED <<cur, pc, idle, toMain, redirected, main>>
         /\ j \in Jobs => Carried(j) /\ ~Carried(j)' /\ Queued(j)'
         /\ \A k \in Jobs : k # j => (Carried(k)' <=> Carried(k)) /\ (Queued(k)' <=> Queued(k))
         /\ CarriedByOne'
         /\ QueuedOnce'
  <1>0. PICK v \in Specials, r \in Priorities : v = call[t].target /\ r = QueueOf(j)
    <2>1. QueueOf(j) \in Priorities
      BY SpecialAssumption DEF QueueOf, PriorityLow, Priorities
    <2>2. QED
      BY <2>1 DEF PlaceInv, TypeInv, TypeOK, Calls
  <1>1. TypeOK /\ CarriedByOne /\ QueuedOnce /\ (j \in Jobs => ~Queued(j))
    BY DEF PlaceInv, JobsHeldOnce, TypeInv, HeldInOneKind, Carried, Push
  <1>2. UNCHANGED <<cur, pc, idle, toMain, redirected, main>>
    BY DEF Push, loopVars, mainVars
  <1>3. call'[t].phase # "push" /\ \A u \in Threads : u # t => call'[u] = call[u]
    <2>1. call' = [call EXCEPT ![t].phase = "notify"]
      BY DEF Push
    <2>2. QED
      BY <1>1, <2>1 DEF TypeOK, Calls
  <1>4. jobQ' = [jobQ EXCEPT ![v][r] = Append(@, j)]
    BY <1>0 DEF Push
  <1>5. \A s \in Specials, p \in Priorities :
           jobQ[s][p] \in Seq(Coroutines) /\ (s # v \/ p # r => jobQ'[s][p] = jobQ[s][p])
    BY <1>1, <1>4 DEF TypeOK
  <1>6. jobQ'[v][r] = Append(jobQ[v][r], j)
    BY <1>1, <1>4 DEF TypeOK
  <1>n. PICK n \in Nat : n = Len(jobQ[v][r]) + 1
    BY <1>5
  <1>8. \A k \in Jobs, s \in Specials, p \in Priorities, i \in Nat :
           At(k, s, p, i)' <=> At(k, s, p, i) \/ (k = j /\ s = v /\ p = r /\ i = n)
    <2> SUFFICES ASSUME NEW k \in Jobs, NEW s \in Specials, NEW p \in Priorities, NEW i \in Nat
                 PROVE  At(k, s, p, i)' <=> At(k, s, p, i) \/ (k = j /\ s = v /\ p = r /\ i = n)
      OBVIOUS
    <2>1. CASE s = v /\ p = r
      BY <2>1, <1>5, <1>6, <1>n DEF At
    <2>2. CASE s # v \/ p # r
      BY <2>2, <1>5 DEF At
    <2>3. QED
      BY <2>1, <2>2
  <1>9. /\ j \in Jobs => Carried(j) /\ ~Carried(j)'
        /\ \A k \in Jobs : k # j => (Carried(k)' <=> Carried(k))
    BY <1>1, <1>3 DEF Carried, CarriedByOne, Push
  <1>10. /\ j \in Jobs => Queued(j)'
         /\ \A k \in Jobs : k # j => (Queued(k)' <=> Queued(k))
    BY <1>8 DEF Queued
  <1>11. CarriedByOne'
    BY <1>1, <1>3 DEF CarriedByOne
  <1>12. QueuedOnce'
    BY <1>1, <1>8 DEF QueuedOnce, Queued
  <1>13. QED
    BY <1>2, <1>9, <1>10, <1>11, <1>12

LEMMA TailEntries ==
  ASSUME NEW q \in Seq(Coroutines), q # <<>>
  PROVE  /\ Len(Tail(q)) = Len(q) - 1
         /\ \A n \in 1 .. Len(q) - 1 : Tail(q)[n] = q[n + 1]
  <1>1. QED
    BY HeadTailProperties

\* TakeJob: the coroutine at the head of a queue is the one its thread runs.
LEMMA TakePlaces ==
  ASSUME PlaceInv, NEW s \in Specials, TakeJob(s),
         NEW j \in Coroutines, j = Head(jobQ[s][prio[s]])
  PROVE  /\ UNCHANGED <<call, idle, toMain, redirected, main>>
         /\ j \in Jobs => Queued(j) /\ ~Queued(j)' /\ Running(j)'
         /\ \A k \in Jobs : k # j => (Running(k)' <=> Running(k)) /\ (Queued(k)' <=> Queued(k))
         /\ HoldsOnlyInRun'
         /\ RunByOne'
         /\ QueuedOnce'
  <1>0. PICK r \in Priorities : r = prio[s]
    BY DEF PlaceInv, TypeInv, TypeOK
  <1>1. UNCHANGED <<call, idle, toMain, redirected, main>>
    BY DEF TakeJob, mainVars
  <1>2. TypeOK /\ QueuedOnce /\ HoldsOnlyInRun /\ RunByOne /\ cur[s] = NoJob
    BY DEF PlaceInv, JobsHeldOnce, TypeInv, HoldsOnlyInRun, TakeJob
  <1>3. /\ cur'[s] = j /\ pc'[s] = "run"
        /\ \A u \in Specials : u # s => cur'[u] = cur[u] /\ pc'[u] = pc[u]
    BY <1>2 DEF TakeJob, TypeOK
  <1>4. jobQ[s][r] # <<>> /\ jobQ' = [jobQ EXCEPT ![s][r] = Tail(jobQ[s][r])]
    BY <1>0 DEF TakeJob
  <1>5. \A u \in Specials, p \in Priorities :
           jobQ[u][p] \in Seq(Coroutines) /\ (u # s \/ p # r => jobQ'[u][p] = jobQ[u][p])
    BY <1>2, <1>4 DEF TypeOK
  <1>6. jobQ'[s][r] = Tail(jobQ[s][r])
    BY <1>2, <1>4 DEF TypeOK
  <1>7. At(j, s, r, 1)
    BY <1>0, <1>4, <1>5 DEF At
  <1>8. \A k \in Jobs, u \in Specials, p \in Priorities, i \in Nat :
           At(k, u, p, i)' <=> IF u = s /\ p = r THEN i > 0 /\ At(k, u, p, i + 1)
                                                 ELSE At(k, u, p, i)
    <2> SUFFICES ASSUME NEW k \in Jobs, NEW u \in Specials, NEW p \in Priorities, NEW i \in Nat
                 PROVE  At(k, u, p, i)' <=> IF u = s /\ p = r THEN i > 0 /\ At(k, u, p, i + 1)
                                                              ELSE At(k, u, p, i)
      OBVIOUS
    <2>1. CASE u = s /\ p = r
      <3>0. jobQ[s][r] \in Seq(Coroutines) /\ jobQ[s][r] # <<>>
        BY <1>4, <1>5
      <3>t. /\ Len(Tail(jobQ[s][r])) = Len(jobQ[s][r]) - 1
            /\ \A n \in 1 .. Len(jobQ[s][r]) - 1 : Tail(jobQ[s][r])[n] = jobQ[s][r][n + 1]
        BY <3>0, TailEntries
      <3>1. /\ Len(jobQ'[s][r]) = Len(jobQ[s][r]) - 1
            /\ \A n \in 1 .. Len(jobQ[s][r]) - 1 : jobQ'[s][r][n] = jobQ[s][r][n + 1]
        BY <1>6, <3>t, Zenon
      <3>2. Len(jobQ[s][r]) \in Nat
        BY <1>5
      <3>3. QED
        BY <2>1, <3>1, <3>2 DEF At
    <2>2. CASE u # s \/ p # r
      BY <2>2, <1>5 DEF At
    <2>3. QED
      BY <2>1, <2>2
  <1>9. \A k \in Jobs, u \in Specials, p \in Priorities, i \in Nat : At(k, u, p, i) => i > 0
    BY <1>5 DEF At
  <1>10. ASSUME j \in Jobs PROVE Queued(j) /\ ~Queued(j)'
    <2>1. Queued(j)
      BY <1>7 DEF Queued
    <2>2. ASSUME NEW u \in Specials, NEW p \in Priorities, NEW i \in Nat, At(j, u, p, i)'
          PROVE  FALSE
      <3>1. CASE u = s /\ p = r
        BY <3>1, <2>2, <1>2, <1>7, <1>8, <1>10 DEF QueuedOnce
      <3>2. CASE u # s \/ p # r
        BY <3>2, <2>2, <1>2, <1>7, <1>8, <1>10 DEF QueuedOnce
      <3>3. QED
        BY <3>1, <3>2
    <2>3. QED
      BY <2>1, <2>2 DEF Queued
  <1>11. ASSUME NEW k \in Jobs, k # j PROVE Queued(k)' <=> Queued(k)
    <2>1. ASSUME NEW u \in Specials, NEW p \in Priorities, NEW i \in Nat, At(k, u, p, i)
          PROVE  Queued(k)'
      <3>1. CASE u = s /\ p = r
        <4>1. i # 1
          BY <3>1, <2>1, <1>7, <1>11 DEF At
        <4>2. i - 1 \in Nat /\ i - 1 > 0
          BY <4>1, <2>1, <1>9
        <4>3. At(k, u, p, i - 1)'
          BY <4>2, <3>1, <2>1, <1>8
        <4>4. QED
          BY <4>2, <4>3 DEF Queued
      <3>2. CASE u # s \/ p # r
        BY <3>2, <2>1, <1>8 DEF Queued
      <3>3. QED
        BY <3>1, <3>2
    <2>2. ASSUME NEW u \in Specials, NEW p \in Priorities, NEW i \in Nat, At(k, u, p, i)'
          PROVE  Queued(k)
      BY <2>2, <1>8 DEF Queued
    <2>3. QED
      BY <2>1, <2>2 DEF Queued
  <1>12. QueuedOnce'
    <2> SUFFICES ASSUME NEW k \in Jobs, NEW u \in Specials, NEW x \in Specials,
                        NEW p \in Priorities, NEW q \in Priorities, NEW i \in Nat, NEW m \in Nat,
                        At(k, u, p, i)', At(k, x, q, m)'
                 PROVE  u = x /\ p = q /\ i = m
      BY DEF QueuedOnce
    <2>1. PICK i1 \in Nat, m1 \in Nat :
             /\ At(k, u, p, i1) /\ i1 = IF u = s /\ p = r THEN i + 1 ELSE i
             /\ At(k, x, q, m1) /\ m1 = IF x = s /\ q = r THEN m + 1 ELSE m
      BY <1>8
    <2>2. u = x /\ p = q /\ i1 = m1
      BY <2>1, <1>2 DEF QueuedOnce
    <2>3. QED
      BY <2>1, <2>2
  <1>13. /\ j \in Jobs => Running(j)'
         /\ \A k \in Jobs : k # j => (Running(k)' <=> Running(k))
    BY <1>2, <1>3, SpecialAssumption DEF Running, Coroutines
  <1>14. HoldsOnlyInRun'
    BY <1>2, <1>3 DEF HoldsOnlyInRun
  <1>15. RunByOne'
    <2>1. j \in Jobs => ~Running(j)
      BY <1>10 DEF PlaceInv, JobsHeldOnce, HeldInOneKind
    <2>2. QED
      BY <2>1, <1>2, <1>3 DEF RunByOne, Running
  <1>16. QED
    BY <1>1, <1>10, <1>11, <1>12, <1>13, <1>14, <1>15

\* A thread lets go of the coroutine it ran; it stays in resume() or scans.
LEMMA RunnerLetsGo ==
  ASSUME PlaceInv, NEW s \in Specials,
         cur' = [cur EXCEPT ![s] = NoJob],
         \A u \in Specials : u # s => pc'[u] = pc[u]
  PROVE  /\ cur[s] \in Jobs => Running(cur[s])
         /\ \A k \in Jobs : Running(k)' <=> Running(k) /\ k # cur[s]
         /\ HoldsOnlyInRun'
         /\ RunByOne'
  <1>1. TypeOK /\ HoldsOnlyInRun /\ RunByOne
    BY DEF PlaceInv, JobsHeldOnce, TypeInv
  <1>2. cur'[s] = NoJob /\ \A u \in Specials : u # s => cur'[u] = cur[u]
    BY <1>1 DEF TypeOK
  <1>3. \A k \in Jobs : Running(k)' <=> Running(k) /\ k # cur[s]
    BY <1>1, <1>2, SpecialAssumption DEF Running, RunByOne, Coroutines
  <1>4. HoldsOnlyInRun' /\ RunByOne'
    BY <1>1, <1>2, SpecialAssumption DEF HoldsOnlyInRun, RunByOne, Coroutines
  <1>5. QED
    BY <1>3, <1>4 DEF Running

\* Every other action leaves every job where it is.  The coroutine of a call
\* of waitForThreadSync is not a job.
OtherStep ==
    \/ \E t \in Waiters : CallSync(t)
    \/ \E t \in Threads : Notify(t) \/ SyncReturned(t)
    \/ \E s \in Specials : \/ SetWaitFlag(s) \/ ResumeReturns(s)
                           \/ NextPriority(s) \/ TestExit(s) \/ WaitForJob(s)
                           \/ ClearFlag(s) \/ Drain(s) \/ ExitSpecial(s)
    \/ RedirectToMain \/ ShutdownStep \/ UNCHANGED vars

LEMMA OthersKeepPlaces ==
  ASSUME PlaceInv, OtherStep
  PROVE  /\ UNCHANGED <<idle, toMain>>
         /\ \A k \in Jobs : (Running(k)' <=> Running(k)) /\ (Carried(k)' <=> Carried(k))
                              /\ (Queued(k)' <=> Queued(k))
         /\ redirected' = redirected \/ RedirectToMain
         /\ HoldsOnlyInRun' /\ OpenUntilRedirected'
         /\ RunByOne' /\ CarriedByOne' /\ QueuedOnce'
  <1> DEFINE Keeps ==
               /\ UNCHANGED <<jobQ, idle, toMain>>
               /\ (\A k \in Jobs : Running(k)' <=> Running(k)) /\ RunByOne'
               /\ (\A k \in Jobs : Carried(k)' <=> Carried(k)) /\ CarriedByOne'
               /\ HoldsOnlyInRun' /\ OpenUntilRedirected'
               /\ redirected' = redirected \/ RedirectToMain
  <1>0. TypeOK /\ HoldsOnlyInRun /\ OpenUntilRedirected /\ RunByOne /\ CarriedByOne /\ QueuedOnce
    BY DEF PlaceInv, JobsHeldOnce, TypeInv
  <1>r. ASSUME cur' = cur
        PROVE  (\A k \in Jobs : Running(k)' <=> Running(k)) /\ RunByOne'
    BY <1>0, <1>r DEF Running, RunByOne
  <1>c. ASSUME call' = call
        PROVE  (\A k \in Jobs : Carried(k)' <=> Carried(k)) /\ CarriedByOne'
    BY <1>0, <1>c DEF Carried, CarriedByOne
  <1>1. ASSUME NEW t \in Threads,
               \/ t \in Waiters /\ CallSync(t)
               \/ Notify(t) \/ SyncReturned(t)
        PROVE  Keeps
    <2>1. UNCHANGED <<jobQ, cur, pc, idle, toMain, redirected, main>>
      BY <1>1 DEF CallSync, Notify, SyncReturned, loopVars, mainVars
    <2>2. call[t].phase # "push" /\ \A u \in Threads : u # t => call'[u] = call[u]
      BY <1>0, <1>1 DEF CallSync, CanCall, Notify, SyncReturned, TypeOK
    <2>3. call'[t].phase # "push" \/ call'[t].coro \notin Jobs
      <3>1. CASE t \in Waiters /\ CallSync(t)
        <4>1. call'[t].coro = t
          BY <3>1, <1>0 DEF CallSync, TypeOK
        <4>2. QED
          BY <4>1, SpecialAssumption
      <3>2. CASE Notify(t)
        BY <3>2, <1>0 DEF Notify, NotCalling, TypeOK, Calls
      <3>3. CASE SyncReturned(t)
        BY <3>3, <1>0 DEF SyncReturned, NotCalling, TypeOK, Calls
      <3>4. QED
        BY <1>1, <3>1, <3>2, <3>3
    <2>4. (\A k \in Jobs : Carried(k)' <=> Carried(k)) /\ CarriedByOne'
      BY <1>0, <2>2, <2>3 DEF Carried, CarriedByOne
    <2>5. QED
      BY <1>0, <1>r, <2>1, <2>4 DEF HoldsOnlyInRun, OpenUntilRedirected
  <1>2. ASSUME NEW s \in Specials, SetWaitFlag(s) \/ ResumeReturns(s) PROVE Keeps
    <2>1. UNCHANGED <<jobQ, call, idle, toMain, redirected, main>>
          /\ cur' = [cur EXCEPT ![s] = NoJob] /\ cur[s] \notin Jobs
      BY <1>2, SpecialAssumption DEF SetWaitFlag, ResumeReturns, NextJob, mainVars, Coroutines
    <2>2. \A u \in Specials : u # s => pc'[u] = pc[u]
      BY <1>0, <1>2 DEF SetWaitFlag, ResumeReturns, NextJob, TypeOK
    <2>3. (\A k \in Jobs : Running(k)' <=> Running(k)) /\ RunByOne' /\ HoldsOnlyInRun'
      BY <2>1, <2>2, RunnerLetsGo
    <2>4. QED
      BY <1>0, <1>c, <2>1, <2>3 DEF OpenUntilRedirected
  <1>3. ASSUME NEW s \in Specials,
               \/ NextPriority(s) \/ TestExit(s) \/ WaitForJob(s)
               \/ ClearFlag(s) \/ Drain(s) \/ ExitSpecial(s)
        PROVE  Keeps
    <2>1. UNCHANGED <<jobQ, cur, call, idle, toMain, redirected, main>>
      BY <1>3 DEF NextPriority, TestExit, WaitForJob, ClearFlag, Drain, ExitSpecial, mainVars, loopVars
    <2>2. \A u \in Specials : pc'[u] = pc[u] \/ (u = s /\ pc[s] # "run")
      BY <1>0, <1>3 DEF NextPriority, TestExit, WaitForJob, ClearFlag, Drain, ExitSpecial,
                        loopVars, TypeOK
    <2>3. QED
      BY <1>0, <1>r, <1>c, <2>1, <2>2 DEF HoldsOnlyInRun, OpenUntilRedirected
  <1>4. ASSUME RedirectToMain \/ ShutdownStep \/ UNCHANGED vars PROVE Keeps
    <2>1. UNCHANGED <<jobQ, cur, pc, idle, toMain, call>>
      BY <1>4 DEF RedirectToMain, ShutdownStep, RequestExit, NotifySpecial, TryShutdown,
                  vars, loopVars
    <2>2. redirected' = redirected \/ RedirectToMain
      BY <1>4 DEF ShutdownStep, RequestExit, NotifySpecial, TryShutdown, vars, mainVars
    <2>3. OpenUntilRedirected'
      BY <1>0, <1>4 DEF RedirectToMain, ShutdownStep, RequestExit, NotifySpecial, TryShutdown,
                  vars, mainVars, OpenUntilRedirected
    <2>4. QED
      BY <1>0, <1>r, <1>c, <2>1, <2>2, <2>3 DEF HoldsOnlyInRun
  <1> HIDE DEF Keeps
  <1>5. Keeps
    BY <1>1, <1>2, <1>3, <1>4, SpecialAssumption DEF OtherStep
  <1>6. (\A k \in Jobs : Queued(k)' <=> Queued(k)) /\ QueuedOnce'
    BY <1>0, <1>5 DEF Keeps, Queued, QueuedOnce, At
  <1>7. QED
    BY <1>5, <1>6 DEF Keeps

(***************************************************************************)
(* The invariant holds initially and every step preserves it.              *)
(***************************************************************************)
LEMMA InitPlaces == Init => PlaceInv
  <1> SUFFICES ASSUME Init PROVE PlaceInv
    OBVIOUS
  <1>1. \A s \in Specials, p \in Priorities : jobQ[s][p] = <<>>
    BY DEF Init
  <1>2. \A j \in Jobs : ~Running(j) /\ ~Carried(j) /\ ~Queued(j)
    BY <1>1, SpecialAssumption DEF Init, NotCalling, Running, Carried, Queued, At, Coroutines
  <1>3. QueuedOnce
    BY <1>2 DEF QueuedOnce, Queued
  <1>4. RunByOne /\ CarriedByOne
    BY <1>2 DEF RunByOne, CarriedByOne, Running, Carried
  <1>5. HoldsOnlyInRun /\ OpenUntilRedirected
    BY DEF Init, HoldsOnlyInRun, OpenUntilRedirected
  <1>6. HeldSomewhere /\ HeldInOneKind
    BY <1>2 DEF Init, HeldSomewhere, HeldInOneKind
  <1>7. QED
    BY <1>3, <1>4, <1>5, <1>6, InitType DEF PlaceInv, JobsHeldOnce

LEMMA NextPlaces == PlaceInv /\ [Next]_vars => PlaceInv'
  <1> SUFFICES ASSUME PlaceInv, [Next]_vars PROVE PlaceInv'
    OBVIOUS
  <1>0. TypeOK /\ TypeInv /\ HoldsOnlyInRun /\ OpenUntilRedirected
        /\ HeldSomewhere /\ HeldInOneKind /\ RunByOne /\ CarriedByOne /\ QueuedOnce
    BY DEF PlaceInv, JobsHeldOnce, TypeInv
  <1>t. TypeInv'
    BY <1>0, NextType
  <1>1. ASSUME NEW t \in Threads, NEW j \in Jobs, EnqueueJob(t, j) PROVE PlaceInv'
    <2>0. PICK targets \in SUBSET Specials : Enter(t, j, targets)
      BY <1>1, SpecialAssumption DEF EnqueueJob
    <2>1. call[t].phase = "none" /\ j \in idle /\ idle' = idle \ {j} /\ UNCHANGED <<cur, pc>>
      BY <1>1 DEF EnqueueJob, CanCall, loopVars
    <2>2. ~Carried(j)
      BY <1>0, <2>1 DEF HeldInOneKind
    <2>3. \A k \in Jobs : Running(k)' <=> Running(k)
      BY <2>1 DEF Running
    <2>4. HoldsOnlyInRun' /\ RunByOne' /\ OpenUntilRedirected'
      BY <1>0, <2>0, <2>1, <2>2, EnterPlaces DEF HoldsOnlyInRun, RunByOne, OpenUntilRedirected
    <2>5. HeldSomewhere'
      BY <1>0, <2>0, <2>1, <2>2, <2>3, EnterPlaces DEF HeldSomewhere
    <2>6. HeldInOneKind'
      BY <1>0, <2>0, <2>1, <2>2, <2>3, EnterPlaces DEF HeldInOneKind
    <2>7. QED
      BY <1>0, <1>t, <2>0, <2>1, <2>2, <2>4, <2>5, <2>6, EnterPlaces DEF PlaceInv, JobsHeldOnce
  <1>2. ASSUME NEW s \in Specials, SwitchJobThread(s) PROVE PlaceInv'
    <2>1. PICK j \in Jobs : j = cur[s]
      BY <1>2 DEF SwitchJobThread, CanCall
    <2>2. s \in Threads /\ call[s].phase = "none" /\ Enter(s, j, Specials)
          /\ cur' = [cur EXCEPT ![s] = NoJob] /\ UNCHANGED <<pc, idle>>
      BY <1>2, <2>1 DEF SwitchJobThread, CanCall, Threads
    <2>3. /\ Running(j) /\ ~Running(j)'
          /\ \A k \in Jobs : k # j => (Running(k)' <=> Running(k))
          /\ HoldsOnlyInRun' /\ RunByOne'
      BY <2>1, <2>2, RunnerLetsGo
    <2>4. ~Carried(j)
      BY <1>0, <2>3 DEF HeldInOneKind
    <2>5. OpenUntilRedirected'
      BY <1>0, <2>2, <2>4, EnterPlaces DEF OpenUntilRedirected
    <2>6. HeldSomewhere'
      BY <1>0, <2>2, <2>3, <2>4, EnterPlaces DEF HeldSomewhere
    <2>7. HeldInOneKind'
      BY <1>0, <2>2, <2>3, <2>4, EnterPlaces DEF HeldInOneKind
    <2>8. QED
      BY <1>0, <1>t, <2>2, <2>3, <2>4, <2>5, <2>6, <2>7, EnterPlaces DEF PlaceInv, JobsHeldOnce
  <1>3. ASSUME NEW t \in Threads, Push(t) PROVE PlaceInv'
    <2>1. PICK j \in Coroutines : j = call[t].coro
      BY <1>0, <1>3 DEF Push, TypeInv, PushCarries
    <2>2. HoldsOnlyInRun' /\ RunByOne' /\ OpenUntilRedirected'
      BY <1>0, <1>3, <2>1, PushPlaces DEF HoldsOnlyInRun, RunByOne, OpenUntilRedirected
    <2>3. \A k \in Jobs : Running(k)' <=> Running(k)
      BY <1>3, <2>1, PushPlaces DEF Running
    <2>4. HeldSomewhere'
      BY <1>0, <1>3, <2>1, <2>3, PushPlaces DEF HeldSomewhere
    <2>5. HeldInOneKind'
      BY <1>0, <1>3, <2>1, <2>3, PushPlaces DEF HeldInOneKind
    <2>6. QED
      BY <1>t, <1>3, <2>1, <2>2, <2>4, <2>5, PushPlaces DEF PlaceInv, JobsHeldOnce
  <1>4. ASSUME NEW s \in Specials, TakeJob(s) PROVE PlaceInv'
    <2>1. PICK j \in Coroutines : j = Head(jobQ[s][prio[s]])
      BY <1>0, <1>4 DEF TakeJob, TypeOK
    <2>2. CarriedByOne' /\ OpenUntilRedirected'
      BY <1>0, <1>4, <2>1, TakePlaces DEF CarriedByOne, OpenUntilRedirected
    <2>3. \A k \in Jobs : Carried(k)' <=> Carried(k)
      BY <1>4, <2>1, TakePlaces DEF Carried
    <2>4. HeldSomewhere'
      BY <1>0, <1>4, <2>1, <2>3, TakePlaces DEF HeldSomewhere
    <2>5. HeldInOneKind'
      BY <1>0, <1>4, <2>1, <2>3, TakePlaces DEF HeldInOneKind
    <2>6. QED
      BY <1>t, <1>4, <2>1, <2>2, <2>4, <2>5, TakePlaces DEF PlaceInv, JobsHeldOnce
  <1>5. ASSUME NEW s \in Specials, SuspendJob(s) PROVE PlaceInv'
    <2>1. PICK j \in Jobs : j = cur[s]
      BY <1>5 DEF SuspendJob
    <2>2. cur' = [cur EXCEPT ![s] = NoJob] /\ idle' = idle \cup {j}
          /\ UNCHANGED <<call, jobQ, toMain, redirected, main>>
      BY <1>5, <2>1 DEF SuspendJob, NextJob, mainVars
    <2>0. \A u \in Specials : u # s => pc'[u] = pc[u]
      BY <1>0, <1>5 DEF SuspendJob, NextJob, TypeOK
    <2>3. /\ Running(j) /\ ~Running(j)'
          /\ \A k \in Jobs : k # j => (Running(k)' <=> Running(k))
          /\ HoldsOnlyInRun' /\ RunByOne'
      BY <2>0, <2>1, <2>2, RunnerLetsGo
    <2>4. \A k \in Jobs : (Carried(k)' <=> Carried(k)) /\ (Queued(k)' <=> Queued(k))
      BY <2>2 DEF Carried, Queued, At
    <2>5. CarriedByOne' /\ QueuedOnce' /\ OpenUntilRedirected'
      BY <1>0, <2>2 DEF CarriedByOne, QueuedOnce, At, OpenUntilRedirected
    <2>6. HeldSomewhere' /\ HeldInOneKind'
      BY <1>0, <2>2, <2>3, <2>4 DEF HeldSomewhere, HeldInOneKind
    <2>7. QED
      BY <1>t, <2>3, <2>5, <2>6 DEF PlaceInv, JobsHeldOnce
  <1>6. ASSUME OtherStep PROVE PlaceInv'
    <2>1. HeldSomewhere' /\ HeldInOneKind'
      BY <1>0, <1>6, OthersKeepPlaces DEF HeldSomewhere, HeldInOneKind
    <2>2. QED
      BY <1>t, <1>6, <2>1, OthersKeepPlaces DEF PlaceInv, JobsHeldOnce
  <1>7. QED
    BY <1>1, <1>2, <1>3, <1>4, <1>5, <1>6
       DEF Next, CallStep, SpecialStep, OtherStep, Stopped

\* A job is neither lost nor duplicated on the way through the queues of the
\* special threads: it is in one place, idle, handed to the main thread,
\* carried by one enqueueJob, at one position of one queue, or run by one
\* thread.
THEOREM JobInOnePlace == Spec => []JobsHeldOnce
  <1>1. PlaceInv => JobsHeldOnce
    BY DEF PlaceInv
  <1>2. QED
    BY InitPlaces, NextPlaces, <1>1, PTL DEF Spec

(***************************************************************************)
(* Refinement of the life cycle of single coroutines.                      *)
(***************************************************************************)
LEMMA StateByPlace ==
  ASSUME NEW j \in Jobs
  PROVE  /\ JobState(j) = IF Running(j) THEN "running"
                          ELSE IF j \in idle THEN "idle"
                          ELSE IF j \in toMain THEN "main" ELSE "queued"
         /\ JobState(j)' = IF Running(j)' THEN "running"
                           ELSE IF j \in idle' THEN "idle"
                           ELSE IF j \in toMain' THEN "main" ELSE "queued"
  BY DEF JobState, Running

\* One coroutine changes its state, the others keep theirs.
LEMMA BecomeByState ==
  ASSUME NEW j \in Jobs, NEW old, NEW new,
         JobState(j) \in old, JobState(j)' = new,
         \A k \in Jobs : k # j => JobState(k)' = JobState(k),
         UNCHANGED redirected
  PROVE  Lifecycle!Become(j, old, new)
  <1>1. [k \in Jobs |-> JobState(k)'] = [[k \in Jobs |-> JobState(k)] EXCEPT ![j] = new]
    OBVIOUS
  <1>2. QED
    BY <1>1 DEF Lifecycle!Become

\* Of a coroutine that entered enqueueJob while idle or running.
LEMMA EnqueueOrHandOver ==
  ASSUME PlaceInv, NEW j \in Jobs,
         j \in idle \/ Running(j),
         ~Running(j)', j \notin idle',
         \/ Carried(j)' /\ (j \in toMain' <=> j \in toMain)
         \/ j \in toMain' /\ redirected,
         \A k \in Jobs : k # j => /\ Running(k)' <=> Running(k)
                                  /\ k \in idle' <=> k \in idle
                                  /\ k \in toMain' <=> k \in toMain,
         UNCHANGED redirected
  PROVE  Lifecycle!Enqueue(j) \/ Lifecycle!HandOver(j)
  <1>1. JobState(j) \in {"idle", "running"}
    BY StateByPlace
  <1>2. \A k \in Jobs : k # j => JobState(k)' = JobState(k)
    BY StateByPlace
  <1>3. CASE j \in toMain' /\ redirected
    <2>1. JobState(j)' = "main"
      BY <1>3, StateByPlace
    <2>2. Lifecycle!Become(j, {"idle", "running"}, "main")
      BY <1>1, <1>2, <2>1, BecomeByState
    <2>3. QED
      BY <1>3, <2>2 DEF Lifecycle!HandOver
  <1>4. CASE j \in toMain' <=> j \in toMain
    <2>1. j \notin toMain
      BY DEF PlaceInv, JobsHeldOnce, HeldInOneKind
    <2>2. JobState(j)' = "queued"
      BY <1>4, <2>1, StateByPlace
    <2>3. Lifecycle!Become(j, {"idle", "running"}, "queued")
      BY <1>1, <1>2, <2>2, BecomeByState
    <2>4. QED
      BY <2>3 DEF Lifecycle!Enqueue
  <1>5. QED
    BY <1>3, <1>4

LEMMA InitLifecycle == Init => Lifecycle!Init
  <1> SUFFICES ASSUME Init PROVE Lifecycle!Init
    OBVIOUS
  <1>1. \A j \in Jobs : JobState(j) = "idle"
    BY SpecialAssumption, StateByPlace DEF Init, Running, Coroutines
  <1>2. QED
    BY <1>1 DEF Init, Lifecycle!Init

LEMMA NextLifecycle ==
  PlaceInv /\ [Next]_vars => [Lifecycle!Next]_(Lifecycle!lvars)
  <1> DEFINE Goal == [Lifecycle!Next]_(Lifecycle!lvars)
  <1> SUFFICES ASSUME PlaceInv, [Next]_vars PROVE Goal
    OBVIOUS
  <1>0. TypeOK /\ TypeInv /\ CarriedByOne /\ OpenUntilRedirected /\ HeldInOneKind
    BY DEF PlaceInv, JobsHeldOnce, TypeInv
  <1>1. ASSUME NEW t \in Threads, NEW j \in Jobs, EnqueueJob(t, j) PROVE Goal
    <2>0. PICK targets \in SUBSET Specials : Enter(t, j, targets)
      BY <1>1, SpecialAssumption DEF EnqueueJob
    <2>1. call[t].phase = "none" /\ j \in idle /\ idle' = idle \ {j} /\ UNCHANGED cur
      BY <1>1 DEF EnqueueJob, CanCall, loopVars
    <2>2. ~Carried(j) /\ ~Running(j)
      BY <1>0, <2>1 DEF HeldInOneKind
    <2>3. \A k \in Jobs : Running(k)' <=> Running(k)
      BY <2>1 DEF Running
    <2>4. /\ UNCHANGED redirected
          /\ \/ Carried(j)' /\ (j \in toMain' <=> j \in toMain)
             \/ j \in toMain' /\ redirected
          /\ \A k \in Jobs : k # j => (k \in toMain' <=> k \in toMain)
      BY <1>0, <2>0, <2>1, <2>2, EnterPlaces
    <2>5. Lifecycle!Enqueue(j) \/ Lifecycle!HandOver(j)
      BY <2>1, <2>2, <2>3, <2>4, EnqueueOrHandOver
    <2>6. QED
      BY <2>5 DEF Lifecycle!Next
  <1>2. ASSUME NEW s \in Specials, SwitchJobThread(s) PROVE Goal
    <2>1. PICK j \in Jobs : j = cur[s]
      BY <1>2 DEF SwitchJobThread, CanCall
    <2>2. s \in Threads /\ call[s].phase = "none" /\ Enter(s, j, Specials)
          /\ cur' = [cur EXCEPT ![s] = NoJob] /\ UNCHANGED <<pc, idle>>
      BY <1>2, <2>1 DEF SwitchJobThread, CanCall, Threads
    <2>3. /\ Running(j) /\ ~Running(j)'
          /\ \A k \in Jobs : k # j => (Running(k)' <=> Running(k))
      BY <2>1, <2>2, RunnerLetsGo
    <2>4. ~Carried(j) /\ j \notin idle'
      BY <1>0, <2>2, <2>3 DEF HeldInOneKind
    <2>5. /\ UNCHANGED redirected
          /\ \/ Carried(j)' /\ (j \in toMain' <=> j \in toMain)
             \/ j \in toMain' /\ redirected
          /\ \A k \in Jobs : k # j => (k \in toMain' <=> k \in toMain)
      BY <1>0, <2>2, <2>4, EnterPlaces
    <2>6. Lifecycle!Enqueue(j) \/ Lifecycle!HandOver(j)
      BY <2>2, <2>3, <2>4, <2>5, EnqueueOrHandOver
    <2>7. QED
      BY <2>6 DEF Lifecycle!Next
  <1>3. ASSUME NEW t \in Threads, Push(t) PROVE Goal
    <2>1. PICK j \in Coroutines : j = call[t].coro
      BY <1>0, <1>3 DEF Push, TypeInv, PushCarries
    <2>2. UNCHANGED <<cur, idle, toMain, redirected>>
      BY <1>3, <2>1, PushPlaces
    <2>3. [k \in Jobs |-> JobState(k)'] = [k \in Jobs |-> JobState(k)]
      BY <2>2, StateByPlace DEF Running
    <2>4. QED
      BY <2>2, <2>3 DEF Lifecycle!lvars
  <1>4. ASSUME NEW s \in Specials, TakeJob(s) PROVE Goal
    <2>1. PICK j \in Coroutines : j = Head(jobQ[s][prio[s]])
      BY <1>0, <1>4 DEF TakeJob, TypeOK
    <2>2. /\ UNCHANGED <<idle, toMain, redirected>>
          /\ j \in Jobs => Queued(j) /\ Running(j)'
          /\ \A k \in Jobs : k # j => (Running(k)' <=> Running(k))
      BY <1>4, <2>1, TakePlaces
    <2>3. \A k \in Jobs : k # j => JobState(k)' = JobState(k)
      BY <2>2, StateByPlace
    <2>4. CASE j \in Jobs
      <3>1. JobState(j) = "queued" /\ JobState(j)' = "running"
        BY <1>0, <2>2, <2>4, StateByPlace DEF HeldInOneKind
      <3>2. Lifecycle!Become(j, {"queued"}, "running")
        BY <2>2, <2>3, <2>4, <3>1, BecomeByState
      <3>3. QED
        BY <2>4, <3>2 DEF Lifecycle!Next, Lifecycle!Resume
    <2>5. CASE j \notin Jobs
      <3>1. [k \in Jobs |-> JobState(k)'] = [k \in Jobs |-> JobState(k)]
        BY <2>3, <2>5
      <3>2. QED
        BY <2>2, <3>1 DEF Lifecycle!lvars
    <2>6. QED
      BY <2>4, <2>5
  <1>5. ASSUME NEW s \in Specials, SuspendJob(s) PROVE Goal
    <2>1. PICK j \in Jobs : j = cur[s]
      BY <1>5 DEF SuspendJob
    <2>2. cur' = [cur EXCEPT ![s] = NoJob] /\ idle' = idle \cup {j}
          /\ UNCHANGED <<toMain, redirected>>
      BY <1>5, <2>1 DEF SuspendJob, NextJob, mainVars
    <2>0. \A u \in Specials : u # s => pc'[u] = pc[u]
      BY <1>0, <1>5 DEF SuspendJob, NextJob, TypeOK
    <2>3. /\ Running(j) /\ ~Running(j)'
          /\ \A k \in Jobs : k # j => (Running(k)' <=> Running(k))
      BY <2>0, <2>1, <2>2, RunnerLetsGo
    <2>4. JobState(j) = "running" /\ JobState(j)' = "idle"
      BY <2>2, <2>3, StateByPlace
    <2>5. \A k \in Jobs : k # j => JobState(k)' = JobState(k)
      BY <2>2, <2>3, StateByPlace
    <2>6. Lifecycle!Become(j, {"running"}, "idle")
      BY <2>2, <2>4, <2>5, BecomeByState
    <2>7. QED
      BY <2>6 DEF Lifecycle!Next, Lifecycle!Suspend
  <1>6. ASSUME OtherStep PROVE Goal
    <2>1. [k \in Jobs |-> JobState(k)'] = [k \in Jobs |-> JobState(k)]
      BY <1>6, OthersKeepPlaces, StateByPlace
    <2>2. CASE redirected' = redirected
      BY <2>1, <2>2 DEF Lifecycle!lvars
    <2>3. CASE RedirectToMain
      BY <1>0, <2>1, <2>3 DEF RedirectToMain, OpenUntilRedirected, Lifecycle!Close, Lifecycle!Next
    <2>4. QED
      BY <1>6, <2>2, <2>3, OthersKeepPlaces
  <1> HIDE DEF Goal
  <1>7. QED
    BY <1>1, <1>2, <1>3, <1>4, <1>5, <1>6
       DEF Next, CallStep, SpecialStep, OtherStep, Stopped

\* Every step of the special threads is a step of the life cycle of one job or
\* leaves all of them in their state: a job is resumed once for each time it
\* is enqueued, also when it enqueues itself to another thread and that thread
\* resumes it before its own await_suspend returned.
THEOREM SpecialsImplementLifecycle == Spec => ImplementsLifecycle
  <1>1. QED
    BY InitPlaces, NextPlaces, InitLifecycle, NextLifecycle, PTL
       DEF Spec, ImplementsLifecycle, Lifecycle!Spec

(***************************************************************************)
(* The coroutines of waitForThreadSync.  Each goes once from the caller    *)
(* into the lowest queue of the thread that is waited for, is run there    *)
(* and sets the caller's flag.                                             *)
(***************************************************************************)
CarriesOwn(t) == call[t].phase = "push" /\ call[t].coro = t

WaiterPlaces ==
    \A t \in Waiters :
        /\ \A u \in Threads : call[u].phase = "push" /\ call[u].coro = t => u = t
        /\ CarriesOwn(t) => call[t].target = WaitsFor[t]
        /\ t \notin waited => ~CarriesOwn(t) /\ ~Queued(t) /\ ~Running(t) /\ ~waitFlag[t]
        /\ CarriesOwn(t) => ~Queued(t) /\ ~Running(t) /\ ~waitFlag[t]
        /\ Queued(t) => ~Running(t) /\ ~waitFlag[t]

QueuesByPriority ==
    \A c \in Coroutines, s \in Specials, p \in Priorities, i \in Nat :
        At(c, s, p, i) => p = QueueOf(c)

WaitersQueuedOnce ==
    \A t \in Waiters, r, s \in Specials, p, q \in Priorities, i, k \in Nat :
        At(t, r, p, i) /\ At(t, s, q, k) => r = s /\ p = q /\ i = k

\* The jobs a call found are behind it, or the coroutine of the call is behind
\* them in the queue of lowest priority.
Behind(t, j) ==
    \/ CarriesOwn(t)
    \/ \E k \in Nat :
          /\ At(t, WaitsFor[t], PriorityLow, k)
          /\ \/ cur[WaitsFor[t]] = j
             \/ \E i \in Nat : i < k /\ At(j, WaitsFor[t], PriorityLow, i)

EarlierBehind ==
    \A t \in Waiters : \A j \in earlier[t] : j \in LowJobs(WaitsFor[t]) /\ Behind(t, j)

EarlierInv ==
    /\ PlaceInv
    /\ WaiterPlaces
    /\ QueuesByPriority
    /\ WaitersQueuedOnce
    /\ EarlierBehind

LEMMA WaiterFacts ==
  /\ PriorityLow \in Priorities
  /\ \A c \in Coroutines : QueueOf(c) \in Priorities
  /\ \A t \in Waiters : /\ t \in Threads /\ t \in Coroutines /\ t \notin Jobs /\ t # NoJob
                        /\ WaitsFor[t] \in Specials /\ QueueOf(t) = PriorityLow
  /\ \A j \in Jobs : j \in Coroutines /\ j # NoJob /\ QueueOf(j) = PriorityOf[j]
  BY SpecialAssumption DEF PriorityLow, Priorities, Coroutines, QueueOf

LEMMA AppendEntries ==
  ASSUME NEW q \in Seq(Coroutines), NEW c \in Coroutines
  PROVE  /\ Len(q) \in Nat /\ Len(Append(q, c)) = Len(q) + 1
         /\ \A i \in 1 .. Len(q) : Append(q, c)[i] = q[i]
         /\ Append(q, c)[Len(q) + 1] = c
  OBVIOUS

\* What a step of the caller, or of the thread, does to the queues.
PushesTo(t, c, v, r) ==
    Push(t) /\ c = call[t].coro /\ v = call[t].target /\ r = QueueOf(c)

LEMMA PushEntries ==
  ASSUME TypeInv, NEW t \in Threads, NEW c \in Coroutines, NEW v \in Specials, NEW r \in Priorities,
         PushesTo(t, c, v, r)
  PROVE  \E n \in Nat :
            /\ n = Len(jobQ[v][r]) + 1
            /\ \A k \in Coroutines, s \in Specials, p \in Priorities, i \in Nat :
                  At(k, s, p, i)' <=> At(k, s, p, i) \/ (k = c /\ s = v /\ p = r /\ i = n)
  <1>1. jobQ' = [jobQ EXCEPT ![v][r] = Append(@, c)]
    BY DEF Push, PushesTo
  <1>2. \A s \in Specials, p \in Priorities :
           jobQ[s][p] \in Seq(Coroutines) /\ (s # v \/ p # r => jobQ'[s][p] = jobQ[s][p])
    BY <1>1 DEF TypeInv, TypeOK
  <1>4. jobQ[v][r] \in Seq(Coroutines) /\ jobQ'[v][r] = Append(jobQ[v][r], c)
    BY <1>1 DEF TypeInv, TypeOK
  <1>5. /\ Len(jobQ[v][r]) \in Nat /\ Len(jobQ'[v][r]) = Len(jobQ[v][r]) + 1
        /\ \A i \in 1 .. Len(jobQ[v][r]) : jobQ'[v][r][i] = jobQ[v][r][i]
        /\ jobQ'[v][r][Len(jobQ[v][r]) + 1] = c
    BY <1>4, AppendEntries
  <1>n. PICK n \in Nat : n = Len(jobQ[v][r]) + 1
    BY <1>5
  <1>3. \A k \in Coroutines, s \in Specials, p \in Priorities, i \in Nat :
           At(k, s, p, i)' <=> At(k, s, p, i) \/ (k = c /\ s = v /\ p = r /\ i = n)
    <2> SUFFICES ASSUME NEW k \in Coroutines, NEW s \in Specials, NEW p \in Priorities, NEW i \in Nat
                 PROVE  At(k, s, p, i)' <=> At(k, s, p, i) \/ (k = c /\ s = v /\ p = r /\ i = n)
      OBVIOUS
    <2>1. CASE s = v /\ p = r
      <3>1. CASE i \in 1 .. Len(jobQ[v][r])
        BY <2>1, <3>1, <1>5, <1>n DEF At
      <3>2. CASE i = n
        BY <2>1, <3>2, <1>5, <1>n DEF At
      <3>3. CASE i # n /\ i \notin 1 .. Len(jobQ[v][r])
        BY <2>1, <3>3, <1>5, <1>n DEF At
      <3> QED
        BY <3>1, <3>2, <3>3
    <2>2. CASE s # v \/ p # r
      BY <2>2, <1>2 DEF At
    <2> QED
      BY <2>1, <2>2
  <1> QED
    BY <1>n, <1>3

LEMMA TakeEntries ==
  ASSUME TypeInv, NEW s \in Specials, TakeJob(s), NEW r \in Priorities, r = prio[s]
  PROVE  /\ At(Head(jobQ[s][r]), s, r, 1)
         /\ \A k \in Coroutines, u \in Specials, p \in Priorities, i \in Nat :
               At(k, u, p, i)' <=> IF u = s /\ p = r THEN i > 0 /\ At(k, u, p, i + 1)
                                                     ELSE At(k, u, p, i)
  <1>1. jobQ[s][r] # <<>> /\ jobQ' = [jobQ EXCEPT ![s][r] = Tail(jobQ[s][r])]
    BY DEF TakeJob
  <1>2. /\ \A u \in Specials, p \in Priorities :
              jobQ[u][p] \in Seq(Coroutines) /\ (u # s \/ p # r => jobQ'[u][p] = jobQ[u][p])
        /\ jobQ'[s][r] = Tail(jobQ[s][r])
    BY <1>1 DEF TypeInv, TypeOK
  <1>3. At(Head(jobQ[s][r]), s, r, 1)
    BY <1>1, <1>2 DEF At
  <1>4. ASSUME NEW k \in Coroutines, NEW u \in Specials, NEW p \in Priorities, NEW i \in Nat
        PROVE  At(k, u, p, i)' <=> IF u = s /\ p = r THEN i > 0 /\ At(k, u, p, i + 1)
                                                     ELSE At(k, u, p, i)
    <2>1. CASE u = s /\ p = r
      <3>1. jobQ[s][r] \in Seq(Coroutines) /\ jobQ[s][r] # <<>> /\ jobQ'[s][r] = Tail(jobQ[s][r])
        BY <1>1, <1>2
      <3>2. /\ Len(Tail(jobQ[s][r])) = Len(jobQ[s][r]) - 1
            /\ \A n \in 1 .. Len(jobQ[s][r]) - 1 : Tail(jobQ[s][r])[n] = jobQ[s][r][n + 1]
        BY <3>1, TailEntries
      <3>3. Len(jobQ[s][r]) \in Nat
        BY <3>1
      <3> QED
        BY <2>1, <3>1, <3>2, <3>3 DEF At
    <2>2. CASE u # s \/ p # r
      BY <2>2, <1>2 DEF At
    <2> QED
      BY <2>1, <2>2
  <1> QED
    BY <1>3, <1>4

\* The steps that move no coroutine into or out of a queue, and no coroutine of
\* a call at all.
LeavesWaiters ==
    /\ UNCHANGED <<jobQ, waitFlag, waited>>
    /\ \A t \in Waiters : Running(t)' <=> Running(t)
    /\ \A t \in Waiters, u \in Threads :
          /\ (call'[u].phase = "push" /\ call'[u].coro = t) <=> (call[u].phase = "push" /\ call[u].coro = t)
          /\ call'[u].phase = "push" /\ call'[u].coro = t => call'[u] = call[u]

LEMMA MostLeaveWaiters ==
  ASSUME PlaceInv, [Next]_vars
  PROVE  \/ LeavesWaiters
         \/ \E t \in Waiters : CallSync(t)
         \/ \E t \in Threads : Push(t)
         \/ \E s \in Specials : TakeJob(s) \/ SetWaitFlag(s)
  <1>0. TypeInv /\ TypeOK /\ HoldsOnlyInRun
    BY DEF PlaceInv, TypeInv
  <1>r. ASSUME UNCHANGED cur PROVE \A t \in Waiters : Running(t)' <=> Running(t)
    BY <1>r DEF Running
  <1>l. ASSUME NEW s \in Specials, cur[s] \in Jobs \cup {NoJob}, cur' = [cur EXCEPT ![s] = NoJob]
        PROVE  \A t \in Waiters : Running(t)' <=> Running(t)
    BY <1>0, <1>l, WaiterFacts DEF Running, TypeOK
  <1>e. ASSUME NEW t \in Threads, NEW j \in Jobs, NEW targets, call[t].phase = "none", Enter(t, j, targets)
        PROVE  /\ UNCHANGED <<jobQ, waitFlag, waited>>
               /\ \A w \in Waiters, u \in Threads :
                     /\ (call'[u].phase = "push" /\ call'[u].coro = w) <=> (call[u].phase = "push" /\ call[u].coro = w)
                     /\ call'[u].phase = "push" /\ call'[u].coro = w => call'[u] = call[u]
    <2>1. UNCHANGED <<jobQ, waitFlag, waited>>
      BY <1>e DEF Enter, syncVars
    <2>2. CASE UNCHANGED call
      BY <2>1, <2>2
    <2>3. CASE \E s \in targets : call' = [call EXCEPT ![t] = [phase |-> "push", coro |-> j, target |-> s]]
      BY <1>0, <1>e, <2>1, <2>3, WaiterFacts DEF TypeOK
    <2> QED
      BY <1>e, <2>2, <2>3 DEF Enter
  <1>1. ASSUME NEW t \in Threads, NEW j \in Jobs, EnqueueJob(t, j) PROVE LeavesWaiters
    BY <1>1, <1>e, <1>r DEF EnqueueJob, CanCall, loopVars, LeavesWaiters
  <1>2. ASSUME NEW s \in Specials, SwitchJobThread(s) PROVE LeavesWaiters
    <2>1. s \in Threads /\ cur[s] \in Jobs /\ call[s].phase = "none"
      BY <1>2 DEF SwitchJobThread, CanCall, Threads
    <2> QED
      BY <1>2, <1>e, <1>l, <2>1 DEF SwitchJobThread, LeavesWaiters
  <1>3. ASSUME NEW s \in Specials, SuspendJob(s) \/ ResumeReturns(s) PROVE LeavesWaiters
    BY <1>3, <1>l DEF SuspendJob, ResumeReturns, NextJob, syncVars, LeavesWaiters
  <1>4. ASSUME NEW t \in Threads, Notify(t) \/ SyncReturned(t) PROVE LeavesWaiters
    <2>1. UNCHANGED <<jobQ, waitFlag, waited, cur>>
      BY <1>4 DEF Notify, SyncReturned, syncVars, loopVars
    <2>2. call[t].phase # "push" /\ call'[t].phase # "push" /\ \A u \in Threads : u # t => call'[u] = call[u]
      BY <1>0, <1>4 DEF Notify, SyncReturned, NotCalling, TypeOK, Calls
    <2> QED
      BY <1>r, <2>1, <2>2 DEF LeavesWaiters
  <1>5. ASSUME \/ \E s \in Specials : \/ NextPriority(s) \/ TestExit(s) \/ WaitForJob(s)
                                      \/ ClearFlag(s) \/ Drain(s) \/ ExitSpecial(s)
               \/ RedirectToMain \/ ShutdownStep \/ UNCHANGED vars
        PROVE  LeavesWaiters
    <2>1. UNCHANGED <<jobQ, waitFlag, waited, cur, call>>
      BY <1>5 DEF NextPriority, TestExit, WaitForJob, ClearFlag, Drain, ExitSpecial, RedirectToMain,
                  ShutdownStep, RequestExit, NotifySpecial, TryShutdown, vars, syncVars, loopVars
    <2> QED
      BY <1>r, <2>1 DEF LeavesWaiters
  <1> QED
    BY <1>1, <1>2, <1>3, <1>4, <1>5 DEF Next, CallStep, SpecialStep, Stopped

LEMMA NextWaiterPlaces ==
  ASSUME PlaceInv, WaiterPlaces, QueuesByPriority, WaitersQueuedOnce, [Next]_vars
  PROVE  WaiterPlaces' /\ QueuesByPriority' /\ WaitersQueuedOnce'
  <1>0. TypeInv /\ TypeOK /\ HoldsOnlyInRun
    BY DEF PlaceInv, TypeInv
  <1>q. ASSUME UNCHANGED jobQ
        PROVE  /\ \A c \in Coroutines, s \in Specials, p \in Priorities, i \in Nat :
                     At(c, s, p, i)' <=> At(c, s, p, i)
               /\ \A c \in Coroutines : Queued(c)' <=> Queued(c)
               /\ QueuesByPriority' /\ WaitersQueuedOnce'
    <2>1. \A c \in Coroutines, s \in Specials, p \in Priorities, i \in Nat :
             At(c, s, p, i)' <=> At(c, s, p, i)
      BY <1>q DEF At
    <2> QED
      BY <2>1, WaiterFacts DEF Queued, QueuesByPriority, WaitersQueuedOnce
  <1>1. CASE LeavesWaiters
    <2>1. \A t \in Waiters : CarriesOwn(t)' <=> CarriesOwn(t)
      BY <1>1, WaiterFacts DEF LeavesWaiters, CarriesOwn
    <2>2. \A t \in Waiters : CarriesOwn(t)' => call'[t] = call[t]
      BY <1>1, WaiterFacts DEF LeavesWaiters, CarriesOwn
    <2>3. WaiterPlaces'
      BY <1>1, <1>q, <2>1, <2>2, WaiterFacts DEF LeavesWaiters, WaiterPlaces
    <2> QED
      BY <1>1, <1>q, <2>3 DEF LeavesWaiters
  <1>2. ASSUME NEW t \in Waiters, CallSync(t) PROVE WaiterPlaces' /\ QueuesByPriority' /\ WaitersQueuedOnce'
    <2>1. /\ UNCHANGED <<jobQ, cur, waitFlag>> /\ waited' = waited \cup {t} /\ t \notin waited
          /\ call[t].phase = "none"
      BY <1>2 DEF CallSync, CanCall, loopVars
    <2>2. /\ call'[t] = [phase |-> "push", coro |-> t, target |-> WaitsFor[t]]
          /\ \A u \in Threads : u # t => call'[u] = call[u]
      BY <1>0, <1>2, WaiterFacts DEF CallSync, TypeOK
    <2>3. \A u \in Waiters : (Running(u)' <=> Running(u)) /\ (u # t => (CarriesOwn(u)' <=> CarriesOwn(u)))
      BY <2>1, <2>2, WaiterFacts DEF Running, CarriesOwn
    <2>4. ASSUME NEW x \in Waiters
          PROVE  /\ \A u \in Threads : call'[u].phase = "push" /\ call'[u].coro = x => u = x
                 /\ CarriesOwn(x)' => call'[x].target = WaitsFor[x]
      BY <2>1, <2>2, WaiterFacts DEF WaiterPlaces, CarriesOwn
    <2>5. WaiterPlaces'
      BY <1>q, <2>1, <2>2, <2>3, <2>4, WaiterFacts DEF WaiterPlaces
    <2> QED
      BY <1>q, <2>1, <2>5
  <1>3. ASSUME NEW t \in Threads, Push(t) PROVE WaiterPlaces' /\ QueuesByPriority' /\ WaitersQueuedOnce'
    <2>1. PICK c \in Coroutines, v \in Specials : c = call[t].coro /\ v = call[t].target
      BY <1>0, <1>3 DEF Push, TypeInv, PushCarries, TypeOK, Calls
    <2>2. PICK r \in Priorities : r = QueueOf(c)
      BY WaiterFacts
    <2>3. PICK n \in Nat :
             /\ n = Len(jobQ[v][r]) + 1
             /\ \A k \in Coroutines, s \in Specials, p \in Priorities, i \in Nat :
                   At(k, s, p, i)' <=> At(k, s, p, i) \/ (k = c /\ s = v /\ p = r /\ i = n)
      BY <1>0, <1>3, <2>1, <2>2, PushEntries DEF PushesTo
    <2>4. /\ UNCHANGED <<cur, waitFlag, waited>>
          /\ call[t].phase = "push" /\ call'[t].phase = "notify"
          /\ \A u \in Threads : u # t => call'[u] = call[u]
      <3>1. call' = [call EXCEPT ![t].phase = "notify"]
        BY <1>3 DEF Push
      <3> QED
        BY <1>0, <1>3, <3>1 DEF Push, syncVars, loopVars, TypeOK, Calls
    <2>5. \A k \in Coroutines : Queued(k)' => Queued(k) \/ k = c
      BY <2>3 DEF Queued
    <2>6. c \in Waiters => t = c /\ CarriesOwn(c) /\ ~Queued(c) /\ ~Running(c) /\ ~waitFlag[c] /\ c \in waited
      BY <2>1, <2>4 DEF WaiterPlaces, CarriesOwn
    <2>7. \A x \in Waiters : /\ Running(x)' <=> Running(x)
                             /\ CarriesOwn(x)' => CarriesOwn(x) /\ x # t /\ x # c
      <3>1. \A x \in Waiters : Running(x)' <=> Running(x)
        BY <2>4 DEF Running
      <3>2. ASSUME NEW x \in Waiters, CarriesOwn(x)' PROVE CarriesOwn(x) /\ x # t /\ x # c
        <4>1. x # t /\ CarriesOwn(x)
          BY <2>4, <3>2, WaiterFacts DEF CarriesOwn
        <4> QED
          BY <2>6, <4>1
      <3> QED
        BY <3>1, <3>2
    <2>8. ASSUME NEW x \in Waiters
          PROVE  /\ \A u \in Threads : call'[u].phase = "push" /\ call'[u].coro = x => u = x
                 /\ CarriesOwn(x)' => call'[x].target = WaitsFor[x]
      <3>1. \A u \in Threads : call'[u].phase = "push" => u # t /\ call'[u] = call[u]
        BY <2>4
      <3> QED
        BY <2>7, <3>1, WaiterFacts DEF WaiterPlaces, CarriesOwn
    <2>9. WaiterPlaces'
      <3> SUFFICES ASSUME NEW x \in Waiters
                   PROVE  /\ x \notin waited' => ~CarriesOwn(x)' /\ ~Queued(x)' /\ ~Running(x)' /\ ~waitFlag'[x]
                          /\ CarriesOwn(x)' => ~Queued(x)' /\ ~Running(x)' /\ ~waitFlag'[x]
                          /\ Queued(x)' => ~Running(x)' /\ ~waitFlag'[x]
        BY <2>8 DEF WaiterPlaces
      <3> QED
        BY <2>4, <2>5, <2>6, <2>7, WaiterFacts DEF WaiterPlaces
    <2>10. QueuesByPriority'
      BY <2>2, <2>3 DEF QueuesByPriority
    <2>11. WaitersQueuedOnce'
      BY <2>3, <2>6, WaiterFacts DEF WaitersQueuedOnce, Queued
    <2> QED
      BY <2>9, <2>10, <2>11
  <1>4. ASSUME NEW s \in Specials, TakeJob(s) PROVE WaiterPlaces' /\ QueuesByPriority' /\ WaitersQueuedOnce'
    <2>1. PICK r \in Priorities : r = prio[s]
      BY <1>0 DEF TypeOK
    <2>2. PICK c \in Coroutines : c = Head(jobQ[s][r])
      BY <1>0, <1>4, <2>1 DEF TakeJob, TypeOK
    <2>3. /\ At(c, s, r, 1)
          /\ \A k \in Coroutines, u \in Specials, p \in Priorities, i \in Nat :
               At(k, u, p, i)' <=> IF u = s /\ p = r THEN i > 0 /\ At(k, u, p, i + 1)
                                                     ELSE At(k, u, p, i)
      BY <1>0, <1>4, <2>1, <2>2, TakeEntries
    <2>4. UNCHANGED <<call, waitFlag, waited>> /\ cur' = [cur EXCEPT ![s] = c]
      BY <1>4, <2>1, <2>2 DEF TakeJob, syncVars
    <2>5. \A k \in Coroutines : Queued(k)' => Queued(k)
      <3> SUFFICES ASSUME NEW k \in Coroutines, NEW u \in Specials, NEW p \in Priorities, NEW i \in Nat,
                          At(k, u, p, i)'
                   PROVE  Queued(k)
        BY DEF Queued
      <3>1. At(k, u, p, i) \/ At(k, u, p, i + 1)
        BY <2>3
      <3>2. i + 1 \in Nat
        OBVIOUS
      <3> QED
        BY <3>1, <3>2 DEF Queued
    <2>6. Queued(c)
      BY <2>3 DEF Queued
    <2>7. c \in Waiters => ~Queued(c)'
      <3> SUFFICES ASSUME c \in Waiters, NEW u \in Specials, NEW p \in Priorities, NEW i \in Nat,
                          At(c, u, p, i)'
                   PROVE  FALSE
        BY DEF Queued
      <3>1. CASE u = s /\ p = r
        <4>1. i > 0 /\ At(c, u, p, i + 1) /\ i + 1 \in Nat /\ 1 \in Nat
          BY <2>3, <3>1
        <4>2. i + 1 = 1
          BY <2>3, <4>1 DEF WaitersQueuedOnce
        <4> QED
          BY <4>1, <4>2
      <3>2. CASE u # s \/ p # r
        BY <2>3, <3>2 DEF WaitersQueuedOnce
      <3> QED
        BY <3>1, <3>2
    <2>8. \A x \in Waiters : Running(x)' => Running(x) \/ x = c
      BY <1>0, <2>4 DEF Running, TypeOK
    <2>9. \A x \in Waiters : CarriesOwn(x)' <=> CarriesOwn(x)
      BY <2>4 DEF CarriesOwn
    <2>10. WaiterPlaces'
      <3> SUFFICES ASSUME NEW x \in Waiters
                   PROVE  /\ x \notin waited' => ~CarriesOwn(x)' /\ ~Queued(x)' /\ ~Running(x)' /\ ~waitFlag'[x]
                          /\ CarriesOwn(x)' => ~Queued(x)' /\ ~Running(x)' /\ ~waitFlag'[x]
                          /\ Queued(x)' => ~Running(x)' /\ ~waitFlag'[x]
        BY <2>4, <2>9 DEF WaiterPlaces
      <3>1. Queued(x)' => Queued(x)
        BY <2>5, WaiterFacts
      <3> QED
        BY <2>4, <2>6, <2>7, <2>8, <2>9, <3>1 DEF WaiterPlaces
    <2>11. QueuesByPriority'
      <3> SUFFICES ASSUME NEW k \in Coroutines, NEW u \in Specials, NEW p \in Priorities, NEW i \in Nat,
                          At(k, u, p, i)'
                   PROVE  p = QueueOf(k)
        BY DEF QueuesByPriority
      <3>1. At(k, u, p, i) \/ At(k, u, p, i + 1)
        BY <2>3
      <3> QED
        BY <3>1 DEF QueuesByPriority
    <2>12. WaitersQueuedOnce'
      <3> SUFFICES ASSUME NEW x \in Waiters, NEW u \in Specials, NEW w \in Specials,
                          NEW p \in Priorities, NEW q \in Priorities, NEW i \in Nat, NEW k \in Nat,
                          At(x, u, p, i)', At(x, w, q, k)'
                   PROVE  u = w /\ p = q /\ i = k
        BY DEF WaitersQueuedOnce
      <3>1. x \in Coroutines
        BY WaiterFacts
      <3>2. PICK i1 \in Nat, k1 \in Nat :
               /\ At(x, u, p, i1) /\ i1 = IF u = s /\ p = r THEN i + 1 ELSE i
               /\ At(x, w, q, k1) /\ k1 = IF w = s /\ q = r THEN k + 1 ELSE k
        BY <2>3, <3>1
      <3>3. u = w /\ p = q /\ i1 = k1
        BY <3>2 DEF WaitersQueuedOnce
      <3> QED
        BY <3>2, <3>3
    <2> QED
      BY <2>10, <2>11, <2>12
  <1>5. ASSUME NEW s \in Specials, SetWaitFlag(s)
        PROVE  WaiterPlaces' /\ QueuesByPriority' /\ WaitersQueuedOnce'
    <2>1. PICK t \in Waiters : t = cur[s]
      BY <1>5 DEF SetWaitFlag
    <2>2. /\ UNCHANGED <<jobQ, call, waited>> /\ cur' = [cur EXCEPT ![s] = NoJob]
          /\ waitFlag' = [waitFlag EXCEPT ![t] = TRUE]
      BY <1>5, <2>1 DEF SetWaitFlag, NextJob
    <2>3. Running(t) /\ \A x \in Waiters : /\ Running(x)' => Running(x)
                                           /\ x # t => waitFlag'[x] = waitFlag[x]
                                           /\ CarriesOwn(x)' <=> CarriesOwn(x)
      BY <1>0, <2>1, <2>2, WaiterFacts DEF Running, CarriesOwn, TypeOK
    <2>4. WaiterPlaces'
      <3> SUFFICES ASSUME NEW x \in Waiters
                   PROVE  /\ x \notin waited' => ~CarriesOwn(x)' /\ ~Queued(x)' /\ ~Running(x)' /\ ~waitFlag'[x]
                          /\ CarriesOwn(x)' => ~Queued(x)' /\ ~Running(x)' /\ ~waitFlag'[x]
                          /\ Queued(x)' => ~Running(x)' /\ ~waitFlag'[x]
        BY <2>2, <2>3 DEF WaiterPlaces
      <3>1. Queued(x)' <=> Queued(x)
        BY <1>q, <2>2, WaiterFacts
      <3>2. x = t => x \in waited /\ ~CarriesOwn(x) /\ ~Queued(x)
        BY <2>3 DEF WaiterPlaces
      <3>3. x # t => waitFlag'[x] = waitFlag[x]
        BY <2>3
      <3>4. CASE x = t
        BY <2>2, <2>3, <3>1, <3>2, <3>4
      <3>5. CASE x # t
        BY <2>2, <2>3, <3>1, <3>3, <3>5 DEF WaiterPlaces
      <3> QED
        BY <3>4, <3>5
    <2> QED
      BY <1>q, <2>2, <2>4
  <1> QED
    BY <1>1, <1>2, <1>3, <1>4, <1>5, MostLeaveWaiters

\* The jobs a call found are still in its thread's queue, or just running; if
\* the coroutine of the call is in the queue they are ahead of it.
LEMMA StayAhead ==
  ASSUME EarlierInv, [Next]_vars, NEW t \in Waiters, NEW j \in Jobs, NEW s \in Specials, s = WaitsFor[t],
         NEW r \in Priorities, r = PriorityLow,
         Behind(t, j), cur[s] = j \/ \E i \in Nat : At(j, s, r, i),
         cur'[s] = j \/ \E i \in Nat : At(j, s, r, i)'
  PROVE  Behind(t, j)'
  <1>0. TypeInv /\ TypeOK /\ HoldsOnlyInRun /\ QueuedOnce /\ HeldInOneKind /\ PlaceInv /\ WaiterPlaces
    BY DEF EarlierInv, PlaceInv, TypeInv, JobsHeldOnce
  <1>w. t \in Coroutines /\ j \in Coroutines /\ t \in Threads
    BY WaiterFacts
  <1> SUFFICES \/ CarriesOwn(t)'
               \/ \E k \in Nat : /\ At(t, s, r, k)'
                                 /\ cur'[s] = j \/ \E i \in Nat : i < k /\ At(j, s, r, i)'
    BY DEF Behind
  <1>b. \/ CarriesOwn(t)
        \/ \E k \in Nat : /\ At(t, s, r, k)
                          /\ cur[s] = j \/ \E i \in Nat : i < k /\ At(j, s, r, i)
    BY DEF Behind
  <1>u. /\ cur[s] = j => \A i \in Nat : ~At(j, s, r, i)
        /\ \A i, k \in Nat : At(j, s, r, i) /\ At(j, s, r, k) => i = k
    BY <1>0 DEF HeldInOneKind, Running, Queued, QueuedOnce
  <1>1. CASE jobQ' = jobQ /\ (CarriesOwn(t) => CarriesOwn(t)')
    <2>1. \A c \in Coroutines, i \in Nat : At(c, s, r, i)' <=> At(c, s, r, i)
      BY <1>1 DEF At
    <2>2. CASE CarriesOwn(t)
      BY <1>1, <2>2
    <2>3. CASE ~CarriesOwn(t)
      BY <1>b, <1>u, <1>w, <2>1, <2>3
    <2> QED
      BY <2>2, <2>3
  <1>2. ASSUME NEW u \in Threads, Push(u)
        PROVE  \/ CarriesOwn(t)'
               \/ \E k \in Nat : /\ At(t, s, r, k)'
                                 /\ cur'[s] = j \/ \E i \in Nat : i < k /\ At(j, s, r, i)'
    <2>1. PICK c \in Coroutines, v \in Specials : c = call[u].coro /\ v = call[u].target
      BY <1>0, <1>2 DEF Push, TypeInv, PushCarries, TypeOK, Calls
    <2>2. PICK q \in Priorities : q = QueueOf(c)
      BY WaiterFacts
    <2>3. PICK n \in Nat :
             /\ n = Len(jobQ[v][q]) + 1
             /\ \A k \in Coroutines, x \in Specials, p \in Priorities, i \in Nat :
                   At(k, x, p, i)' <=> At(k, x, p, i) \/ (k = c /\ x = v /\ p = q /\ i = n)
      BY <1>0, <1>2, <2>1, <2>2, PushEntries DEF PushesTo
    <2>4. UNCHANGED cur /\ \A x \in Threads : x # u => call'[x] = call[x]
      BY <1>0, <1>2 DEF Push, loopVars, TypeOK
    <2>5. CASE CarriesOwn(t) /\ u = t
      <3>1. c = t /\ v = s /\ q = r
        BY <1>0, <2>1, <2>2, <2>5, WaiterFacts DEF CarriesOwn, WaiterPlaces
      <3>2. At(t, s, r, n)'
        BY <1>w, <2>3, <3>1
      <3>3. \A i \in Nat : At(j, s, r, i) => i < n /\ At(j, s, r, i)'
        <4>1. Len(jobQ[s][r]) \in Nat
          BY <1>0 DEF TypeOK
        <4> QED
          BY <1>w, <2>3, <3>1, <4>1 DEF At
      <3> QED
        BY <2>4, <3>2, <3>3
    <2>6. CASE CarriesOwn(t) /\ u # t
      BY <1>w, <2>4, <2>6 DEF CarriesOwn
    <2>7. CASE ~CarriesOwn(t)
      <3>1. \A x \in Coroutines, i \in Nat : At(x, s, r, i) => At(x, s, r, i)'
        BY <2>3
      <3> QED
        BY <1>b, <1>w, <2>4, <2>7, <3>1
    <2> QED
      BY <2>5, <2>6, <2>7
  <1>3. ASSUME NEW u \in Specials, TakeJob(u)
        PROVE  \/ CarriesOwn(t)'
               \/ \E k \in Nat : /\ At(t, s, r, k)'
                                 /\ cur'[s] = j \/ \E i \in Nat : i < k /\ At(j, s, r, i)'
    <2>1. PICK q \in Priorities : q = prio[u]
      BY <1>0 DEF TypeOK
    <2>2. PICK c \in Coroutines : c = Head(jobQ[u][q])
      BY <1>0, <1>3, <2>1 DEF TakeJob, TypeOK
    <2>3. /\ At(c, u, q, 1)
          /\ \A k \in Coroutines, x \in Specials, p \in Priorities, i \in Nat :
               At(k, x, p, i)' <=> IF x = u /\ p = q THEN i > 0 /\ At(k, x, p, i + 1)
                                                     ELSE At(k, x, p, i)
      BY <1>0, <1>3, <2>1, <2>2, TakeEntries
    <2>4. UNCHANGED call /\ cur' = [cur EXCEPT ![u] = c] /\ cur[u] = NoJob
      BY <1>0, <1>3, <2>1, <2>2 DEF TakeJob, HoldsOnlyInRun
    <2>5. CASE CarriesOwn(t)
      BY <2>4, <2>5 DEF CarriesOwn
    <2>6. CASE ~CarriesOwn(t) /\ u = s /\ q = r
      <3>1. PICK k \in Nat, i \in Nat : At(t, s, r, k) /\ i < k /\ At(j, s, r, i)
        BY <1>b, <2>4, <2>6, WaiterFacts
      <3>2. i > 0
        <4>1. Len(jobQ[s][r]) \in Nat
          BY <1>0 DEF TypeOK
        <4> QED
          BY <3>1, <4>1 DEF At
      <3>3. k - 1 \in Nat /\ k - 1 > 0 /\ (k - 1) + 1 = k
        BY <3>1, <3>2
      <3>4. At(t, s, r, k - 1)'
        BY <1>w, <2>3, <2>6, <3>1, <3>3
      <3>5. CASE i = 1
        <4>1. c = j
          BY <2>3, <2>6, <3>1, <3>5 DEF At
        <4>2. cur'[s] = j
          BY <1>0, <2>4, <2>6, <4>1 DEF TypeOK
        <4> QED
          BY <3>3, <3>4, <4>2
      <3>6. CASE i # 1
        <4>1. i - 1 \in Nat /\ i - 1 > 0 /\ (i - 1) + 1 = i /\ i - 1 < k - 1
          BY <3>1, <3>2, <3>6
        <4>2. At(j, s, r, i - 1)'
          BY <1>w, <2>3, <2>6, <3>1, <4>1
        <4> QED
          BY <3>3, <3>4, <4>1, <4>2
      <3> QED
        BY <3>5, <3>6
    <2>7. CASE ~CarriesOwn(t) /\ (u # s \/ q # r)
      <3>1. \A x \in Coroutines, i \in Nat : At(x, s, r, i)' <=> At(x, s, r, i)
        BY <2>3, <2>7
      <3> QED
        BY <1>b, <1>u, <1>w, <2>7, <3>1
    <2> QED
      BY <2>5, <2>6, <2>7
  <1>4. CASE LeavesWaiters
    BY <1>1, <1>4, <1>w DEF LeavesWaiters, CarriesOwn
  <1>5. ASSUME NEW u \in Waiters, CallSync(u) PROVE jobQ' = jobQ /\ (CarriesOwn(t) => CarriesOwn(t)')
    <2>1. UNCHANGED jobQ /\ call[u].phase = "none"
      BY <1>5 DEF CallSync, CanCall
    <2>2. \A x \in Threads : x # u => call'[x] = call[x]
      BY <1>0, <1>5 DEF CallSync, TypeOK
    <2> QED
      BY <1>w, <2>1, <2>2 DEF CarriesOwn
  <1>6. ASSUME NEW u \in Specials, SetWaitFlag(u) PROVE jobQ' = jobQ /\ (CarriesOwn(t) => CarriesOwn(t)')
    BY <1>6 DEF SetWaitFlag, CarriesOwn
  <1> QED
    BY <1>0, <1>1, <1>2, <1>3, <1>4, <1>5, <1>6, MostLeaveWaiters

\* A job of lowest priority that a thread has queued is in its lowest queue.
LEMMA LowJobsQueued ==
  ASSUME TypeOK, QueuesByPriority, NEW j, NEW s \in Specials, j \in LowJobs(s),
         NEW r \in Priorities, r = PriorityLow
  PROVE  j \in Jobs /\ (cur[s] = j \/ \E i \in Nat : At(j, s, r, i))
  <1>1. j \in Jobs /\ PriorityOf[j] = PriorityLow /\ (InQueue(s, j) \/ cur[s] = j)
    BY DEF LowJobs
  <1>2. ASSUME InQueue(s, j) PROVE \E i \in Nat : At(j, s, r, i)
    <2>1. PICK p \in Priorities : \E i \in 1 .. Len(jobQ[s][p]) : jobQ[s][p][i] = j
      BY <1>2 DEF InQueue
    <2>2. PICK i \in 1 .. Len(jobQ[s][p]) : jobQ[s][p][i] = j
      BY <2>1
    <2>3. Len(jobQ[s][p]) \in Nat
      BY DEF TypeOK
    <2>4. i \in Nat /\ At(j, s, p, i)
      BY <2>2, <2>3 DEF At
    <2>5. p = r
      BY <1>1, <2>4, WaiterFacts DEF QueuesByPriority
    <2> QED
      BY <2>4, <2>5
  <1> QED
    BY <1>1, <1>2

\* A call begins with its coroutine in the caller's hands.
LEMMA CallBegins ==
  ASSUME PlaceInv, [Next]_vars, NEW t \in Waiters, t \notin waited, t \in waited'
  PROVE  CarriesOwn(t)' /\ UNCHANGED <<jobQ, cur>>
  <1>0. TypeOK
    BY DEF PlaceInv, TypeInv
  <1>1. ~UNCHANGED waited
    OBVIOUS
  <1>2. ~LeavesWaiters /\ ~(\E u \in Threads : Push(u)) /\ ~(\E s \in Specials : TakeJob(s) \/ SetWaitFlag(s))
    BY <1>1 DEF LeavesWaiters, Push, TakeJob, SetWaitFlag, syncVars
  <1>3. PICK u \in Waiters : CallSync(u)
    BY <1>2, MostLeaveWaiters
  <1>4. u = t
    BY <1>3 DEF CallSync
  <1> QED
    BY <1>0, <1>3, <1>4, WaiterFacts DEF CallSync, CarriesOwn, TypeOK, loopVars

LEMMA NextEarlier == EarlierInv /\ [MCNext]_<<vars, earlier>> => EarlierInv'
  <1> SUFFICES ASSUME EarlierInv, [MCNext]_<<vars, earlier>> PROVE EarlierInv'
    OBVIOUS
  <1>0. PlaceInv /\ WaiterPlaces /\ QueuesByPriority /\ WaitersQueuedOnce /\ EarlierBehind /\ [Next]_vars
    BY DEF EarlierInv, MCNext
  <1>1. PlaceInv' /\ WaiterPlaces' /\ QueuesByPriority' /\ WaitersQueuedOnce'
    BY <1>0, NextPlaces, NextWaiterPlaces
  <1>r. PICK r \in Priorities : r = PriorityLow
    BY WaiterFacts
  <1>2. ASSUME NEW t \in Waiters, NEW j \in earlier'[t] PROVE j \in LowJobs(WaitsFor[t])' /\ Behind(t, j)'
    <2>1. PICK s \in Specials : s = WaitsFor[t]
      BY WaiterFacts
    <2>2. CASE MCNext /\ t \in waited' \ waited
      <3>1. CarriesOwn(t)' /\ UNCHANGED <<jobQ, cur>>
        BY <1>0, <2>2, CallBegins
      <3>2. j \in LowJobs(s)
        BY <1>2, <2>1, <2>2 DEF MCNext
      <3>3. j \in LowJobs(s)'
        BY <3>1, <3>2 DEF LowJobs, InQueue
      <3> QED
        BY <2>1, <3>1, <3>3 DEF Behind
    <2>3. CASE ~(MCNext /\ t \in waited' \ waited)
      <3>1. j \in earlier[t] /\ j \in LowJobs(s)'
        <4>1. CASE MCNext
          BY <1>2, <2>1, <2>3, <4>1 DEF MCNext
        <4>2. CASE UNCHANGED <<vars, earlier>>
          <5>1. j \in earlier[t] /\ j \in LowJobs(s) /\ UNCHANGED <<jobQ, cur>>
            BY <1>0, <1>2, <2>1, <4>2 DEF EarlierBehind, vars, loopVars
          <5> QED
            BY <5>1 DEF LowJobs, InQueue
        <4> QED
          BY <4>1, <4>2
      <3>2. Behind(t, j) /\ j \in LowJobs(s)
        BY <1>0, <2>1, <3>1 DEF EarlierBehind
      <3>3. j \in Jobs /\ (cur[s] = j \/ \E i \in Nat : At(j, s, r, i))
        BY <1>0, <1>r, <3>2, LowJobsQueued DEF PlaceInv, TypeInv
      <3>4. TypeOK' /\ QueuesByPriority'
        BY <1>1 DEF PlaceInv, TypeInv
      <3>5. cur'[s] = j \/ \E i \in Nat : At(j, s, r, i)'
        <4>1. j \in Jobs /\ PriorityOf[j] = PriorityLow /\ (InQueue(s, j)' \/ cur'[s] = j)
          BY <3>1 DEF LowJobs
        <4>2. ASSUME InQueue(s, j)' PROVE \E i \in Nat : At(j, s, r, i)'
          <5>1. PICK p \in Priorities : \E i \in 1 .. Len(jobQ'[s][p]) : jobQ'[s][p][i] = j
            BY <4>2 DEF InQueue
          <5>2. PICK i \in 1 .. Len(jobQ'[s][p]) : jobQ'[s][p][i] = j
            BY <5>1
          <5>3. Len(jobQ'[s][p]) \in Nat
            BY <3>4 DEF TypeOK
          <5>4. i \in Nat /\ At(j, s, p, i)'
            BY <5>2, <5>3 DEF At
          <5>5. p = r
            BY <1>r, <3>4, <4>1, <5>4, WaiterFacts DEF QueuesByPriority
          <5> QED
            BY <5>4, <5>5
        <4> QED
          BY <4>1, <4>2
      <3>6. Behind(t, j)'
        BY <1>0, <1>r, <2>1, <3>2, <3>3, <3>5, StayAhead
      <3> QED
        BY <2>1, <3>1, <3>6
    <2> QED
      BY <2>2, <2>3
  <1>3. EarlierBehind'
    BY <1>2 DEF EarlierBehind
  <1> QED
    BY <1>1, <1>3 DEF EarlierInv

\* When waitForThreadSync returns, the jobs of lowest priority that the thread
\* had queued, or was running, when the call was made are behind it, for any
\* number of threads, of calls at the same time, and of jobs.
THEOREM EarlierJobsBehind == MCSpec => []EarlierJobsRan
  <1>1. MCInit => EarlierInv
    <2> SUFFICES ASSUME MCInit PROVE EarlierInv
      OBVIOUS
    <2>1. PlaceInv /\ \A t \in Waiters : earlier[t] = {}
      BY InitPlaces DEF MCInit
    <2>2. \A s \in Specials, p \in Priorities : jobQ[s][p] = <<>>
      BY DEF MCInit, Init
    <2>3. \A c \in Coroutines, s \in Specials, p \in Priorities, i \in Nat : ~At(c, s, p, i)
      BY <2>2 DEF At
    <2>4. QueuesByPriority /\ WaitersQueuedOnce /\ \A t \in Waiters : ~Queued(t)
      BY <2>3, WaiterFacts DEF QueuesByPriority, WaitersQueuedOnce, Queued
    <2>5. \A u \in Threads : call[u].phase = "none"
      BY DEF MCInit, Init, NotCalling
    <2>6. \A t \in Waiters : ~Running(t) /\ ~waitFlag[t]
      BY WaiterFacts DEF MCInit, Init, Running
    <2>7. WaiterPlaces
      BY <2>4, <2>5, <2>6, WaiterFacts DEF WaiterPlaces, CarriesOwn
    <2> QED
      BY <2>1, <2>4, <2>7 DEF EarlierInv, EarlierBehind
  <1>2. ASSUME EarlierInv PROVE EarlierJobsRan
    <2> SUFFICES ASSUME NEW t \in Waiters, waitFlag[t], call[t].phase = "wait", NEW j \in earlier[t] PROVE FALSE
      BY DEF EarlierJobsRan
    <2>1. PICK s \in Specials, r \in Priorities : s = WaitsFor[t] /\ r = PriorityLow
      BY WaiterFacts
    <2>2. ~CarriesOwn(t)
      BY DEF CarriesOwn
    <2>3. PICK k \in Nat : At(t, s, r, k)
      BY <1>2, <2>1, <2>2 DEF EarlierInv, EarlierBehind, Behind
    <2>4. Queued(t)
      BY <2>3 DEF Queued
    <2> QED
      BY <1>2, <2>4 DEF EarlierInv, WaiterPlaces
  <1> QED
    BY <1>1, <1>2, NextEarlier, PTL DEF MCSpec
=============================================================================
