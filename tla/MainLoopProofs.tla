--------------------------- MODULE MainLoopProofs ---------------------------
(***************************************************************************)
(* Safety of the main loop, for every number of threads, jobs and          *)
(* priorities: the frame fence divides the coroutines of a frame from      *)
(* those of the next one, whoever enqueues while the frame runs.           *)
(***************************************************************************)
EXTENDS MainLoop, SequenceTheorems, TLAPS

Entries == Coroutines \cup {FrameFence}

(***************************************************************************)
(* The inductive invariant: first where coroutines are, then the frame.    *)
(***************************************************************************)
\* x may be enqueued: it is an idle job, or the wait of a thread that does not
\* wait for the main thread.
Free(x) == x \in idle \/ (x \in PoolThreads /\ thread[x] # "waiting")

\* A coroutine that is queued is in the queue of its priority, once, and is
\* neither free nor being resumed.
QueuedOnce ==
    \A p \in Priorities : \A i \in DOMAIN mainThreadJobs[p] :
        mainThreadJobs[p][i] \in Coroutines =>
            /\ QueueOf(mainThreadJobs[p][i]) = p
            /\ ~Free(mainThreadJobs[p][i])
            /\ mainThreadJobs[p][i] # cur
            /\ \A j \in DOMAIN mainThreadJobs[p] : mainThreadJobs[p][j] = mainThreadJobs[p][i] => j = i

ResumedInRun ==
    /\ pc = "run" <=> cur # NoJob
    /\ cur # NoJob => ~Free(cur)

\* The fence of priority p is not in the queue.
NoFence(p) == \A i \in DOMAIN mainThreadJobs[p] : mainThreadJobs[p][i] # FrameFence

\* It is ahead: in the queue once, after what is due and before all else.
Ahead(p) ==
    /\ ~frameEnded[p]
    /\ \E k \in DOMAIN mainThreadJobs[p] :
          /\ mainThreadJobs[p][k] = FrameFence
          /\ \A i \in DOMAIN mainThreadJobs[p] :
                /\ i < k => mainThreadJobs[p][i] \in due
                /\ i > k => mainThreadJobs[p][i] \notin due /\ mainThreadJobs[p][i] # FrameFence

\* It was reached: nothing that is due is left.
Reached(p) ==
    /\ frameEnded[p]
    /\ \A i \in DOMAIN mainThreadJobs[p] :
          mainThreadJobs[p][i] \notin due /\ mainThreadJobs[p][i] # FrameFence

FencesStand ==
    /\ pc \in {"begin", "joined", "clearTick"} => \A p \in Priorities : NoFence(p)
    /\ pc = "fence" => \A p \in Priorities : /\ ~frameEnded[p]
                                             /\ p < prio => Ahead(p)
                                             /\ p >= prio => NoFence(p)
    /\ pc \in {"tick", "scan", "run"} => \A p \in Priorities : Ahead(p) \/ Reached(p)
    /\ pc = "tick" => prio = 0
    /\ pc = "scan" => \A p \in Priorities : p < prio => frameEnded[p]
    /\ pc = "test" => \A p \in Priorities : Reached(p)
    /\ pc = "run" => cur \in due

\* shutdown takes the tick away, and fences are inserted only while it is there.
TickUntilShutdown ==
    /\ pc = "fence" => mainThreadTick
    /\ mainThreadTick => ~bExitMain[1] /\ pc \notin {"setExit0", "setExit1", "tryShutdown", "down"}

MainInv ==
    /\ TypeOK
    /\ QueuedOnce
    /\ ResumedInRun
    /\ TickUntilShutdown
    /\ mainThreadTick => FencesStand

(***************************************************************************)
(* The queues.                                                             *)
(***************************************************************************)
LEMMA CoroutineFacts ==
  /\ FrameFence \notin Coroutines /\ NoJob \notin Coroutines
  /\ \A x \in Coroutines : QueueOf(x) \in Priorities
  BY MainAssumption DEF Coroutines, QueueOf, Priorities

\* What is enqueued comes after all that is in its queue.
LEMMA EnqueueEntries ==
  ASSUME TypeOK, NEW p \in Priorities, NEW x \in Entries,
         mainThreadJobs' = [mainThreadJobs EXCEPT ![p] = Append(@, x)]
  PROVE  /\ mainThreadJobs' \in [Priorities -> Seq(Entries)]
         /\ \A r \in Priorities : r # p => mainThreadJobs'[r] = mainThreadJobs[r]
         /\ \E n \in Nat :
               /\ DOMAIN mainThreadJobs[p] = 1 .. n /\ DOMAIN mainThreadJobs'[p] = 1 .. n + 1
               /\ \A i \in 1 .. n : mainThreadJobs'[p][i] = mainThreadJobs[p][i]
               /\ mainThreadJobs'[p][n + 1] = x
  <1>1. mainThreadJobs[p] \in Seq(Entries) /\ mainThreadJobs'[p] = Append(mainThreadJobs[p], x)
    BY DEF TypeOK, Entries
  <1>2. /\ mainThreadJobs' \in [Priorities -> Seq(Entries)]
        /\ \A r \in Priorities : r # p => mainThreadJobs'[r] = mainThreadJobs[r]
    BY <1>1 DEF TypeOK, Entries
  <1>3. /\ Len(mainThreadJobs[p]) \in Nat
        /\ DOMAIN mainThreadJobs[p] = 1 .. Len(mainThreadJobs[p])
        /\ DOMAIN mainThreadJobs'[p] = 1 .. Len(mainThreadJobs[p]) + 1
        /\ \A i \in 1 .. Len(mainThreadJobs[p]) : mainThreadJobs'[p][i] = mainThreadJobs[p][i]
        /\ mainThreadJobs'[p][Len(mainThreadJobs[p]) + 1] = x
    BY <1>1, AppendProperties, LenProperties
  <1>4. QED
    BY <1>2, <1>3

\* What is dequeued was first, and the order of the rest is kept.
LEMMA TailEntries ==
  ASSUME NEW S, NEW s \in Seq(S), s # <<>>
  PROVE  /\ Tail(s) \in Seq(S) /\ Head(s) = s[1] /\ s[1] \in S
         /\ \E n \in Nat :
               /\ DOMAIN s = 1 .. n + 1 /\ DOMAIN Tail(s) = 1 .. n
               /\ \A i \in 1 .. n : Tail(s)[i] = s[i + 1]
  <1>1. Len(s) \in Nat /\ Len(s) # 0 /\ DOMAIN s = 1 .. Len(s)
    BY EmptySeq, LenProperties
  <1>2. /\ Tail(s) \in Seq(S) /\ Head(s) = s[1] /\ s[1] \in S
        /\ Len(Tail(s)) = Len(s) - 1
        /\ \A i \in 1 .. Len(Tail(s)) : Tail(s)[i] = s[i + 1]
    BY <1>1, HeadTailProperties, ElementOfSeq
  <1>3. DOMAIN Tail(s) = 1 .. Len(s) - 1
    BY <1>2, LenProperties
  <1>4. /\ Len(s) - 1 \in Nat /\ DOMAIN s = 1 .. (Len(s) - 1) + 1
        /\ DOMAIN Tail(s) = 1 .. Len(s) - 1
        /\ \A i \in 1 .. Len(s) - 1 : Tail(s)[i] = s[i + 1]
    BY <1>1, <1>2, <1>3
  <1>5. QED
    BY <1>2, <1>4

LEMMA DequeueEntries ==
  ASSUME TypeOK, Dequeue
  PROVE  /\ mainThreadJobs' \in [Priorities -> Seq(Entries)]
         /\ \A r \in Priorities : r # prio => mainThreadJobs'[r] = mainThreadJobs[r]
         /\ Head(mainThreadJobs[prio]) = mainThreadJobs[prio][1]
         /\ mainThreadJobs[prio][1] \in Entries
         /\ \E n \in Nat :
               /\ DOMAIN mainThreadJobs[prio] = 1 .. n + 1 /\ DOMAIN mainThreadJobs'[prio] = 1 .. n
               /\ \A i \in 1 .. n : mainThreadJobs'[prio][i] = mainThreadJobs[prio][i + 1]
  <1>1. /\ mainThreadJobs[prio] \in Seq(Entries) /\ mainThreadJobs[prio] # <<>>
        /\ mainThreadJobs'[prio] = Tail(mainThreadJobs[prio])
    BY DEF Dequeue, TypeOK, Entries
  <1>2. \A r \in Priorities : r # prio => mainThreadJobs'[r] = mainThreadJobs[r]
    BY DEF Dequeue, TypeOK
  <1>3. mainThreadJobs' \in [Priorities -> Seq(Entries)]
    BY <1>1, TailEntries DEF Dequeue, TypeOK, Entries
  <1>4. /\ Head(mainThreadJobs[prio]) = mainThreadJobs[prio][1]
        /\ mainThreadJobs[prio][1] \in Entries
        /\ \E n \in Nat :
               /\ DOMAIN mainThreadJobs[prio] = 1 .. n + 1 /\ DOMAIN Tail(mainThreadJobs[prio]) = 1 .. n
               /\ \A i \in 1 .. n : Tail(mainThreadJobs[prio])[i] = mainThreadJobs[prio][i + 1]
    BY <1>1, TailEntries
  <1>5. QED
    BY <1>1, <1>2, <1>3, <1>4

(***************************************************************************)
(* Enqueueing and dequeueing keep the coroutines in one place and the      *)
(* fences where they are.                                                  *)
(***************************************************************************)
\* What EnqueueToMain does to the queues and fences.
LEMMA EnqueueKeeps ==
  ASSUME TypeOK, QueuedOnce, NEW x \in Coroutines, EnqueueToMain(x), UNCHANGED frameEnded,
         Free(x) \/ x = cur
  PROVE  /\ \A p \in Priorities :
               /\ NoFence(p) => NoFence(p)'
               /\ Ahead(p) => Ahead(p)'
               /\ Reached(p) => Reached(p)'
         /\ mainThreadJobs' \in [Priorities -> Seq(Entries)]
         /\ due' \in SUBSET Coroutines /\ due' = due \ {x}
         /\ late' \in 0 .. MaxLate
         /\ \A p \in Priorities : \A i \in DOMAIN mainThreadJobs'[p] :
               mainThreadJobs'[p][i] \in Coroutines =>
                  /\ QueueOf(mainThreadJobs'[p][i]) = p
                  /\ \A j \in DOMAIN mainThreadJobs'[p] :
                        mainThreadJobs'[p][j] = mainThreadJobs'[p][i] => j = i
                  /\ \/ mainThreadJobs'[p][i] = x
                     \/ ~Free(mainThreadJobs'[p][i]) /\ mainThreadJobs'[p][i] # cur
  <1> DEFINE o == QueueOf(x)
  <1>1. o \in Priorities /\ x \in Entries /\ x # FrameFence
    BY CoroutineFacts DEF Entries
  <1>2. mainThreadJobs' = [mainThreadJobs EXCEPT ![o] = Append(@, x)] /\ due' = due \ {x}
    BY DEF EnqueueToMain
  <1>3. \A p \in Priorities : \A i \in DOMAIN mainThreadJobs[p] : mainThreadJobs[p][i] # x
    BY DEF QueuedOnce
  <1>4. PICK q \in Priorities : q = o
    BY <1>1
  <1>5. /\ mainThreadJobs' \in [Priorities -> Seq(Entries)]
        /\ \A r \in Priorities : r # q => mainThreadJobs'[r] = mainThreadJobs[r]
        /\ \E n \in Nat :
              /\ DOMAIN mainThreadJobs[q] = 1 .. n /\ DOMAIN mainThreadJobs'[q] = 1 .. n + 1
              /\ \A i \in 1 .. n : mainThreadJobs'[q][i] = mainThreadJobs[q][i]
              /\ mainThreadJobs'[q][n + 1] = x
    BY <1>1, <1>2, <1>4, EnqueueEntries
  <1>6. PICK n \in Nat :
              /\ DOMAIN mainThreadJobs[q] = 1 .. n /\ DOMAIN mainThreadJobs'[q] = 1 .. n + 1
              /\ \A i \in 1 .. n : mainThreadJobs'[q][i] = mainThreadJobs[q][i]
              /\ mainThreadJobs'[q][n + 1] = x
    BY <1>5
  <1>7. QueueOf(x) = q
    BY <1>4
  <1> HIDE DEF o
  <1>8. ASSUME NEW p \in Priorities
        PROVE  /\ NoFence(p) => NoFence(p)'
               /\ Ahead(p) => Ahead(p)'
               /\ Reached(p) => Reached(p)'
    <2>1. CASE p # q
      <3>1. mainThreadJobs'[p] = mainThreadJobs[p]
        BY <1>5, <2>1
      <3>2. \A i \in DOMAIN mainThreadJobs[p] :
               mainThreadJobs[p][i] \in due' <=> mainThreadJobs[p][i] \in due
        BY <1>2, <1>3
      <3>3. QED
        BY <3>1, <3>2 DEF NoFence, Ahead, Reached
    <2>2. CASE p = q
      <3>1. NoFence(p) => NoFence(p)'
        BY <1>1, <1>6, <2>2 DEF NoFence
      <3>2. Reached(p) => Reached(p)'
        BY <1>1, <1>2, <1>6, <2>2 DEF Reached
      <3>3. ASSUME Ahead(p) PROVE Ahead(p)'
        <4>1. PICK k \in 1 .. n :
                 /\ mainThreadJobs[q][k] = FrameFence
                 /\ \A i \in 1 .. n :
                       /\ i < k => mainThreadJobs[q][i] \in due
                       /\ i > k => mainThreadJobs[q][i] \notin due /\ mainThreadJobs[q][i] # FrameFence
          BY <1>6, <2>2, <3>3 DEF Ahead
        <4>2. k \in DOMAIN mainThreadJobs'[q] /\ mainThreadJobs'[q][k] = FrameFence
          BY <1>6, <4>1
        <4>3. \A i \in 1 .. n : i < k => mainThreadJobs'[q][i] \in due'
          BY <1>2, <1>3, <1>6, <4>1
        <4>4. \A i \in 1 .. n + 1 :
                 i > k => mainThreadJobs'[q][i] \notin due' /\ mainThreadJobs'[q][i] # FrameFence
          BY <1>1, <1>2, <1>6, <4>1
        <4>5. \A i \in DOMAIN mainThreadJobs'[q] :
                 /\ i < k => mainThreadJobs'[q][i] \in due'
                 /\ i > k => mainThreadJobs'[q][i] \notin due' /\ mainThreadJobs'[q][i] # FrameFence
          BY <1>6, <4>3, <4>4
        <4>6. ~frameEnded'[q]
          BY <2>2, <3>3 DEF Ahead
        <4>7. QED
          BY <2>2, <4>2, <4>5, <4>6 DEF Ahead
      <3>4. QED
        BY <3>1, <3>2, <3>3
    <2>3. QED
      BY <2>1, <2>2
  <1>9. due' \in SUBSET Coroutines /\ late' \in 0 .. MaxLate
    <2>1. CASE bExitMain[1]
      BY <2>1, MainAssumption DEF EnqueueToMain, TypeOK
    <2>2. CASE ~bExitMain[1]
      BY <2>2 DEF EnqueueToMain, TypeOK
    <2>3. QED
      BY <2>1, <2>2
  <1>10. ASSUME NEW p \in Priorities, NEW i \in DOMAIN mainThreadJobs'[p],
                mainThreadJobs'[p][i] \in Coroutines
         PROVE  /\ QueueOf(mainThreadJobs'[p][i]) = p
                /\ \A j \in DOMAIN mainThreadJobs'[p] :
                      mainThreadJobs'[p][j] = mainThreadJobs'[p][i] => j = i
                /\ \/ mainThreadJobs'[p][i] = x
                   \/ ~Free(mainThreadJobs'[p][i]) /\ mainThreadJobs'[p][i] # cur
    <2>1. CASE p # q
      BY <1>5, <1>10, <2>1 DEF QueuedOnce
    <2>2. CASE p = q /\ i = n + 1
      BY <1>3, <1>6, <1>7, <2>2
    <2>3. CASE p = q /\ i # n + 1
      <3>1. i \in 1 .. n /\ mainThreadJobs'[q][i] = mainThreadJobs[q][i]
        BY <1>6, <1>10, <2>3
      <3>2. QED
        BY <1>3, <1>6, <1>10, <2>3, <3>1 DEF QueuedOnce
    <2>4. QED
      BY <2>1, <2>2, <2>3
  <1>11. QED
    BY <1>2, <1>5, <1>8, <1>9, <1>10

\* Taking the first of a queue keeps the rest in place.
LEMMA DequeueKeeps ==
  ASSUME TypeOK, QueuedOnce, Dequeue, UNCHANGED due
  PROVE  /\ mainThreadJobs' \in [Priorities -> Seq(Entries)]
         /\ \A p \in Priorities : \A i \in DOMAIN mainThreadJobs'[p] :
               mainThreadJobs'[p][i] \in Coroutines =>
                  /\ QueueOf(mainThreadJobs'[p][i]) = p
                  /\ ~Free(mainThreadJobs'[p][i])
                  /\ mainThreadJobs'[p][i] # cur
                  /\ mainThreadJobs'[p][i] # mainThreadJobs[prio][1]
                  /\ \A j \in DOMAIN mainThreadJobs'[p] :
                        mainThreadJobs'[p][j] = mainThreadJobs'[p][i] => j = i
  <1>1. PICK n \in Nat :
               /\ DOMAIN mainThreadJobs[prio] = 1 .. n + 1 /\ DOMAIN mainThreadJobs'[prio] = 1 .. n
               /\ \A i \in 1 .. n : mainThreadJobs'[prio][i] = mainThreadJobs[prio][i + 1]
    BY DequeueEntries
  <1>2. prio \in Priorities
    BY DEF TypeOK
  <1>3. ASSUME NEW p \in Priorities, NEW i \in DOMAIN mainThreadJobs'[p],
               mainThreadJobs'[p][i] \in Coroutines
        PROVE  /\ QueueOf(mainThreadJobs'[p][i]) = p
               /\ ~Free(mainThreadJobs'[p][i])
               /\ mainThreadJobs'[p][i] # cur
               /\ mainThreadJobs'[p][i] # mainThreadJobs[prio][1]
               /\ \A j \in DOMAIN mainThreadJobs'[p] :
                     mainThreadJobs'[p][j] = mainThreadJobs'[p][i] => j = i
    <2>1. CASE p # prio
      <3>1. mainThreadJobs'[p] = mainThreadJobs[p]
        BY <2>1, DequeueEntries
      <3>2. mainThreadJobs'[p][i] # mainThreadJobs[prio][1]
        BY <1>1, <1>2, <1>3, <2>1, <3>1 DEF QueuedOnce
      <3>3. QED
        BY <1>3, <3>1, <3>2 DEF QueuedOnce
    <2>2. CASE p = prio
      <3>1. /\ i \in 1 .. n /\ i + 1 \in DOMAIN mainThreadJobs[p]
            /\ mainThreadJobs'[p][i] = mainThreadJobs[p][i + 1]
        BY <1>1, <2>2
      <3>2. /\ QueueOf(mainThreadJobs'[p][i]) = p
            /\ ~Free(mainThreadJobs'[p][i])
            /\ mainThreadJobs'[p][i] # cur
            /\ \A j \in DOMAIN mainThreadJobs[p] :
                  mainThreadJobs[p][j] = mainThreadJobs'[p][i] => j = i + 1
        BY <1>3, <3>1 DEF QueuedOnce
      <3>a. 1 \in DOMAIN mainThreadJobs[p] /\ i \in Nat \ {0}
        BY <1>1, <2>2, <3>1
      <3>3. mainThreadJobs'[p][i] # mainThreadJobs[prio][1]
        BY <2>2, <3>2, <3>a
      <3>4. ASSUME NEW j \in DOMAIN mainThreadJobs'[p],
                   mainThreadJobs'[p][j] = mainThreadJobs'[p][i]
            PROVE  j = i
        <4>1. j \in 1 .. n /\ j + 1 \in DOMAIN mainThreadJobs[p]
              /\ mainThreadJobs[p][j + 1] = mainThreadJobs'[p][j]
          BY <1>1, <2>2, <3>4
        <4>2. j + 1 = i + 1
          BY <3>2, <3>4, <4>1
        <4> QED
          BY <3>a, <4>1, <4>2
      <3>5. QED
        BY <3>2, <3>3, <3>4
    <2>3. QED
      BY <2>1, <2>2
  <1>4. QED
    BY <1>3, DequeueEntries

\* A step that leaves the queues, the fences and what is due alone.
LEMMA FencesKept ==
  ASSUME UNCHANGED <<mainThreadJobs, frameEnded, due>>
  PROVE  \A p \in Priorities :
            (NoFence(p)' <=> NoFence(p)) /\ (Ahead(p)' <=> Ahead(p)) /\ (Reached(p)' <=> Reached(p))
  BY DEF NoFence, Ahead, Reached

\* A step that leaves the queues alone and frees none but cur.
LEMMA PlacesKept ==
  ASSUME QueuedOnce, mainThreadJobs' = mainThreadJobs, cur' \in {cur, NoJob},
         \A x \in Coroutines : Free(x)' => Free(x) \/ x = cur
  PROVE  QueuedOnce'
  <1>1. \A x \in Coroutines : x = cur' => x = cur
    BY CoroutineFacts
  <1>2. ASSUME NEW p \in Priorities, NEW i \in DOMAIN mainThreadJobs[p],
               mainThreadJobs[p][i] \in Coroutines
        PROVE  /\ QueueOf(mainThreadJobs[p][i]) = p
               /\ ~Free(mainThreadJobs[p][i])'
               /\ mainThreadJobs[p][i] # cur'
               /\ \A j \in DOMAIN mainThreadJobs[p] : mainThreadJobs[p][j] = mainThreadJobs[p][i] => j = i
    <2>1. PICK x \in Coroutines : x = mainThreadJobs[p][i]
      BY <1>2
    <2>2. QueueOf(x) = p /\ ~Free(x) /\ x # cur
          /\ \A j \in DOMAIN mainThreadJobs[p] : mainThreadJobs[p][j] = x => j = i
      BY <1>2, <2>1 DEF QueuedOnce
    <2>3. ~Free(x)' /\ x # cur'
      BY <1>1, <2>2
    <2>4. ~Free(mainThreadJobs[p][i])'
      BY <2>1, <2>3 DEF Free
    <2>5. QED
      BY <2>1, <2>2, <2>3, <2>4
  <1>3. QED
    BY <1>2 DEF QueuedOnce, Free

(***************************************************************************)
(* The invariant holds initially and every step preserves it.              *)
(***************************************************************************)
LEMMA InitMain == Init => MainInv
  <1> SUFFICES ASSUME Init PROVE MainInv
    OBVIOUS
  <1>1. 0 \in Priorities /\ MaxLate \in Nat
    BY MainAssumption DEF Priorities
  <1>2. TypeOK
    <2>1. mainThreadTick \in BOOLEAN /\ frameEnded \in [Priorities -> BOOLEAN]
      BY DEF Init
    <2>2. bExitMain \in [0 .. 1 -> BOOLEAN]
      BY DEF Init
    <2>3. mainThreadJobs \in [Priorities -> Seq(Entries)]
      BY EmptySeq DEF Init
    <2>4. QED
      BY <1>1, <2>1, <2>2, <2>3 DEF Init, TypeOK, Entries
  <1>3. \A p \in Priorities : DOMAIN mainThreadJobs[p] = {}
    BY DEF Init
  <1>4. QueuedOnce /\ FencesStand
    BY <1>3 DEF Init, QueuedOnce, FencesStand, NoFence
  <1>5. ResumedInRun /\ TickUntilShutdown
    BY DEF Init, ResumedInRun, TickUntilShutdown
  <1>6. QED
    BY <1>2, <1>4, <1>5 DEF MainInv

\* A job, or the wait of a thread, is enqueued by others than the main loop.
LEMMA OthersEnqueue ==
  ASSUME MainInv, NEW x \in Coroutines, EnqueueToMain(x), Free(x),
         UNCHANGED <<pc, prio, frameEnded, cur, mainThreadTick, bExitMain, pool>>,
         idle' \in SUBSET idle, thread' \in [PoolThreads -> {"up", "waiting", "gone"}],
         ~Free(x)', \A y \in Coroutines : Free(y)' => Free(y)
  PROVE  MainInv'
  <1>0. TypeOK /\ QueuedOnce /\ ResumedInRun /\ TickUntilShutdown /\ (mainThreadTick => FencesStand)
    BY DEF MainInv
  <1>1. /\ \A p \in Priorities :
               /\ NoFence(p) => NoFence(p)'
               /\ Ahead(p) => Ahead(p)'
               /\ Reached(p) => Reached(p)'
        /\ mainThreadJobs' \in [Priorities -> Seq(Entries)]
        /\ due' \in SUBSET Coroutines /\ due' = due \ {x}
        /\ late' \in 0 .. MaxLate
        /\ \A p \in Priorities : \A i \in DOMAIN mainThreadJobs'[p] :
               mainThreadJobs'[p][i] \in Coroutines =>
                  /\ QueueOf(mainThreadJobs'[p][i]) = p
                  /\ \A j \in DOMAIN mainThreadJobs'[p] :
                        mainThreadJobs'[p][j] = mainThreadJobs'[p][i] => j = i
                  /\ \/ mainThreadJobs'[p][i] = x
                     \/ ~Free(mainThreadJobs'[p][i]) /\ mainThreadJobs'[p][i] # cur
    BY <1>0, EnqueueKeeps
  <1>2. x # cur
    BY <1>0, CoroutineFacts DEF ResumedInRun
  <1>3. TypeOK'
    BY <1>0, <1>1 DEF TypeOK, Entries
  <1>4. QueuedOnce'
    <2>1. ASSUME NEW p \in Priorities, NEW i \in DOMAIN mainThreadJobs'[p],
                 mainThreadJobs'[p][i] \in Coroutines
          PROVE  ~Free(mainThreadJobs[p][i])' /\ mainThreadJobs'[p][i] # cur'
      <3>1. PICK y \in Coroutines : y = mainThreadJobs'[p][i]
        BY <2>1
      <3>2. y = x \/ (~Free(y) /\ y # cur)
        BY <1>1, <2>1, <3>1
      <3>3. ~Free(y)' /\ y # cur'
        BY <1>2, <3>2
      <3>4. QED
        BY <3>1, <3>3 DEF Free
    <2>2. QED
      BY <1>1, <2>1 DEF QueuedOnce, Free
  <1>5. ResumedInRun'
    <2>1. cur # NoJob => cur \in Coroutines
      BY <1>0 DEF TypeOK
    <2>2. cur # NoJob => ~Free(cur)'
      BY <1>0, <2>1 DEF ResumedInRun, Free
    <2>3. QED
      BY <1>0, <2>2 DEF ResumedInRun, Free
  <1>6. TickUntilShutdown'
    BY <1>0 DEF TickUntilShutdown
  <1>7. ASSUME mainThreadTick' PROVE FencesStand'
    <2>1. frameEnded' = frameEnded /\ FencesStand
      BY <1>0, <1>7
    <2>2. QED
      BY <1>1, <1>2, <2>1 DEF FencesStand
  <1>8. QED
    BY <1>3, <1>4, <1>5, <1>6, <1>7 DEF MainInv

\* What is resumed leaves run: it is freed, or it was enqueued again.
LEMMA Returns ==
  ASSUME MainInv, cur \in Coroutines, JobReturns, UNCHANGED <<mainThreadTick, bExitMain, pool>>,
         TypeOK', QueuedOnce',
         \A p \in Priorities : (Ahead(p) => Ahead(p)') /\ (Reached(p) => Reached(p)')
  PROVE  MainInv'
  <1>0. TypeOK /\ ResumedInRun /\ TickUntilShutdown /\ (mainThreadTick => FencesStand)
    BY DEF MainInv
  <1>1. pc = "run" /\ pc' = "scan" /\ cur' = NoJob /\ prio' = 0
    BY <1>0, CoroutineFacts DEF ResumedInRun, JobReturns
  <1>2. ResumedInRun' /\ TickUntilShutdown'
    BY <1>0, <1>1 DEF ResumedInRun, TickUntilShutdown
  <1>3. ASSUME mainThreadTick' PROVE FencesStand'
    <2>1. \A p \in Priorities : Ahead(p) \/ Reached(p)
      BY <1>0, <1>1, <1>3 DEF FencesStand
    <2>2. \A p \in Priorities : ~(p < 0)
      BY MainAssumption DEF Priorities
    <2>3. \A p \in Priorities : (Ahead(p) \/ Reached(p))'
      BY <2>1
    <2>4. QED
      BY <1>1, <2>2, <2>3 DEF FencesStand
  <1>4. QED
    BY <1>2, <1>3 DEF MainInv

\* The scan is done with a priority whose frame has ended.
LEMMA ScanMovesOn ==
  ASSUME prio \in Priorities, pc = "scan", NextPriority("test"), frameEnded'[prio],
         \A p \in Priorities : p < prio => frameEnded'[p],
         \A p \in Priorities : Ahead(p)' \/ Reached(p)'
  PROVE  FencesStand'
  <1>1. CASE prio + 1 \in Priorities
    <2>1. pc' = "scan" /\ prio' = prio + 1
      BY <1>1 DEF NextPriority
    <2>2. \A p \in Priorities : p < prio' => frameEnded'[p]
      BY <2>1, MainAssumption DEF Priorities
    <2>3. QED
      BY <2>1, <2>2 DEF FencesStand
  <1>2. CASE prio + 1 \notin Priorities
    <2>1. pc' = "test"
      BY <1>2 DEF NextPriority
    <2>2. \A p \in Priorities : frameEnded'[p]
      BY <1>2, MainAssumption DEF Priorities
    <2>3. \A p \in Priorities : Reached(p)'
      BY <2>2 DEF Ahead
    <2>4. QED
      BY <2>1, <2>3 DEF FencesStand
  <1>3. QED
    BY <1>1, <1>2

LEMMA NextPriorityType ==
  ASSUME prio \in Priorities, NEW end, NextPriority(end)
  PROVE  prio' \in Priorities /\ pc' \in {pc, end}
  BY MainAssumption DEF NextPriority, Priorities

LEMMA NextMain == MainInv /\ [Next]_vars => MainInv'
  <1> SUFFICES ASSUME MainInv, [Next]_vars PROVE MainInv'
    OBVIOUS
  <1>0. TypeOK /\ QueuedOnce /\ ResumedInRun /\ TickUntilShutdown /\ (mainThreadTick => FencesStand)
    BY DEF MainInv
  <1>1. ASSUME NEW j \in Jobs, EnqueueJob(j) PROVE MainInv'
    <2>1. /\ j \in Coroutines /\ Free(j) /\ EnqueueToMain(j)
          /\ UNCHANGED <<pc, prio, frameEnded, cur, mainThreadTick, bExitMain, pool, thread>>
          /\ idle' = idle \ {j}
      BY <1>1 DEF EnqueueJob, exitVars, Coroutines, Free
    <2>2. ~Free(j)' /\ \A y \in Coroutines : Free(y)' => Free(y)
      BY <2>1, MainAssumption DEF Free
    <2>3. thread' \in [PoolThreads -> {"up", "waiting", "gone"}] /\ idle' \in SUBSET idle
      BY <1>0, <2>1 DEF TypeOK
    <2>4. QED
      BY <2>1, <2>2, <2>3, OthersEnqueue
  <1>2. ASSUME NEW t \in PoolThreads, WaitForMain(t) PROVE MainInv'
    <2>1. /\ t \in Coroutines /\ EnqueueToMain(t) /\ thread[t] = "up"
          /\ UNCHANGED <<pc, prio, frameEnded, cur, mainThreadTick, bExitMain, pool, idle>>
          /\ thread' = [thread EXCEPT ![t] = "waiting"]
      BY <1>2 DEF WaitForMain, exitVars, Coroutines
    <2>2. t \notin idle
      BY <1>0, MainAssumption DEF TypeOK
    <2>3. /\ thread' \in [PoolThreads -> {"up", "waiting", "gone"}] /\ thread'[t] = "waiting"
          /\ \A u \in PoolThreads : u # t => thread'[u] = thread[u]
      BY <1>0, <2>1 DEF TypeOK
    <2>4. Free(t) /\ ~Free(t)' /\ \A y \in Coroutines : Free(y)' => Free(y)
      BY <2>1, <2>2, <2>3 DEF Free
    <2>5. QED
      BY <2>1, <2>3, <2>4, OthersEnqueue
  <1>3. ASSUME (\E t \in PoolThreads : EndThread(t)) \/ ExitMain PROVE MainInv'
    <2>1. UNCHANGED <<mainThreadJobs, mainThreadTick, pool, pc, prio, frameEnded, cur, idle, late, due>>
      BY <1>3 DEF EndThread, ExitMain, exitVars
    <2>2. /\ thread' \in [PoolThreads -> {"up", "waiting", "gone"}]
          /\ bExitMain' \in [0 .. 1 -> BOOLEAN] /\ bExitMain'[1] = bExitMain[1]
          /\ \A u \in PoolThreads : thread'[u] = "waiting" <=> thread[u] = "waiting"
      <3>1. CASE ExitMain
        <4>1. bExitMain' = [bExitMain EXCEPT ![0] = TRUE] /\ thread' = thread
          BY <3>1 DEF ExitMain
        <4>2. QED
          BY <1>0, <4>1 DEF TypeOK
      <3>2. CASE \E t \in PoolThreads : EndThread(t)
        <4>1. PICK t \in PoolThreads : thread[t] = "up" /\ thread' = [thread EXCEPT ![t] = "gone"]
                                       /\ bExitMain' = bExitMain
          BY <3>2 DEF EndThread, exitVars
        <4>2. QED
          BY <1>0, <4>1 DEF TypeOK
      <3>3. QED
        BY <1>3, <3>1, <3>2
    <2>3. \A y : Free(y)' <=> Free(y)
      BY <2>1, <2>2 DEF Free
    <2>4. TypeOK'
      BY <1>0, <2>1, <2>2 DEF TypeOK
    <2>5. QueuedOnce'
      BY <1>0, <2>1, <2>3, PlacesKept
    <2>6. ResumedInRun' /\ TickUntilShutdown'
      BY <1>0, <2>1, <2>2 DEF ResumedInRun, TickUntilShutdown, Free
    <2>7. mainThreadTick' => FencesStand'
      BY <1>0, <2>1, FencesKept DEF FencesStand
    <2>8. QED
      BY <2>4, <2>5, <2>6, <2>7 DEF MainInv
  <1>4. ASSUME BeginFrame PROVE MainInv'
    <2>1. /\ pc = "begin" /\ prio' = 0 /\ due' = {}
          /\ pc' = IF mainThreadTick THEN "fence" ELSE "scan"
          /\ frameEnded' = [p \in Priorities |-> FALSE]
          /\ UNCHANGED <<mainThreadJobs, cur, idle, thread, mainThreadTick, bExitMain, pool, late>>
      BY <1>4 DEF BeginFrame, exitVars
    <2>2. frameEnded' \in [Priorities -> BOOLEAN] /\ \A p \in Priorities : ~frameEnded'[p]
      BY <2>1
    <2>3. 0 \in Priorities /\ \A p \in Priorities : p >= 0 /\ ~(p < 0)
      BY MainAssumption DEF Priorities
    <2>4. TypeOK'
      BY <1>0, <2>1, <2>2, <2>3 DEF TypeOK
    <2>5. QueuedOnce'
      BY <1>0, <2>1, PlacesKept DEF Free
    <2>6. ResumedInRun' /\ TickUntilShutdown'
      BY <1>0, <2>1 DEF ResumedInRun, TickUntilShutdown, Free
    <2>7. ASSUME mainThreadTick' PROVE FencesStand'
      <3>1. pc' = "fence" /\ \A p \in Priorities : NoFence(p)
        BY <1>0, <2>1, <2>7 DEF FencesStand
      <3>2. \A p \in Priorities : NoFence(p)'
        BY <2>1, <3>1 DEF NoFence
      <3>3. QED
        BY <2>1, <2>2, <2>3, <3>1, <3>2 DEF FencesStand
    <2>8. QED
      BY <2>4, <2>5, <2>6, <2>7 DEF MainInv
  <1>5. ASSUME InsertFence PROVE MainInv'
    <2>1. /\ pc = "fence" /\ mainThreadTick /\ FencesStand /\ prio \in Priorities
          /\ mainThreadJobs' = [mainThreadJobs EXCEPT ![prio] = Append(@, FrameFence)]
          /\ due' = due \cup {mainThreadJobs[prio][i] : i \in DOMAIN mainThreadJobs[prio]}
          /\ NextPriority("tick")
          /\ UNCHANGED <<frameEnded, cur, idle, thread, mainThreadTick, bExitMain, pool, late>>
      BY <1>0, <1>5 DEF InsertFence, exitVars, TickUntilShutdown, TypeOK
    <2>2. NoFence(prio) /\ \A p \in Priorities : ~frameEnded[p] /\ (p < prio => Ahead(p))
                                                /\ (p >= prio => NoFence(p))
      BY <2>1, MainAssumption DEF FencesStand, Priorities
    <2>3. /\ mainThreadJobs' \in [Priorities -> Seq(Entries)]
          /\ \A r \in Priorities : r # prio => mainThreadJobs'[r] = mainThreadJobs[r]
          /\ \E n \in Nat :
                /\ DOMAIN mainThreadJobs[prio] = 1 .. n /\ DOMAIN mainThreadJobs'[prio] = 1 .. n + 1
                /\ \A i \in 1 .. n : mainThreadJobs'[prio][i] = mainThreadJobs[prio][i]
                /\ mainThreadJobs'[prio][n + 1] = FrameFence
      BY <1>0, <2>1, EnqueueEntries DEF Entries
    <2>4. PICK n \in Nat :
                /\ DOMAIN mainThreadJobs[prio] = 1 .. n /\ DOMAIN mainThreadJobs'[prio] = 1 .. n + 1
                /\ \A i \in 1 .. n : mainThreadJobs'[prio][i] = mainThreadJobs[prio][i]
                /\ mainThreadJobs'[prio][n + 1] = FrameFence
      BY <2>3
    <2>5. \A p \in Priorities : \A i \in DOMAIN mainThreadJobs[p] : mainThreadJobs[p][i] \in Entries
      BY <1>0, ElementOfSeq, LenProperties DEF TypeOK, Entries
    <2>6. \A i \in 1 .. n : mainThreadJobs[prio][i] \in Coroutines
      BY <2>1, <2>2, <2>4, <2>5 DEF NoFence, Entries
    <2>7. due' \in SUBSET Coroutines
      BY <1>0, <2>1, <2>4, <2>6 DEF TypeOK
    <2>8. prio' \in Priorities /\ pc' \in {"fence", "tick"}
      BY <2>1, NextPriorityType
    <2>9. TypeOK'
      BY <1>0, <2>1, <2>3, <2>7, <2>8 DEF TypeOK, Entries
    <2>10. QueuedOnce'
      <3>1. ASSUME NEW p \in Priorities, NEW i \in DOMAIN mainThreadJobs'[p],
                   mainThreadJobs'[p][i] \in Coroutines
            PROVE  /\ i \in DOMAIN mainThreadJobs[p]
                   /\ mainThreadJobs'[p][i] = mainThreadJobs[p][i]
        BY <2>3, <2>4, <3>1, CoroutineFacts
      <3>2. QED
        BY <1>0, <2>1, <3>1, CoroutineFacts DEF QueuedOnce, Free
    <2>11. ResumedInRun' /\ TickUntilShutdown'
      BY <1>0, <2>1, <2>8 DEF ResumedInRun, TickUntilShutdown, Free
    <2>12. ASSUME NEW p \in Priorities, p = prio PROVE Ahead(p)'
      <3>1. \A i \in 1 .. n : mainThreadJobs'[p][i] \in due'
        BY <2>1, <2>4, <2>12
      <3>2. /\ DOMAIN mainThreadJobs'[p] = 1 .. n + 1 /\ mainThreadJobs'[p][n + 1] = FrameFence
            /\ \A i \in 1 .. n + 1 : i < n + 1 => mainThreadJobs'[p][i] \in due'
            /\ \A i \in 1 .. n + 1 : ~(i > n + 1)
            /\ ~frameEnded'[p]
        BY <2>1, <2>2, <2>4, <2>12, <3>1
      <3>3. QED
        BY <3>2 DEF Ahead
    <2>13. ASSUME NEW p \in Priorities, p # prio
           PROVE  (NoFence(p) => NoFence(p)') /\ (Ahead(p) => Ahead(p)')
      <3>1. mainThreadJobs'[p] = mainThreadJobs[p] /\ frameEnded' = frameEnded
        BY <2>1, <2>3, <2>13
      <3>2. ASSUME NEW i \in DOMAIN mainThreadJobs[p], mainThreadJobs[p][i] # FrameFence
            PROVE  mainThreadJobs[p][i] \in due' <=> mainThreadJobs[p][i] \in due
        <4>1. QueueOf(mainThreadJobs[p][i]) = p
          BY <1>0, <2>5, <3>2 DEF QueuedOnce, Entries
        <4>2. \A k \in DOMAIN mainThreadJobs[prio] : QueueOf(mainThreadJobs[prio][k]) = prio
          BY <1>0, <2>1, <2>4, <2>6 DEF QueuedOnce
        <4>3. \A k \in DOMAIN mainThreadJobs[prio] : mainThreadJobs[prio][k] # mainThreadJobs[p][i]
          BY <2>13, <4>1, <4>2
        <4>4. QED
          BY <2>1, <4>3
      <3>3. NoFence(p) => NoFence(p)'
        BY <3>1 DEF NoFence
      <3>4. ASSUME Ahead(p) PROVE Ahead(p)'
        <4>1. PICK k \in DOMAIN mainThreadJobs[p] :
                 /\ mainThreadJobs[p][k] = FrameFence
                 /\ \A i \in DOMAIN mainThreadJobs[p] :
                       /\ i < k => mainThreadJobs[p][i] \in due
                       /\ i > k => mainThreadJobs[p][i] \notin due /\ mainThreadJobs[p][i] # FrameFence
          BY <3>4 DEF Ahead
        <4>2. \A i \in DOMAIN mainThreadJobs[p] :
                 /\ i < k => mainThreadJobs[p][i] \in due'
                 /\ i > k => mainThreadJobs[p][i] \notin due' /\ mainThreadJobs[p][i] # FrameFence
          BY <2>1, <3>2, <4>1
        <4>3. ~frameEnded'[p]
          BY <2>1, <2>2
        <4>4. QED
          BY <3>1, <4>1, <4>2, <4>3 DEF Ahead
      <3>5. QED
        BY <3>3, <3>4
    <2>14. FencesStand'
      <3>1. \A p \in Priorities : ~frameEnded'[p]
        BY <2>1, <2>2
      <3>2. CASE prio + 1 \in Priorities
        <4>1. pc' = "fence" /\ prio' = prio + 1
          BY <2>1, <3>2 DEF NextPriority
        <4>2. ASSUME NEW p \in Priorities PROVE (p < prio' => Ahead(p)') /\ (p >= prio' => NoFence(p)')
          <5>1. /\ p < prio' => p = prio \/ (p # prio /\ p < prio)
                /\ p >= prio' => p # prio /\ p >= prio
            BY <2>1, <4>1, MainAssumption DEF Priorities
          <5>2. QED
            BY <2>2, <2>12, <2>13, <5>1
        <4>3. QED
          BY <3>1, <4>1, <4>2 DEF FencesStand
      <3>3. CASE prio + 1 \notin Priorities
        <4>1. pc' = "tick" /\ prio' = 0
          BY <2>1, <3>3 DEF NextPriority
        <4>2. ASSUME NEW p \in Priorities PROVE Ahead(p)'
          <5>1. p = prio \/ (p # prio /\ p < prio)
            BY <2>1, <3>3, MainAssumption DEF Priorities
          <5>2. QED
            BY <2>2, <2>12, <2>13, <5>1
        <4>3. QED
          BY <4>1, <4>2 DEF FencesStand
      <3>4. QED
        BY <3>2, <3>3
    <2>15. QED
      BY <2>9, <2>10, <2>11, <2>14 DEF MainInv
  <1>6. ASSUME Tick \/ TestExit \/ Redirect \/ Shutdown \/ UNCHANGED vars PROVE MainInv'
    <2>1. UNCHANGED <<mainThreadJobs, prio, frameEnded, cur, idle, thread, late, due>>
      BY <1>6 DEF Tick, TestExit, Redirect, Shutdown, ClearTick, SetExit, TryShutdown, vars, exitVars
    <2>2. QueuedOnce'
      BY <1>0, <2>1, PlacesKept DEF Free
    <2>3. \A p \in Priorities :
             (NoFence(p)' <=> NoFence(p)) /\ (Ahead(p)' <=> Ahead(p)) /\ (Reached(p)' <=> Reached(p))
      BY <2>1, FencesKept
    <2>4. CASE Tick
      <3>1. pc = "tick" /\ pc' = "scan" /\ UNCHANGED <<mainThreadTick, bExitMain, pool>>
        BY <2>4 DEF Tick, exitVars
      <3>2. TypeOK' /\ ResumedInRun' /\ TickUntilShutdown'
        BY <1>0, <2>1, <3>1 DEF TypeOK, ResumedInRun, TickUntilShutdown, Free
      <3>3. ASSUME mainThreadTick' PROVE FencesStand'
        <4>1. prio = 0 /\ \A p \in Priorities : Ahead(p) \/ Reached(p)
          BY <1>0, <3>1, <3>3 DEF FencesStand
        <4>2. \A p \in Priorities : ~(p < prio)
          BY <4>1, MainAssumption DEF Priorities
        <4>3. QED
          BY <2>1, <2>3, <3>1, <4>1, <4>2 DEF FencesStand
      <3>4. QED
        BY <2>2, <3>2, <3>3 DEF MainInv
    <2>5. CASE TestExit
      <3>1. /\ pc = "test" /\ pc' \in {"begin", "joined", "tryShutdown"}
            /\ UNCHANGED <<mainThreadTick, bExitMain, pool>>
            /\ ~bExitMain[1] => pc' # "tryShutdown"
        BY <2>5 DEF TestExit, exitVars
      <3>2. TypeOK' /\ ResumedInRun' /\ TickUntilShutdown'
        BY <1>0, <2>1, <3>1 DEF TypeOK, ResumedInRun, TickUntilShutdown, Free
      <3>3. ASSUME mainThreadTick' PROVE FencesStand'
        <4>1. \A p \in Priorities : Reached(p)
          BY <1>0, <3>1, <3>3 DEF FencesStand
        <4>2. \A p \in Priorities : NoFence(p)
          BY <4>1 DEF Reached, NoFence
        <4>3. QED
          BY <2>3, <3>1, <4>2 DEF FencesStand
      <3>4. QED
        BY <2>2, <3>2, <3>3 DEF MainInv
    <2>6. CASE Redirect
      <3>1. pc = "joined" /\ pc' = "clearTick" /\ UNCHANGED <<mainThreadTick, bExitMain, pool>>
        BY <2>6 DEF Redirect, exitVars
      <3>2. TypeOK' /\ ResumedInRun' /\ TickUntilShutdown'
        BY <1>0, <2>1, <3>1 DEF TypeOK, ResumedInRun, TickUntilShutdown, Free
      <3>3. mainThreadTick' => FencesStand'
        BY <1>0, <2>3, <3>1 DEF FencesStand
      <3>4. QED
        BY <2>2, <3>2, <3>3 DEF MainInv
    <2>7. CASE Shutdown
      <3>1. /\ pc \in {"clearTick", "setExit0", "setExit1", "tryShutdown"}
            /\ pc' \in {"setExit0", "setExit1", "tryShutdown", "begin", "down"}
            /\ mainThreadTick' = FALSE
            /\ bExitMain' \in [0 .. 1 -> BOOLEAN] /\ pool' \in 1 .. 3
        <4>1. CASE ClearTick
          BY <1>0, <4>1 DEF ClearTick, TypeOK
        <4>2. CASE SetExit(0, "setExit0", "setExit1") \/ SetExit(1, "setExit1", "tryShutdown")
          BY <1>0, <4>2 DEF SetExit, TypeOK, TickUntilShutdown
        <4>3. CASE TryShutdown
          BY <1>0, <4>3 DEF TryShutdown, NextPool, TypeOK, TickUntilShutdown
        <4>4. QED
          BY <2>7, <4>1, <4>2, <4>3 DEF Shutdown
      <3>2. TypeOK' /\ ResumedInRun' /\ TickUntilShutdown'
        BY <1>0, <2>1, <3>1 DEF TypeOK, ResumedInRun, TickUntilShutdown, Free
      <3>3. QED
        BY <2>2, <3>1, <3>2 DEF MainInv
    <2>8. CASE UNCHANGED vars
      <3>1. UNCHANGED <<pc, mainThreadTick, bExitMain, pool>>
        BY <2>8 DEF vars, exitVars
      <3>2. TypeOK' /\ ResumedInRun' /\ TickUntilShutdown'
        BY <1>0, <2>1, <3>1 DEF TypeOK, ResumedInRun, TickUntilShutdown, Free
      <3>3. mainThreadTick' => FencesStand'
        BY <1>0, <2>1, <2>3, <3>1 DEF FencesStand
      <3>4. QED
        BY <2>2, <3>2, <3>3 DEF MainInv
    <2>9. QED
      BY <1>6, <2>4, <2>5, <2>6, <2>7, <2>8
  <1>7. ASSUME NothingFound PROVE MainInv'
    <2>1. /\ pc = "scan" /\ NextPriority("test") /\ prio \in Priorities
          /\ frameEnded[prio] \/ mainThreadJobs[prio] = <<>>
          /\ UNCHANGED <<mainThreadJobs, frameEnded, cur, idle, thread, mainThreadTick, bExitMain, pool,
                         late, due>>
      BY <1>0, <1>7 DEF NothingFound, exitVars, TypeOK
    <2>2. prio' \in Priorities /\ pc' \in {"scan", "test"}
      BY <2>1, NextPriorityType
    <2>3. TypeOK' /\ ResumedInRun' /\ TickUntilShutdown'
      BY <1>0, <2>1, <2>2 DEF TypeOK, ResumedInRun, TickUntilShutdown, Free
    <2>4. QueuedOnce'
      BY <1>0, <2>1, PlacesKept DEF Free
    <2>5. ASSUME mainThreadTick' PROVE FencesStand'
      <3>1. /\ \A p \in Priorities : Ahead(p) \/ Reached(p)
            /\ \A p \in Priorities : p < prio => frameEnded[p]
        BY <1>0, <2>1, <2>5 DEF FencesStand
      <3>2. frameEnded[prio]
        BY <2>1, <3>1 DEF Ahead, Reached
      <3>3. \A p \in Priorities : Ahead(p)' \/ Reached(p)'
        BY <2>1, <3>1, FencesKept
      <3>4. QED
        BY <2>1, <3>1, <3>2, <3>3, ScanMovesOn
    <2>6. QED
      BY <2>3, <2>4, <2>5 DEF MainInv
  <1>8. ASSUME ResumeJob PROVE MainInv'
    <2>1. /\ Dequeue /\ pc = "scan" /\ pc' = "run" /\ prio \in Priorities
          /\ Head(mainThreadJobs[prio]) # FrameFence /\ cur' = Head(mainThreadJobs[prio])
          /\ UNCHANGED <<prio, frameEnded, idle, thread, mainThreadTick, bExitMain, pool, late, due>>
      BY <1>0, <1>8 DEF ResumeJob, Dequeue, exitVars, TypeOK
    <2>2. /\ cur' = mainThreadJobs[prio][1] /\ cur' \in Coroutines
          /\ \A r \in Priorities : r # prio => mainThreadJobs'[r] = mainThreadJobs[r]
      BY <1>0, <2>1, DequeueEntries DEF Entries
    <2>3. PICK n \in Nat :
               /\ DOMAIN mainThreadJobs[prio] = 1 .. n + 1 /\ DOMAIN mainThreadJobs'[prio] = 1 .. n
               /\ \A i \in 1 .. n : mainThreadJobs'[prio][i] = mainThreadJobs[prio][i + 1]
      BY <1>0, <2>1, DequeueEntries
    <2>4. ~Free(cur')
      BY <1>0, <2>1, <2>2, <2>3 DEF QueuedOnce
    <2>5. /\ mainThreadJobs' \in [Priorities -> Seq(Entries)]
          /\ \A p \in Priorities : \A i \in DOMAIN mainThreadJobs'[p] :
                mainThreadJobs'[p][i] \in Coroutines =>
                   /\ QueueOf(mainThreadJobs'[p][i]) = p
                   /\ ~Free(mainThreadJobs'[p][i])
                   /\ mainThreadJobs'[p][i] # mainThreadJobs[prio][1]
                   /\ \A j \in DOMAIN mainThreadJobs'[p] :
                         mainThreadJobs'[p][j] = mainThreadJobs'[p][i] => j = i
      BY <1>0, <2>1, DequeueKeeps
    <2>6. TypeOK'
      BY <1>0, <2>1, <2>2, <2>5 DEF TypeOK, Entries
    <2>7. QueuedOnce'
      BY <2>1, <2>2, <2>5 DEF QueuedOnce, Free
    <2>8. ResumedInRun' /\ TickUntilShutdown'
      BY <1>0, <2>1, <2>2, <2>4, CoroutineFacts DEF ResumedInRun, TickUntilShutdown, Free
    <2>9. ASSUME mainThreadTick' PROVE FencesStand'
      <3>1. \A p \in Priorities : Ahead(p) \/ Reached(p)
        BY <1>0, <2>1, <2>9 DEF FencesStand
      <3>2. ~frameEnded[prio]
        BY <2>1 DEF Dequeue
      <3>3. PICK k \in 1 .. n + 1 :
               /\ mainThreadJobs[prio][k] = FrameFence
               /\ \A i \in 1 .. n + 1 :
                     /\ i < k => mainThreadJobs[prio][i] \in due
                     /\ i > k => mainThreadJobs[prio][i] \notin due /\ mainThreadJobs[prio][i] # FrameFence
        BY <2>1, <2>3, <3>1, <3>2 DEF Ahead, Reached
      <3>4. k > 1 /\ cur' \in due'
        BY <2>1, <2>2, <3>3, CoroutineFacts
      <3>5. ASSUME NEW p \in Priorities, p = prio PROVE Ahead(p)'
        <4>1. DOMAIN mainThreadJobs'[p] = 1 .. n /\ k - 1 \in 1 .. n
          BY <2>3, <3>3, <3>4, <3>5
        <4>2. mainThreadJobs'[p][k - 1] = FrameFence
          BY <2>3, <3>3, <3>5, <4>1
        <4>3. ASSUME NEW i \in 1 .. n
              PROVE  /\ i < k - 1 => mainThreadJobs'[p][i] \in due'
                     /\ i > k - 1 => mainThreadJobs'[p][i] \notin due' /\ mainThreadJobs'[p][i] # FrameFence
          <5>1. /\ i + 1 \in 1 .. n + 1 /\ mainThreadJobs'[p][i] = mainThreadJobs[prio][i + 1]
                /\ i < k - 1 => i + 1 < k
                /\ i > k - 1 => i + 1 > k
            BY <2>3, <3>5
          <5>2. QED
            BY <2>1, <3>3, <5>1
        <4>4. ~frameEnded'[p]
          BY <2>1, <3>2, <3>5
        <4>5. QED
          BY <4>1, <4>2, <4>3, <4>4 DEF Ahead
      <3>6. ASSUME NEW p \in Priorities, p # prio PROVE Ahead(p)' \/ Reached(p)'
        <4>1. mainThreadJobs'[p] = mainThreadJobs[p] /\ UNCHANGED <<frameEnded, due>>
          BY <2>1, <2>2, <3>6
        <4>2. QED
          BY <3>1, <4>1 DEF Ahead, Reached
      <3>7. QED
        BY <2>1, <3>4, <3>5, <3>6 DEF FencesStand
    <2>10. QED
      BY <2>6, <2>7, <2>8, <2>9 DEF MainInv
  <1>9. ASSUME ReachFence PROVE MainInv'
    <2>1. /\ Dequeue /\ pc = "scan" /\ NextPriority("test") /\ prio \in Priorities
          /\ Head(mainThreadJobs[prio]) = FrameFence
          /\ frameEnded' = [frameEnded EXCEPT ![prio] = TRUE]
          /\ UNCHANGED <<cur, idle, thread, mainThreadTick, bExitMain, pool, late, due>>
      BY <1>0, <1>9 DEF ReachFence, Dequeue, exitVars, TypeOK
    <2>2. /\ mainThreadJobs[prio][1] = FrameFence
          /\ \A r \in Priorities : r # prio => mainThreadJobs'[r] = mainThreadJobs[r]
      BY <1>0, <2>1, DequeueEntries
    <2>3. PICK n \in Nat :
               /\ DOMAIN mainThreadJobs[prio] = 1 .. n + 1 /\ DOMAIN mainThreadJobs'[prio] = 1 .. n
               /\ \A i \in 1 .. n : mainThreadJobs'[prio][i] = mainThreadJobs[prio][i + 1]
      BY <1>0, <2>1, DequeueEntries
    <2>4. /\ mainThreadJobs' \in [Priorities -> Seq(Entries)]
          /\ \A p \in Priorities : \A i \in DOMAIN mainThreadJobs'[p] :
                mainThreadJobs'[p][i] \in Coroutines =>
                   /\ QueueOf(mainThreadJobs'[p][i]) = p
                   /\ ~Free(mainThreadJobs'[p][i])
                   /\ mainThreadJobs'[p][i] # cur
                   /\ \A j \in DOMAIN mainThreadJobs'[p] :
                         mainThreadJobs'[p][j] = mainThreadJobs'[p][i] => j = i
      BY <1>0, <2>1, DequeueKeeps
    <2>5. prio' \in Priorities /\ pc' \in {"scan", "test"}
      BY <2>1, NextPriorityType
    <2>6. /\ frameEnded' \in [Priorities -> BOOLEAN] /\ frameEnded'[prio]
          /\ \A p \in Priorities : p # prio => frameEnded'[p] = frameEnded[p]
      BY <1>0, <2>1 DEF TypeOK
    <2>7. TypeOK'
      BY <1>0, <2>1, <2>4, <2>5, <2>6 DEF TypeOK, Entries
    <2>8. QueuedOnce'
      BY <2>1, <2>4 DEF QueuedOnce, Free
    <2>9. ResumedInRun' /\ TickUntilShutdown'
      BY <1>0, <2>1, <2>5 DEF ResumedInRun, TickUntilShutdown, Free
    <2>10. ~frameEnded[prio]
      BY <2>1 DEF Dequeue
    <2>11. ASSUME mainThreadTick' PROVE FencesStand'
      <3>1. /\ \A p \in Priorities : Ahead(p) \/ Reached(p)
            /\ \A p \in Priorities : p < prio => frameEnded[p]
        BY <1>0, <2>1, <2>11 DEF FencesStand
      <3>2. PICK k \in 1 .. n + 1 :
               /\ mainThreadJobs[prio][k] = FrameFence
               /\ \A i \in 1 .. n + 1 :
                     /\ i < k => mainThreadJobs[prio][i] \in due
                     /\ i > k => mainThreadJobs[prio][i] \notin due /\ mainThreadJobs[prio][i] # FrameFence
        BY <2>1, <2>2, <2>3, <2>10, <3>1 DEF Ahead, Reached
      <3>3. k = 1
        <4>1. FrameFence \notin due
          BY <1>0, CoroutineFacts DEF TypeOK
        <4>2. QED
          BY <2>2, <3>2, <4>1
      <3>4. ASSUME NEW p \in Priorities, p = prio PROVE Reached(p)'
        <4>1. DOMAIN mainThreadJobs'[p] = 1 .. n /\ frameEnded'[p]
          BY <2>3, <2>6, <3>4
        <4>2. ASSUME NEW i \in 1 .. n
              PROVE  mainThreadJobs'[p][i] \notin due' /\ mainThreadJobs'[p][i] # FrameFence
          <5>1. i + 1 \in 1 .. n + 1 /\ i + 1 > k /\ mainThreadJobs'[p][i] = mainThreadJobs[prio][i + 1]
            BY <2>3, <3>3, <3>4
          <5>2. QED
            BY <2>1, <3>2, <5>1
        <4>3. QED
          BY <4>1, <4>2 DEF Reached
      <3>5. ASSUME NEW p \in Priorities, p # prio PROVE Ahead(p)' \/ Reached(p)'
        <4>1. mainThreadJobs'[p] = mainThreadJobs[p] /\ frameEnded'[p] = frameEnded[p] /\ due' = due
          BY <2>1, <2>2, <2>6, <3>5
        <4>2. QED
          BY <3>1, <4>1 DEF Ahead, Reached
      <3>6. \A p \in Priorities : p < prio => frameEnded'[p]
        BY <2>6, <3>1
      <3>7. QED
        BY <2>1, <2>6, <3>4, <3>5, <3>6, ScanMovesOn
    <2>12. QED
      BY <2>7, <2>8, <2>9, <2>11 DEF MainInv
  <1>10. ASSUME SuspendJob \/ EndWait PROVE MainInv'
    <2>1. /\ cur \in Coroutines /\ JobReturns
          /\ UNCHANGED <<mainThreadJobs, frameEnded, mainThreadTick, bExitMain, pool, late, due>>
      BY <1>10 DEF SuspendJob, EndWait, exitVars, Coroutines
    <2>a. idle' \in SUBSET Jobs /\ thread' \in [PoolThreads -> {"up", "waiting", "gone"}]
      <3>1. CASE SuspendJob
        BY <1>0, <3>1 DEF SuspendJob, TypeOK
      <3>2. CASE EndWait
        BY <1>0, <3>2 DEF EndWait, TypeOK
      <3> QED
        BY <1>10, <3>1, <3>2
    <2>2. /\ pc' = "scan" /\ cur' = NoJob /\ prio' = 0 /\ 0 \in Priorities
          /\ idle' \in SUBSET Jobs /\ thread' \in [PoolThreads -> {"up", "waiting", "gone"}]
      BY <2>1, <2>a, MainAssumption DEF JobReturns, Priorities
    <2>3. \A x \in Coroutines : Free(x)' => Free(x) \/ x = cur
      BY <1>0, <1>10 DEF SuspendJob, EndWait, Free, TypeOK
    <2>4. TypeOK'
      BY <1>0, <2>1, <2>2 DEF TypeOK
    <2>5. QueuedOnce'
      BY <1>0, <2>1, <2>2, <2>3, PlacesKept
    <2>6. QED
      BY <2>1, <2>4, <2>5, FencesKept, Returns
  <1>11. ASSUME RequeueJob PROVE MainInv'
    <2>1. /\ cur \in Jobs /\ cur \in Coroutines /\ EnqueueToMain(cur) /\ JobReturns
          /\ UNCHANGED <<frameEnded, idle, thread, mainThreadTick, bExitMain, pool>>
      BY <1>11 DEF RequeueJob, exitVars, Coroutines
    <2>2. PICK x \in Coroutines : x = cur
      BY <2>1
    <2>3. EnqueueToMain(x) /\ ~Free(x)
      BY <1>0, <2>1, <2>2, CoroutineFacts DEF ResumedInRun
    <2>4. /\ \A p \in Priorities :
                /\ NoFence(p) => NoFence(p)'
                /\ Ahead(p) => Ahead(p)'
                /\ Reached(p) => Reached(p)'
          /\ mainThreadJobs' \in [Priorities -> Seq(Entries)]
          /\ due' \in SUBSET Coroutines /\ late' \in 0 .. MaxLate
          /\ \A p \in Priorities : \A i \in DOMAIN mainThreadJobs'[p] :
                mainThreadJobs'[p][i] \in Coroutines =>
                   /\ QueueOf(mainThreadJobs'[p][i]) = p
                   /\ \A j \in DOMAIN mainThreadJobs'[p] :
                         mainThreadJobs'[p][j] = mainThreadJobs'[p][i] => j = i
                   /\ \/ mainThreadJobs'[p][i] = x
                      \/ ~Free(mainThreadJobs'[p][i]) /\ mainThreadJobs'[p][i] # cur
      BY <1>0, <2>1, <2>2, <2>3, EnqueueKeeps
    <2>5. pc' = "scan" /\ cur' = NoJob /\ prio' = 0 /\ 0 \in Priorities
      BY <2>1, MainAssumption DEF JobReturns, Priorities
    <2>6. TypeOK'
      BY <1>0, <2>1, <2>4, <2>5 DEF TypeOK, Entries
    <2>7. QueuedOnce'
      BY <2>1, <2>3, <2>4, <2>5, CoroutineFacts DEF QueuedOnce, Free
    <2>8. QED
      BY <2>1, <2>4, <2>6, <2>7, Returns
  <1>12. QED
    BY <1>1, <1>2, <1>3, <1>4, <1>5, <1>6, <1>7, <1>8, <1>9, <1>10, <1>11 DEF Next, RunMain

LEMMA MainInvariant == Spec => []MainInv
  BY InitMain, NextMain, PTL DEF Spec

(***************************************************************************)
(* The theorems.                                                           *)
(***************************************************************************)
\* Every variable of the main loop has its type; above all, what it resumes is
\* a coroutine, never a fence (FRAME_FENCE_MARKER is no coroutine frame).
THEOREM TypeCorrect == Spec => []TypeOK
  <1>1. MainInv => TypeOK
    BY DEF MainInv
  <1>2. QED
    BY MainInvariant, <1>1, PTL

\* In a frame with a tick only coroutines are resumed that were enqueued before
\* the fence of their priority (runMain), however many threads and jobs enqueue.
THEOREM ResumedInNextFrame == Spec => []NextFrame
  <1>1. MainInv => NextFrame
    BY DEF MainInv, FencesStand, NextFrame
  <1>2. QED
    BY MainInvariant, <1>1, PTL

\* A frame with a tick ends when all that was due has been resumed, at every
\* priority, and leaves no fence behind to cut a later frame short.
THEOREM FramesEndClean == Spec => []FrameEndsClean
  <1>1. ASSUME MainInv, mainThreadTick, pc = "test" PROVE FrameEndsClean
    <2>1. \A p \in Priorities : Reached(p)
      BY <1>1 DEF MainInv, FencesStand
    <2>2. \A p \in Priorities : \A i \in DOMAIN mainThreadJobs[p] : mainThreadJobs[p][i] # FrameFence
      BY <2>1 DEF Reached
    <2>3. \A x \in due : x \in Coroutines
      BY <1>1 DEF MainInv, TypeOK
    <2>4. \A x \in due : ~Queued(x)
      BY <2>1, <2>3, CoroutineFacts DEF Reached, Queued
    <2>5. QED
      BY <2>2, <2>4 DEF FrameEndsClean
  <1>2. MainInv => FrameEndsClean
    BY <1>1 DEF FrameEndsClean
  <1>3. QED
    BY MainInvariant, <1>2, PTL

\* A coroutine is in one place: free, resumed, or in one queue once, so that the
\* main loop never resumes one that is running, or is to be enqueued, elsewhere.
CoroutineHeldOnce ==
    /\ QueuedOnce
    /\ cur # NoJob => ~Free(cur)

\* No interleaving of the enqueuing threads with the main loop breaks that.
THEOREM CoroutineInOnePlace == Spec => []CoroutineHeldOnce
  <1>1. MainInv => CoroutineHeldOnce
    BY DEF MainInv, ResumedInRun, CoroutineHeldOnce
  <1>2. QED
    BY MainInvariant, <1>1, PTL
=============================================================================
