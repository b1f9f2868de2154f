---------------------------- MODULE JobLifecycle ----------------------------
(***************************************************************************)
(* What the job system promises about one coroutine handed to the workers: *)
(* each enqueueJob is followed by at most one resume of that coroutine, on *)
(* one thread, and the coroutine is resumed by nobody who did not take it  *)
(* from a queue.  As long as the job system is open every enqueued         *)
(* coroutine is resumed.                                                   *)
(***************************************************************************)
CONSTANT Jobs

VARIABLES
    state,   \* where each coroutine is
    closing  \* TRUE once shutdown began

lvars == <<state, closing>>

States == {"idle", "queued", "running", "main"}

Init == state = [j \in Jobs |-> "idle"] /\ closing = FALSE

Become(j, old, new) ==
    /\ state[j] \in old
    /\ state' = [state EXCEPT ![j] = new]
    /\ UNCHANGED closing

\* enqueueJob, by another thread or by the running coroutine itself.
Enqueue(j) == Become(j, {"idle", "running"}, "queued")

\* Once shutdown began the coroutine goes to the main thread's queue instead.
HandOver(j) == closing /\ Become(j, {"idle", "running"}, "main")

Resume(j) == Become(j, {"queued"}, "running")

\* The coroutine finishes, or suspends to wait for something else.
Suspend(j) == Become(j, {"running"}, "idle")

Close == ~closing /\ closing' = TRUE /\ UNCHANGED state

Next ==
    \/ \E j \in Jobs : Enqueue(j) \/ HandOver(j) \/ Resume(j) \/ Suspend(j)
    \/ Close

Spec == Init /\ [][Next]_lvars

FairSpec == Spec /\ \A j \in Jobs : WF_lvars(Resume(j) /\ ~closing)
=============================================================================
