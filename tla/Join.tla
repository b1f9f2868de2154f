-------------------------------- MODULE Join --------------------------------
(* What awaiting several jobs promises: the awaiter goes on once, after all  *)
(* of them have finished, and it does go on.                                 *)
CONSTANT Children
VARIABLES finished, resumed

vars == <<finished, resumed>>

Init == finished \in SUBSET Children /\ resumed = FALSE

Finish(c) ==
    /\ c \notin finished
    /\ finished' = finished \cup {c}
    /\ UNCHANGED resumed

Resume ==
    /\ ~resumed /\ finished = Children
    /\ resumed' = TRUE
    /\ UNCHANGED finished

Next == Resume \/ \E c \in Children : Finish(c)

Spec == Init /\ [][Next]_vars
FairSpec == Spec /\ WF_vars(Next)
=============================================================================
