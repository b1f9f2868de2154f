\* Two threads, one with a token, the other without; both may collect. Ring and
\* list are so small that a retired node is soon pushed out and destroyed.
SPECIFICATION HistorySpec
CONSTANTS
    Threads = {t1, t2}
    Tokenless = {t2}
    Collectors = {t1, t2}
    RecordsCount = 2
    Nodes = {n1, n2, n3}
    ReuseQueueLength = 1
    CountWrap = 3
    MinDeletes = 1
    MaxNodes = 3
    Null = Null
    Reset = Reset
    Free = Free
\* Nodes may run out.
CHECK_DEADLOCK FALSE
INVARIANTS HeldNotDestroyed OneOwner
CONSTRAINTS UntilLapsed TokenFirst
SYMMETRY NodesAlike
