SPECIFICATION FairSpec
CONSTANTS
    j1 = j1
    j2 = j2
    j3 = j3
    NoJob = NoJob
    Callers = {c1}
    Jobs = {j1, j2}
    WorkersCount = 2
    MaxPriority = 2
    PriorityOf <- MCPriorityOf
    Stealing = TRUE
    MaxEnqueues = 2
PROPERTIES
    ShutdownEnds
    ImplementsFairLifecycle
