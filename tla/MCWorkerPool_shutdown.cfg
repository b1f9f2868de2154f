SPECIFICATION Spec
CONSTANTS
    j1 = j1
    j2 = j2
    j3 = j3
    NoJob = NoJob
    Callers = {c1}
    Jobs = {j1}
    WorkersCount = 1
    MaxPriority = 1
    PriorityOf <- MCPriorityOf
    Stealing = TRUE
    MaxEnqueues = 1
INVARIANT
    NoEnqueueAfterExit
