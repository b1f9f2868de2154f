SPECIFICATION MCFairSpec
CONSTANTS
    c1 = c1
    j1 = j1
    NoJob = NoJob
    Count = 2
    Callers = {c1}
    Jobs = {j1}
    Waiters <- MCWaiters
    WaitsFor <- MCWaitsFor
    MaxPriority = 2
    PriorityOf <- MCPriorityOf
    EnqueueInThread <- MCEnqueueInThread
    MaxEnqueues = 2
INVARIANTS
    NoLostWakeup
    EarlierJobsRan
PROPERTIES
    ImplementsLifecycle
    EnqueuedRuns
    SyncReturns
    ShutdownEnds
