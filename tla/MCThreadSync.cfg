SPECIFICATION MCFairSpec
CONSTANTS
    c1 = c1
    job1 = job1
    NoJob = NoJob
    Callers = {c1}
    Waiters <- MCWaiters
    Jobs <- MCJobs
    WorkersCount = 2
    MaxPriority = 1
    PriorityOf <- SyncPriorityOf
    Stealing = TRUE
    MaxEnqueues = 1
INVARIANTS
    LatchCountsOutstanding
    EarlierJobsTaken
PROPERTY
    SyncReturns
