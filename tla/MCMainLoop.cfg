SPECIFICATION FairSpec
CONSTANTS
    j1 = j1
    j2 = j2
    j3 = j3
    t1 = t1
    t2 = t2
    t3 = t3
    Jobs = {j1, j2, j3}
    PoolThreads = {t1, t2, t3}
    PoolOf <- MCPoolOf
    MaxPriority = 2
    PriorityOf <- MCPriorityOf
    FrameFence = FrameFence
    NoJob = NoJob
    MaxLate = 2
\* After shutdown the program is over.
CHECK_DEADLOCK FALSE
INVARIANTS TypeOK NextFrame FrameEndsClean
PROPERTIES MainJobsRun ExitMainReturns ShutdownEnds
