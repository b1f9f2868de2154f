SPECIFICATION FairSpec
CONSTANTS
    ChildrenCount = 2
    JobsMoved = TRUE
\* Everything ends once the awaiter has gone on.
CHECK_DEADLOCK FALSE
INVARIANT JobsOutliveTheirThreads
