SPECIFICATION FairSpec
CONSTANTS
    ChildrenCount = 4
    JobsMoved = FALSE
\* Everything ends once the awaiter has gone on.
CHECK_DEADLOCK FALSE
INVARIANTS TypeOK HandshakeComplete FramesOutliveUse
PROPERTIES ImplementsFairJoin AwaitCompletes
