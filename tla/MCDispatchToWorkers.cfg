SPECIFICATION CallSpec
CONSTANTS
    WorkersCount = 3
    MaxCount = 5
    Wrap = 8
    MaxDrift = 2
\* A call ends.
CHECK_DEADLOCK FALSE
INVARIANTS
    TypeOK
    CoversInOrder
    SpreadsEvenly
    PrefersAvailable
    DivisorPositive
    GroupsApart
