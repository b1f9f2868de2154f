\* Two producers and two consumers (a worker's queue and its thieves).
SPECIFICATION HistorySpec
CONSTANTS
    p1 = p1
    p2 = p2
    c1 = c1
    c2 = c2
    Producers = {p1, p2}
    Consumers = {c1, c2}
    Items = {x1, x2}
    NodeSize = 1
    Nodes = {n1, n2, n3}
    Null = Null
    Taken = Taken
SYMMETRY Symmetries
\* Enqueuers stop when all nodes are in use, a bound of this instance.
CHECK_DEADLOCK FALSE
INVARIANT TypeOK
PROPERTIES ReturnedOnce FirstInFirstOut EmptyIsHonest
CONSTRAINT IndicesBounded
