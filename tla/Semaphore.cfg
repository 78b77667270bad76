SPECIFICATION FairGateSpec
CONSTANTS
    Batchers = {p1, p2, p3, p4}
    MaxSessions = 2
INVARIANTS
    QueueIsWaiting
PROPERTIES
    PoolSpec
