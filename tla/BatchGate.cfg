SPECIFICATION FairBatchSpec
CONSTANTS
    m1 = m1
    m2 = m2
    b1 = b1
    b2 = b2
    b3 = b3
    r1 = r1
    Managers <- MCManagers
    Callers <- MCCallers
    Batchers <- MCBatchers
    Home <- MCHome
    MaxTurns = 3
    MaxSessions = 1
INVARIANTS
    OneAtATime
    FirstComeFirstServed
PROPERTIES
    EveryBatchEnds
CHECK_DEADLOCK FALSE
