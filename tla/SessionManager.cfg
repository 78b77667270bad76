SPECIFICATION FairSpec
CONSTANTS
    j1 = j1
    j2 = j2
    Jobs <- MCJobs
    NoJob = NoJob
    ReconnectLimit = 2
    AutoReconnect = TRUE
    BatchSize = 2
    Weather <- MCWeather
INVARIANTS
    ClaimHasShell
    CommandsStayOutOfJobs
    OpenWireIsCurrent
    StoppedMeansGone
PROPERTIES
    LossIsNoticed
    ReconnectNotForgotten
    EveryTurnEnds
CHECK_DEADLOCK FALSE
