SPECIFICATION FairSpec
CONSTANTS
    RingBytes = 3
    Budgets = {1, 2}
    Window = 2
    ReadSizes = {1, 3}
    Styles = {"implicit", "explicit"}
    MaxChunk = 2
    MaxPrinted = 4
    MaxSeq = 3
    MaxLost = 1
INVARIANTS
    OnlyItsOwn
PROPERTIES
    HarvestsAreWhole
    CatchesUp
    LogSpec
CHECK_DEADLOCK FALSE
