SPECIFICATION FairSpec
CONSTANTS
    ip1 = ip1
    name1 = name1
    Assets <- MCAssets
    Addresses <- MCAddresses
    NoAsset = NoAsset
    Weather <- MCWeather
    MaxTyped = 2
    MaxExits = 3
INVARIANTS
    LiveHasWire
    ParkedOrNotEntering
    ShellIsJudged
    VerifiedMeansTarget
PROPERTIES
    CooldownIsEarned
    LinesReachTheirReader
    EveryCallReturns
CHECK_DEADLOCK FALSE
