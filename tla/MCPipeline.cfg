SPECIFICATION FairSpec
CONSTANTS
    Symbols = {"sol", "btc", "eth"}
    Ids = {"x", "y"}
    Mints = {"m1", "m2"}
    Configs <- MCConfigs
    Market <- MCMarket
    Capacity = 1
    MaxObs <- MCMaxObs
INVARIANT
    AnswersAreConfigured
PROPERTIES
    ServedGoesForward
    TicksAreServed
    LatestBookIsServed
CHECK_DEADLOCK FALSE
