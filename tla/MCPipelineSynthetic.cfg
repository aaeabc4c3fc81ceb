SPECIFICATION FairSpec
CONSTANTS
    Symbols = {"sol", "btc", "eth"}
    Ids = {"x", "y"}
    Mints = {"m1", "m2"}
    Configs <- MCConfigs
    Market <- MCMarket
    Capacity = 1
    MaxObs <- MCMaxObs
PROPERTY SyntheticsKeepPublishing
CHECK_DEADLOCK FALSE
