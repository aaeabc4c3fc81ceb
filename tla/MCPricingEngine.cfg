SPECIFICATION Spec
CONSTANTS
    Feeds = {"pyth", "coingecko"}
    Stamped = {"pyth", "coingecko"}
    Unstamped = {"coingecko"}
    Instruments <- MCInstruments
    Kind <- MCKind
    Legs <- MCLegs
    Weights <- MCWeights
    Transforms <- MCTransforms
    Interval <- MCInterval
    Prices = {0, 1}
    MaxTime = 4
    MaxTicks = 3
    MaxMantissa = 10000
    MaxDecimal = 2000
INVARIANTS
    TypeOK
    NoStaleDerivation
    NeverFresherThanALeg
    LagIsExact
    BasketKeepsItsBase
PROPERTY TimedKeepsItsPace
CHECK_DEADLOCK FALSE
