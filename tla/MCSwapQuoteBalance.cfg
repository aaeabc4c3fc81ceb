SPECIFICATION Spec
CONSTANTS
    Positions <- MCPositions
    MaxTick = 9
    PerTick = 2
    ArraySize = 2
    MaxArrays = 3
    Discovery = 4
    WalkLimit = 4
    SlippageBps = 500
    Amounts = {3, 12}
    Taxes <- MCTaxes
    Wallets = {2, 40}
    MaxMoves = 1
INVARIANT
    InsufficientBalanceIsTrue
CHECK_DEADLOCK FALSE
