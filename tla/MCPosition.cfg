SPECIFICATION Spec
CONSTANTS
    SlippageBps = 500
    Prices <- MCPrices
    Spacing = 2
    Ranges <- MCRanges
    Amounts = {7}
    Tax <- MCTax
    Funds = 25
    Scale = 3
    MaxMoves = 1
    MaxCalls = 4
INVARIANTS
    UnmovedExecutes
    DepositWithinRequest
    DrainedIsClosable
CHECK_DEADLOCK FALSE
