SPECIFICATION Spec
CONSTANTS
    o1 = o1
    o2 = o2
    Operators = {o1, o2}
    AdminKey = o1
    Mints = {1, 2, 3}
    MainnetDecimals <- MCDecimals
    Existing <- MCExisting
    Commands <- MCCommands
    Repeated <- MCRepeated
    MaxTickSpacing = 3
    RateDenominator = 4
    MaxFaults = 1
INVARIANTS
    TypeOK
    AnswersHold
    FlowFindsPools
PROPERTY
    RepairCompletes
