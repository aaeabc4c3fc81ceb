SPECIFICATION Spec
CONSTANTS
    NUsers = 3
    RewardUsers <- MCRewardUsers
    UserLamports = 5
INVARIANTS
    TypeOK
    FundsKeepTheirKey
    SuccessMeansRecovered
    FlowsDoNotOverlap
PROPERTY
    RollbackVisitsAllFunded
CHECK_DEADLOCK FALSE
