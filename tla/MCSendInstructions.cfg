SPECIFICATION SendFairSpec
CONSTANTS
    MaxHeight = 6
    ValidFor = 1
    MaxAttempts = 2
    Commitment <- Confirmed
INVARIANTS
    SendTypeOK
    OneExecutionPerAttempt
    OkIsExecuted
PROPERTY
    SendingReturns
CHECK_DEADLOCK FALSE
