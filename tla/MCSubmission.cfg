SPECIFICATION FairSpec
CONSTANTS
    MaxHeight = 4
    ValidFor = 2
    MaxSendAttempts = 3
    Commitment <- Confirmed
INVARIANTS
    TypeOK
    ExecutedAtMostOnce
    PreSendErrorsAreFinal
    OkIsFinal
PROPERTIES
    ImplementsPromise
    CallReturns
CHECK_DEADLOCK FALSE
