SPECIFICATION Spec
CONSTANTS
    MaxHeight = 4
    ValidFor = 2
    MaxSendAttempts = 3
    Commitment <- Confirmed
INVARIANT
    DefiniteErrorsAreFinal
CHECK_DEADLOCK FALSE
