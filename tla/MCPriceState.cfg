SPECIFICATION StateFairSpec
CONSTANTS
    Listed = {sol, btc}
    Consumers = {c1}
    Backlog = 2
    MaxPoints = 4
INVARIANTS
    TypeOK
    StreamNotAheadOfStore
    SnapshotThenStreamIsComplete
PROPERTIES
    StreamGoesForward
    NewestPointArrives
CHECK_DEADLOCK FALSE
