SPECIFICATION FairSpec
CONSTANTS
    Requests = {r1, r2}
    PoolLimit = 1
    MaxErrors = 6
INVARIANTS
    TypeOK
    RetryNeverHelps
PROPERTIES
    DegradedIsEarned
    ShutdownEnds
