SPECIFICATION Spec
CONSTANTS
    Requests = {r1, r2, r3}
    PoolLimit = 1
    MaxErrors = 4
PROPERTY
    DegradedReported
