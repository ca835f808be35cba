SPECIFICATION Spec
CONSTANTS
    Requests = {r1, r2}
    PoolLimit = 1
    MaxErrors = 6
INVARIANT
    ErrorsDegrade
