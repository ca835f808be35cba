SPECIFICATION Spec
CONSTANTS
    Users = {u1}
    Requests = {r1, r2, r3}
    Amounts = {4, 5, 20}
    Openings = {2}
    MaxCents = 3
SYMMETRY RequestSymmetry
INVARIANTS
    TypeOK
    Conserved
    BalanceBacked
    AnswerMatchesEffect
PROPERTIES
    AtomicUnlessStale
CHECK_DEADLOCK FALSE
