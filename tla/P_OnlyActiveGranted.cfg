SPECIFICATION Spec
CONSTANTS
    Users = {u1}
    Payments = {pi1}
    Subscriptions = {sub1}
    Requests = {r1, r2, r3}
    NoRow = NoRow
SYMMETRY RequestSymmetry
INVARIANTS
    OnlyActiveGranted
CHECK_DEADLOCK FALSE
