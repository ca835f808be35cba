SPECIFICATION NamedSpec
CONSTANTS
    Users = {u1}
    Payments = {}
    Subscriptions = {sub1, sub2}
    Requests = {r1, r2}
    NoRow = NoRow
INVARIANTS
    CanceledForAnEnd
    EndedYetPaid
PROPERTIES
    CancelsOnlyRegistered
    CancelledIsEnded
CHECK_DEADLOCK FALSE
