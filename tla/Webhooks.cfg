SPECIFICATION PairSpec
CONSTANTS
    Users = {u1}
    Subs = {s1}
    Events = {e1, e2}
    Workers = {w1, w2}
    MaxFaults = 1
    e1 = e1
    e2 = e2
    NoSub = NoSub
    NoEvent = NoEvent
INVARIANTS
    TypeOK
    LastEventRules
    MarkedOnlyAfterApplied
PROPERTIES
    RetriesSucceed
