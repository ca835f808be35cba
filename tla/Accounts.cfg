SPECIFICATION MCSpec
CONSTANTS
    e1 = e1
    e2 = e2
    g1 = g1
    g2 = g2
    u0 = u0
    Emails = {e1, e2}
    Googles = {g1, g2}
    Gmail <- Addresses
    Known = {u0}
    Requests = {r1, r2, r3}
    None = None
SYMMETRY RequestSymmetry
INVARIANTS
    TypeOK
    SomeWayIn
    SignInMatches
    OneUnusedToken
    LinksUsedOnce
    ResetHonest
    TokenNamesUser
PROPERTIES
    AddressProved
    
CHECK_DEADLOCK FALSE
