SPECIFICATION MCSpec
CONSTANTS
    Rows = {1, 2}
    Requests = {r1, r2, r3}
    NoRequest = NoRequest
    First <- NewYearsEve
    MaxVersions <- Versions
SYMMETRY RequestSymmetry
INVARIANTS
    TypeOK
    RenewalsCounted
    DayOnlyDrops
    CancelledOnce
    DeadButActive
    EndingIsTrue
PROPERTIES
    RevivedByStatusUpdateOnly
    EndedRowRenewedOnlyByRace
    ShownIsStored
CHECK_DEADLOCK FALSE
