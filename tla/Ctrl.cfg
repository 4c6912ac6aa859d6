CONSTANTS
    m1 = m1
    m2 = m2
    m3 = m3
    None = None
    MAC <- TwoMacs
    Role <- BothRoles
    Fault = {"silent", "late", "unknown", "terminate", "odd", "callback"}
    MaxEvents = 2

SPECIFICATION Spec

INVARIANTS
    TypeOK
    InStep
    DetachBeforeClose
    ClosesOnce
    StopsOnRequest

PROPERTIES
    ListingIsRegular
    CancelEndsAttach
    ListingEnds

CHECK_DEADLOCK FALSE
