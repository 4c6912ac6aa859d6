CONSTANTS
    m1 = m1
    m2 = m2
    h1 = h1
    h2 = h2
    t1 = t1
    t2 = t2
    t3 = t3
    A = A
    B = B
    None = None
    MAC <- OneMac
    Hap <- OneHap
    HapOrder <- OneHapOrder
    Timer <- TwoTimers
    Name <- OneName
    Config <- JustTrack
    AutoDisc = FALSE
    Fault = {}
    Restart = TRUE
    MaxEvents = 2

SPECIFICATION AttributesSpec

INVARIANTS
    DepartureIsPublished
    ArrivalIsPublished
    DepartureInAttributes
    ArrivalInAttributes

PROPERTIES
    DepartureIsReported
