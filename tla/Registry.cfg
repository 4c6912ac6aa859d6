CONSTANTS
    m1 = m1
    m2 = m2
    h1 = h1
    h2 = h2
    t1 = t1
    t2 = t2
    t3 = t3
    A = A
    B = B
    None = None
    MAC <- TwoMacs
    Hap <- OneHap
    HapOrder <- OneHapOrder
    Timer <- OneTimer
    Name <- TwoNames
    Config <- TrackTwo
    AutoDisc = TRUE
    Fault = {"publish", "list", "unknown", "truncate", "subscribe"}
    Restart = FALSE
    MaxEvents = 0

SPECIFICATION SafeSpec

INVARIANTS
    ConfiguredIsPublished

CHECK_DEADLOCK FALSE
