CONSTANTS
    m1 = m1
    m2 = m2
    h1 = h1
    h2 = h2
    t1 = t1
    t2 = t2
    t3 = t3
    A = A
    B = B
    None = None
    MAC <- OneMac
    Hap <- OneHap
    HapOrder <- OneHapOrder
    Timer <- OneTimer
    Name <- OneName
    Config <- KeepTracking
    AutoDisc = FALSE
    Fault = {"publish", "stop", "attach", "terminate", "subscribe"}
    Restart = FALSE
    MaxEvents = 1

SPECIFICATION Spec

INVARIANTS
    TypeOK
    BelievedIsBacked

PROPERTIES
    ShutdownCompletes

CHECK_DEADLOCK FALSE
