CONSTANTS
    m1 = m1
    m2 = m2
    t1 = t1
    t2 = t2
    t3 = t3
    None = None
    MAC <- MCMac
    Timer <- MCTimer

SPECIFICATION Spec

INVARIANTS
    TypeOK
    EntryIsLive

PROPERTY
    KeepsPromise
