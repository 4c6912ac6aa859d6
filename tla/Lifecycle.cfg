CONSTANTS
    p1 = p1
    p2 = p2
    None = None
    Proc <- TwoProcesses
    Radios = 1
    Fault = {"crash", "cut", "slow", "silent"}

SPECIFICATION Spec

INVARIANTS
    TypeOK
    OfflineWhenGone
    OnlineWhileRunning
    FilesAreHeld

PROPERTIES
    TroubleEndsRun
