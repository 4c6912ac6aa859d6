CONSTANTS
    MaxSsid = 3
    MaxLines = 4
    MaxMac = 5
    Bytes = 2

SPECIFICATION Spec

INVARIANTS
    SsidSurvives
    LinesDecide
    OneStationOneName

CHECK_DEADLOCK FALSE
