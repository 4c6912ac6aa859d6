CONSTANTS
    p1 = p1
    p2 = p2
    None = None
    Proc <- OneProcess
    Radios = 2
    Fault = {}

SPECIFICATION Spec

PROPERTIES
    RestartSucceeds
