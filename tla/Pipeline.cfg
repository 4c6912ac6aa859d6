CONSTANTS
    i1 = i1
    i2 = i2
    i3 = i3
    i4 = i4
    None = None
    Id <- FourIds
    MaxConfigs = 3
    MaxPublish = 1

SPECIFICATION Spec

INVARIANTS
    TypeOK
    TimeoutNeedsBacklog
    HandledInOrder

PROPERTIES
    SubscribeConfigReturns
    HandlerEnds

CHECK_DEADLOCK FALSE
