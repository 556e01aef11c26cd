SPECIFICATION Spec
CONSTANTS
    i1 = i1
    i2 = i2
    o1 = o1
    NULL = NULL
    Buffers = {i1, o1}
    StreamOf <- MCOneEach
    HasParam = {o1}
    QUEUE_SIZE = 1
    MAX_DMM_BUFFERS = 2
    MaxMessages = 1
    MaxCommands = 1
    MaxFaults = 1
    OverlapCtrl = FALSE
INVARIANTS
    MapsMatch
PROPERTIES
    RequestEnds
    DestroyEnds
CHECK_DEADLOCK FALSE
