SPECIFICATION Spec
CONSTANTS
    i1 = i1
    i2 = i2
    o1 = o1
    NULL = NULL
    Buffers = {i1, i2, o1}
    StreamOf <- MCStreamOf
    HasParam = {o1}
    QUEUE_SIZE = 2
    MAX_DMM_BUFFERS = 3
    MaxMessages = 1
    MaxCommands = 1
    MaxFaults = 0
    OverlapCtrl = FALSE
INVARIANTS
    TypeOK
    Tracked
PROPERTIES
    ImplementsLoan
CHECK_DEADLOCK FALSE
