SPECIFICATION Spec
CONSTANTS
    i1 = i1
    o1 = o1
    NULL = NULL
    Buffers = {i1, o1}
    PortOf <- MCPortOf
    Kinds = {"data", "empty"}
    Commands <- AllCommands
    MaxLate = 1
    MaxCommands = 2
    MaxSent = 5
    MaxFaults = 1
INVARIANTS
    StateAgreed
PROPERTIES
    IdleEmpty
    CommandEnds
CHECK_DEADLOCK FALSE
