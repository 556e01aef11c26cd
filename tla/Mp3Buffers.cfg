SPECIFICATION Spec
CONSTANTS
    i1 = i1
    o1 = o1
    NULL = NULL
    Buffers = {i1, o1}
    PortOf <- MCPortOf
    Kinds = {"data", "eos"}
    Commands <- PlayerCommands
    MaxLate = 1
    MaxCommands = 2
    MaxSent = 7
    MaxFaults = 0
INVARIANTS
    TypeOK
    DspOwns
    Accounted
    CountsMatch
PROPERTIES
    UsesLoan
CHECK_DEADLOCK FALSE
