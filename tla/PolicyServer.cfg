SPECIFICATION Spec
CONSTANTS
    h1 = h1
    h2 = h2
    h3 = h3
    p1 = p1
    p2 = p2
    Video720 = Video720
    Mp3 = Mp3
    Jpeg = Jpeg
    Camera = Camera
    Vpp = Vpp
    Handles = {h1, h2, h3}
    Pids = {p1, p2}
    Components <- MCComponents
    policyCombinationTable <- MCTable
    KindOf <- MCKindOf
    MaxRegistered = 3
    MaxPending = 1
    PipeBound = 0
CONSTRAINT
    OneWaits
INVARIANTS
    TypeOK
    RunningSupported
    KindsMatched
PROPERTIES
    ImplementsArbiter
CHECK_DEADLOCK FALSE
