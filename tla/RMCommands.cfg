SPECIFICATION FairSpec
CONSTANTS
    h1 = h1
    h2 = h2
    h3 = h3
    p1 = p1
    p2 = p2
    Mp3 = Mp3
    Jpeg = Jpeg
    Adpcm = Adpcm
    RM_AUDIO = RM_AUDIO
    RM_IMAGE = RM_IMAGE
    Handles = {h1, h2, h3}
    Pids = {p1}
    Components = {Mp3, Jpeg, Adpcm}
    policyCombinationTable <- MCTable
    TypeOf <- MCTypeOf
    Types = {RM_AUDIO, RM_IMAGE}
    KindOf <- MCSingle
    CpuOf <- MCSingleCpu
    CycleLevels = {3}
    Wrap = 16
    MaxComponents = 4
    MaxFds = 2
    MaxFaults = 1
    MaxTries = 2
    Usage = {"waiting", "unusedFrees", "qosInitFails", "foreign"}
    FifoBound = 1
    MaxRequests = 2
INVARIANTS
    TypeOK
    RegisteredOnce
PROPERTIES
    RecoveryEnds
CHECK_DEADLOCK FALSE
