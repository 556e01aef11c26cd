SPECIFICATION FairSpec
CONSTANTS
    h1 = h1
    h2 = h2
    h3 = h3
    p1 = p1
    p2 = p2
    Mp3 = Mp3
    Jpeg = Jpeg
    Adpcm = Adpcm
    RM_AUDIO = RM_AUDIO
    RM_IMAGE = RM_IMAGE
    Handles = {h1, h2, h3}
    Pids = {p1, p2}
    Components = {Mp3, Jpeg, Adpcm}
    policyCombinationTable <- MCTable
    TypeOf <- MCTypeOf
    Types = {RM_AUDIO, RM_IMAGE}
    KindOf <- MCPeers
    CpuOf <- MCTwoCpu
    CycleLevels = {0, 3}
    Wrap = 16
    MaxComponents = 4
    MaxFds = 2
    MaxFaults = 0
    MaxTries = 2
    Usage = {}
    FifoBound = 1
    MaxRequests = 2
INVARIANTS
    Reachable
    AnswerAwaited
PROPERTIES
    ConnectsEventually
CHECK_DEADLOCK FALSE
