SPECIFICATION Spec
CONSTANTS
    a1 = a1
    a2 = a2
    a3 = a3
    a4 = a4
    pl1 = pl1
    pl2 = pl2
    n1 = n1
    n2 = n2
    n3 = n3
    n4 = n4
    n5 = n5
    jpeg = jpeg
    Video = Video
    JpegEnc = JpegEnc
    Lost = Lost
    h263 = h263
    avc = avc
    mpeg2 = mpeg2
    mpeg4 = mpeg4
    jpg = jpg
    NULL = NULL
    Wild = Wild
    tComponentName <- MCSharedNames
    Handles = {a1, a2, a3}
    MAXCOMP = 3
    MAX_TABLE_SIZE = 2
    MAX_CONCURRENT_INSTANCES = 3
    Plugins = {pl1}
    Nodes = {n1, n2}
    PluginOf <- MCSharedOf
    Encoders = {jpeg}
    NameOf <- MCSharedNameOf
    UnsetVariables = TRUE
    DeInitFails = FALSE
    MaxCount = 2
SYMMETRY HandleSymmetry
INVARIANTS
    TypeOK
CHECK_DEADLOCK FALSE
