SPECIFICATION SharedSpec
CONSTANTS
    Procs = {p1, p2}
    Uploaders = {p1, p2}
    UploadKeys = {k1}
    DeleteKeys = {d1, d2}
    NumAgents = 2
    Domain <- TwoDomains
    NumChunks = 1
    Contents = {c1}
    MaxVolumes = 2
    MaxMints = 3
    MaxFaults = 1
    MaxHiccups = 0
    p1 = p1 p2 = p2 k1 = k1 d1 = d1 d2 = d2 c1 = c1 None = None
INVARIANTS TypeOK Downloadable OneMarker
PROPERTIES ImplementsLifecycle
CHECK_DEADLOCK FALSE
SYMMETRY Symmetry
