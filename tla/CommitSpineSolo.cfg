SPECIFICATION SoloSpec
CONSTANTS
    Procs = {p1}
    Uploaders = {p1}
    UploadKeys = {k1}
    DeleteKeys = {d1}
    NumAgents = 3
    Domain <- SharedDomain
    NumChunks = 1
    Contents = {c1, c2}
    MaxVolumes = 2
    MaxMints = 2
    MaxFaults = 2
    MaxHiccups = 1
    p1 = p1 k1 = k1 d1 = d1 c1 = c1 c2 = c2 None = None
INVARIANTS CommitSound
PROPERTIES RetryConverges
CHECK_DEADLOCK FALSE
