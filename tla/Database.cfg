SPECIFICATION DatabaseFairSpec
CONSTANTS
    p1 = p1 p2 = p2 p3 = p3 f1 = f1 f2 = f2 j1 = j1
    Processes <- TwoProcesses
    Files <- TwoFiles
    OldFiles <- OneFile
    Versions <- AllVersions
    MaxCrashes = 1
    Procs <- ThreeProcesses
    Jobs <- OneJob
    NumLeases = 5
    MaxStops = 2
INVARIANTS SchemaSound LeasesSound
PROPERTIES EverythingSettles
CHECK_DEADLOCK FALSE
