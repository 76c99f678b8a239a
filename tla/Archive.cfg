SPECIFICATION ArchiveSpec
CONSTANTS
    Processes <- TwoProcesses
    Settings <- BackupCases
    a1 = a1 a2 = a2 a3 = a3 f1 = f1 f2 = f2 p1 = p1 p2 = p2
INVARIANTS ArchiveRestorable
PROPERTIES JobsConverge BackupRestorable
CHECK_DEADLOCK FALSE
