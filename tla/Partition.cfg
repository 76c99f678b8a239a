SPECIFICATION PartitionSpec
CONSTANTS
    Ops = {"put", "del"}
    KeyOf <- OneKey
    Deletes = {"del"}
    Window = 1
    SegCap = 2
    MaxSeq = 3
    Settings <- Faulty
    None = None
    k1 = k1 k2 = k2 k3 = k3 a = a b = b c = c
INVARIANTS LogIntact AckedSurvive AppliedOnce TablesConsistent
PROPERTIES ImplementsMap
CHECK_DEADLOCK FALSE
