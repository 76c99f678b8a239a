SPECIFICATION FairSpec
CONSTANTS
    Files = {f1}
    Collectors = {c1, c2}
    NumAgents = 2
    Retention = 1
    Grace = 1
    MaxTime = 2
    Settings <- Cases
    f1 = f1 c1 = c1 c2 = c2 t1 = t1
PROPERTIES CollectionSafe EventuallyCollected
CHECK_DEADLOCK FALSE
