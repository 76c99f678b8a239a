SPECIFICATION FairSpec
CONSTANTS
    Processes <- TwoWorkers
    Settings <- Cases
    o1 = o1 o2 = o2 w1 = w1 w2 = w2
PROPERTIES PlacementsHonest RepairConverges
CHECK_DEADLOCK FALSE
