SPECIFICATION FairSpec
CONSTANTS
    Files = {f1}
    Settings <- Cases
INVARIANTS RecoveredHonest
PROPERTIES DeletedForGood RecoveryConverges
CHECK_DEADLOCK FALSE
