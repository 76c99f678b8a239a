SPECIFICATION HnswSpec
CONSTANTS
    M = 2
    M0 = 3
    EfConstruction = 2
    Layouts <- FourOnTwoLevels
INVARIANTS BuildsSound SearchesSound
PROPERTIES BuildsEnd
CHECK_DEADLOCK FALSE
