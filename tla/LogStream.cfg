SPECIFICATION FairSpec
CONSTANTS
    Pods = 2
    Lines = 2
    Endings <- AllEndings
    Capacity = 2
CHECK_DEADLOCK FALSE
INVARIANTS
    NothingLostOrReordered
    EndIsComplete
PROPERTIES
    NothingLeftBehind
    FiniteStreamsEnd
