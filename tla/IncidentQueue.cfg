SPECIFICATION FairSpec
CONSTANTS
    p1 = p1
    p2 = p2
    n1 = n1
    main = main
    init = init
    w1 = w1
    Pods = {p1, p2}
    Names = {n1}
    NameOf <- OneName
    Containers = {main, init}
    InitContainers = {init}
    First = main
    Workers = {w1}
    QueueSize = 1
    DedupeSize = 2
    MaxCount = 1
    MaxClock = 2
    MaxChanges = 2
    MaxNotes = 2
    Unknown = Unknown
    Idle = Idle
CHECK_DEADLOCK FALSE
INVARIANTS
    NoneTwice
    RestartsReported
    EvictionsReported
PROPERTIES
    WatchNeverWaits
