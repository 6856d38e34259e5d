SPECIFICATION Spec
CONSTANTS
    a = a
    b = b
    l1 = l1
    w1 = w1
    w2 = w2
    migration = migration
    Names = {a}
    LegacyNames = {}
    Workers = {w1, w2}
    Migration = migration
    Attempts = 1
    Found <- NothingFound
    MaxUid = 2
    MaxTime = 2
    MaxReports = 2
    MaxFaults = 1
    NoSecret = NoSecret
    NoJob = NoJob
CHECK_DEADLOCK FALSE
INVARIANTS
    LatestSnapshotKept
