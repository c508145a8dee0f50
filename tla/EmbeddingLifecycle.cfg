SPECIFICATION MCSpec
CONSTANTS
    m1 = m1
    c1 = c1
    c2 = c2
    w1 = w1
    w2 = w2
    Absent = Absent
    Deleted = Deleted
    Mem <- MCMem
    Contents <- MCContents
    Writers <- MCWriters
    Projects <- MCProjects
    TooLong <- MCTooLong
    ChunkSize = 1
    AutoBackfill = TRUE
    MaxRevision = 2
    MaxOps = 2
    MaxFaults = 1
    MaxCrashes = 1
INVARIANTS RowsFollowContent StampNeverLeads NothingOwedOnceReconciled
PROPERTIES EventuallySettled
