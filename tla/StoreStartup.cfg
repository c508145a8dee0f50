SPECIFICATION FairSpec
CONSTANTS
    m1 = m1
    m2 = m2
    server = server
    cli = cli
    Procs <- MCProcs
    Mem <- MCMem
    Migrations <- MCMigrations
    Idempotent = {1, 5}
    Timestamps = 5
    Fts5 = {TRUE, FALSE}
    MaxWrites = 3
    MaxFaults = 3
CHECK_DEADLOCK FALSE
INVARIANTS ServesOnlyMigrated IndexComplete
PROPERTY EventuallyServing
