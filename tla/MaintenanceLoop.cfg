SPECIFICATION FairSpec
CONSTANTS
    Jobs = {1, 2, 3}
    Enabled = {1, 2, 3}
    Handlers = {1, 2}
    CanSkip = {2}
    MaxTime = 1
    Interval <- MCInterval
INVARIANTS SuccessIsReal FailureNotMasked
PROPERTIES NoEarlyRerun DueJobRuns ShutdownCompletes
