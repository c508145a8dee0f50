SPECIFICATION MCSpec
CONSTANTS
  r1 = r1
  r2 = r2
  Runs = {r1, r2}
  MaxWalk = 2
  Malformed = Malformed
  NoMark = NoMark
  MaxCommits = 4
  MaxMerges = 1
  MaxStarts = 3
  MaxFailures = 1
  MaxCrashes = 1
  MaxWrites = 1
INVARIANTS NothingSkipped NoRepeat Clustered SummaryTrue
CHECK_DEADLOCK FALSE
