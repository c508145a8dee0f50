SPECIFICATION Spec
CONSTANTS
  Runs = {"run"}
  MaxWalk = 3
  Malformed = Malformed
  NoMark = NoMark
  MaxCommits = 4
  MaxMerges = 1
  MaxStarts = 2
  MaxFailures = 0
  MaxCrashes = 0
  MaxWrites = 0
INVARIANT HandedOverOnce
CHECK_DEADLOCK FALSE
