SPECIFICATION MCSpec
CONSTANTS
  o1 = o1
  o2 = o2
  NoFile = NoFile
  Torn = Torn
  Ops <- MCOps
  Snapshots <- MCSnapshots
  MaxWrites = 3
  MaxCrashes = 4
  MaxStages = 2
SYMMETRY OpSymmetry
INVARIANTS LogMatchesMain NothingLost RecordHonest
CHECK_DEADLOCK FALSE
