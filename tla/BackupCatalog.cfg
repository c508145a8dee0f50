SPECIFICATION FairSpec
CONSTANTS
    Requests = {r1}
    Keep = 1
    MaxSnapshots = 2
    MaxDay = 1
    MaxDamages = 1
    MaxFaults = 1
    MaxCrashes = 1
INVARIANTS ListedWasSound RecoveryPointsKept StagedIsSound
PROPERTIES EvidenceKept OperationsEnd
