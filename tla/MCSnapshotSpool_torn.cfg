SPECIFICATION Spec
CONSTANTS
    Keys = {1}
    Callers = {1}
    MaxSnapshots = 3
    MaxCuts = 2
    MaxTombstones = 2
    IdleLease = 2
    AbsoluteLease = 3
    TombstoneLife = 2
    MaxTime = 1
    MaxEpochs = 1
    MaxCrashes = 1
    MaxFailures = 0
    MaxRevokes = 0
    MaxBusy = 0
    Torn = {"bare"}
INVARIANTS
    RecoverySucceeds
CHECK_DEADLOCK FALSE
