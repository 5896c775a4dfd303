SPECIFICATION SuiteSpec
CONSTANTS
    AcceptFor = 1
    Call = {k1, k2}
    ClockSteps = FALSE
    Cmd = {cmd}
    Create = {cmd}
    DedupeFor = 1
    MaxFaults = 2
    MaxTime = 4
    None = None
    ResultFor = 1
    Win = {w1}
    c1 = c1
    c2 = c2
    c3 = c3
    cmd = cmd
    k1 = k1
    w1 = w1
    w2 = w2
INVARIANTS
    RecordsFollowBackends
    SnapshotIsOneCut
    SpoolRecovers
    OneEffectPerCommand
    ReservationsAccounted
PROPERTIES
    DeletedIsDead
SYMMETRY Symmetry
CHECK_DEADLOCK FALSE
