SPECIFICATION SuiteSpec
CONSTANTS
    Dashboard = Dashboard
    Enrolled = FALSE
    Exchangers = {Owner, Dashboard}
    Faults = {"storage", "loss", "late", "lapse", "revoke", "drop"}
    MaxConn = 2
    MaxFaults = 1
    MaxIds = 4
    MaxInst = 2
    MaxTok = 3
    None = None
    Owner = Owner
    Prompt = FALSE
    Resends = 1
    Rounds = 2
INVARIANTS
    CacheIsACut
    ScreenIsTheStream
    OutputIsServed
    HeldOrReplayable
    OneNetworkWinner
PROPERTIES
    SyncNeverWedges
    RotationIsOwned
CHECK_DEADLOCK FALSE
