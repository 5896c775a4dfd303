SPECIFICATION SuiteFairSpec
CONSTANTS
    Dashboard = Dashboard
    Lead = 1
    Life = 3
    MaxCred = 2
    MaxEarly = 2
    MaxFull = 1
    MaxMisses = 1
    None = None
    Owner = Owner
    c1 = c1
    cmd = cmd
    dash = dash
    feishu = feishu
    k1 = k1
    o1 = o1
    r1 = r1
    t1 = t1
    w1 = w1
INVARIANTS
    ExpiryIsWatched
    WarnedBeforeExpiry
PROPERTIES
    NothingStaysPending
    AbandonedTargetReopens
    CopiesConverge
CHECK_DEADLOCK FALSE
