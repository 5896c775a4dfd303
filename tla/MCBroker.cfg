SPECIFICATION SuiteSpec
CONSTANTS
    Carriers = {t1, t2}
    Clients = {c1}
    Grants = {g1}
    HostGrant = hg
    Instances = {i1, i2}
    Kids = {k1, k2}
    MaxRestarts = 0
    MaxRevocations = 1
    MaxTime = 1
    MaxViolations = 0
    MaxWithdrawals = 1
    None = None
    c1 = c1
    g1 = g1
    hg = hg
    i1 = i1
    k1 = k1
    k2 = k2
    r1 = r1
    r2 = r2
    t1 = t1
INVARIANTS
    BudgetIsExact
    CommandsRunOnce
    OneConnectorServes
    RevocationHolds
PROPERTIES
    WholeStreams
SYMMETRY Symmetry
CHECK_DEADLOCK FALSE
