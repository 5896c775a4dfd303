SPECIFICATION Spec
CONSTANTS
    Proc = {p1, p2}
    Name = {n1, n2}
    MaxCalls = 2
    MaxKills = 1
    MaxStalls = 1
    Leftover = TRUE
    Absent = Absent
INVARIANTS MutualExclusion
PROPERTY AtomicUpdates
CHECK_DEADLOCK FALSE
