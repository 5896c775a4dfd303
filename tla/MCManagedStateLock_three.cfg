SPECIFICATION Spec
CONSTANTS
    Proc = {p1, p2, p3}
    Name = {n1, n2}
    MaxCalls = 1
    MaxKills = 0
    MaxStalls = 0
    Leftover = TRUE
    Absent = Absent
INVARIANTS MutualExclusion
SYMMETRY Symmetry
CHECK_DEADLOCK FALSE
