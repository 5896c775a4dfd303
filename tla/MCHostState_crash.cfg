SPECIFICATION Spec
CONSTANTS
    MaxDamage = 1
    MaxEpochs = 2
    MaxFaults = 2
    MaxIds = 3
    None = None
    Proc = {h1, h2}
INVARIANTS
    AckedSurvive
    LeaseProves
PROPERTIES
    NoSpuriousBreak
    ImplementsCommitLog
SYMMETRY Symmetry
CHECK_DEADLOCK FALSE
