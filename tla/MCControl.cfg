SPECIFICATION SuiteSpec
CONSTANTS
    Fault = {"write", "save", "crash"}
    JournalCap = 1
    Kinds = {"raw"}
    MaxFaults = 1
    MaxFence = 3
    MaxHandoffs = 0
    MaxSessions = 1
    None = None
    OpId = {o1, o2}
    Owner = {feishu, dash, cli}
    Target = {t1, t2}
    cli = cli
    dash = dash
    feishu = feishu
    kindOf <- MCkindOf
    o1 = o1
    o2 = o2
    t1 = t1
    t2 = t2
INVARIANTS
    TypeOK
    StoreReadable
    CallIsDurable
    AtMostOnce
    SingleProducer
    NoSilentResume
    OneTargetPerName
    ExplicitRecoveryPossible
PROPERTIES
    FenceNamesOneOwner
    InDoubtKept
    NoForeignRawWrite
SYMMETRY Symmetry
