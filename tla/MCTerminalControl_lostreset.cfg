SPECIFICATION Spec
CONSTANTS
    feishu = feishu
    dash = dash
    cli = cli
    None = None
    kindOf <- MCkindOf
    Owner = {dash}
    OpId = {o1}
    JournalCap = 1
    Target = {t1}
    Kinds = {"raw"}
    Fault = {"lostReset"}
    MaxFaults = 1
    MaxFence = 4
    MaxHandoffs = 0
    MaxSessions = 1
INVARIANT ExplicitRecoveryPossible
