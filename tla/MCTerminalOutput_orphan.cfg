SPECIFICATION FairSpec
CONSTANTS
    RingBytes = 2
    MaxUnacked = 2
    MaxFrame = 1
    MaxBytes = 1
    MaxGens = 4
    MaxOpens = 6
    MaxRoutes = 1
    MaxDrops = 0
    MaxRestarts = 0
    MaxLosses = 1
    MaxViews = 0
    MaxExpiries = 0
    MaxRefusals = 0
PROPERTIES LostIsReplaced
CHECK_DEADLOCK FALSE
