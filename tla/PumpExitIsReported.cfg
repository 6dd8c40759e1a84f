CONSTANTS
    Callers = {c1, c2}
    MaxCalls = 2
    ChanCap = 1
    PipeCap = 0
    Nobody = Nobody
SPECIFICATION FairSpec
PROPERTY PumpExitIsReported
CHECK_DEADLOCK FALSE
