CONSTANTS
    Callers = {c1, c2}
    MaxCalls = 2
    ChanCap = 1
    PipeCap = 1
    Nobody = Nobody
SPECIFICATION FairSpec
PROPERTY CrashMeansDeath
CHECK_DEADLOCK FALSE
