CONSTANTS
    Callers = {c1, c2}
    MaxCalls = 4
    ChanCap = 1
    PipeCap = 1
    Nobody = Nobody
SPECIFICATION FairSpec
INVARIANT AnswerIsOwn
INVARIANT NoLostReply
INVARIANT IInv
PROPERTY ImplementsCallService
PROPERTY AcceptedCallReturns
PROPERTY DeathFreesCallers
PROPERTY ReportedCrashIsSeen
CHECK_DEADLOCK FALSE
