CONSTANTS
    MaxJobs = 3
    Sessions = {s1}
    MaxRunning = 2
    TTL = 1
SPECIFICATION JobsSpec
INVARIANT OutcomeIsKept
PROPERTY JobsEnd
PROPERTY FinishedIsSwept
CHECK_DEADLOCK FALSE
