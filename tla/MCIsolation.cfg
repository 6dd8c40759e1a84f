CONSTANTS
    Tasks = {t1, t2, t3}
    MaxConcurrent = 2
    MaxSpawns = 1
    MaxRejects = 1
SPECIFICATION Spec
INVARIANT NoOrphan
INVARIANT LedgerBalances
PROPERTY RunsEnd
CHECK_DEADLOCK FALSE
