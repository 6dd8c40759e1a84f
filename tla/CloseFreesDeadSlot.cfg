CONSTANTS
    Agents = {a1, a2}
    MaxSessions = 2
    MaxWorkers = 1
    MaxRestarts = 1
    Nobody = Nobody
SPECIFICATION Spec
PROPERTY CloseFreesDeadSlot
CHECK_DEADLOCK FALSE
