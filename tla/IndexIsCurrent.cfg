SPECIFICATION Spec
CONSTANTS
    Agents = {a1}
    Requests = {r1}
    Backends = {"idalib"}
    MaxEdits = 2
    MaxPlan = 1
    MaxSnapshots = 1
    MaxRevision = 3
INVARIANT IndexIsCurrent
CHECK_DEADLOCK FALSE
