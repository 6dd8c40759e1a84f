CONSTANTS
    Agents = {a1, a2}
    MaxSessions = 3
    MaxWorkers = 2
    MaxRestarts = 1
    Nobody = Nobody
SPECIFICATION Spec
INVARIANT TypeOK
INVARIANT PoolIsCapped
INVARIANT TablesAgree
INVARIANT WaitsAreOrdered
PROPERTY HealthFollowsMachine
PROPERTY ImplementsHandleTable
SYMMETRY AgentSymmetry
CHECK_DEADLOCK FALSE
