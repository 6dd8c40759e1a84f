SPECIFICATION Spec
CONSTANTS
    Agents = {a1}
    Requests = {r1}
    Backends = {"mock", "idalib"}
    MaxEdits = 3
    MaxPlan = 2
    MaxSnapshots = 1
    MaxRevision = 4
INVARIANT TypeOK
INVARIANT AnswersAreCurrent
INVARIANT GuardedEditIsInformed
INVARIANT AuditIsOrdered
PROPERTY AuditIsKept
PROPERTY RollbackUndoesTransform
CHECK_DEADLOCK FALSE
