SPECIFICATION Spec
CONSTANTS
    c1 = c1
    c2 = c2
    u1 = u1
    Tasks = {t1, t2}
    Corpora = {c1, c2}
    Users = {u1}
    NoUser = NoUser
    Owner <- Mixed
    Workers = {w1, w2}
    NoTask = NoTask
    NoMessage = NoMessage
    MaxCopies = 2
    MaxRetries = 1
    MaxErrors = 2
    MaxAuditFaults = 0
    MaxLosses = 1
    MaxRegistrations = 1
    MaxDirect = 1
SYMMETRY Symmetry
INVARIANTS TypeOK OneWorkerPerTask OneActiveTask IndexMatchesStatus
PROPERTIES EndedStaysEnded
CHECK_DEADLOCK FALSE
