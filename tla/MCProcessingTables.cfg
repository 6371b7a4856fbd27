SPECIFICATION FairSpec
CONSTANTS
    c1 = c1
    c2 = c2
    u1 = u1
    Tasks = {t1, t2}
    Corpora = {c1}
    Users = {u1}
    NoUser = NoUser
    Owner <- OneUsers
    Workers = {w1, w2}
    NoTask = NoTask
    NoMessage = NoMessage
    MaxCopies = 2
    MaxRetries = 1
    MaxErrors = 2
    MaxAuditFaults = 1
    MaxLosses = 0
    MaxRegistrations = 0
    MaxDirect = 1
INVARIANTS TablesAgree
PROPERTIES TasksEnd
CHECK_DEADLOCK FALSE
