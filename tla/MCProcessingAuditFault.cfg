SPECIFICATION Spec
CONSTANTS
    c1 = c1
    c2 = c2
    u1 = u1
    Tasks = {t1}
    Corpora = {c1}
    Users = {u1}
    NoUser = NoUser
    Owner <- OneUsers
    Workers = {w1, w2}
    NoTask = NoTask
    NoMessage = NoMessage
    MaxCopies = 1
    MaxRetries = 0
    MaxErrors = 0
    MaxAuditFaults = 1
    MaxLosses = 0
    MaxRegistrations = 0
    MaxDirect = 0
SYMMETRY Symmetry
PROPERTIES AuditNeverFailsCorpus
CHECK_DEADLOCK FALSE
