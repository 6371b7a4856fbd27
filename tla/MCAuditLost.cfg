SPECIFICATION Spec
CONSTANTS
    Audits = {a1}
    TaskWorkers = {w1}
    NoMessage = NoMessage
    MaxCopies = 1
    MaxRetries = 1
    ResultMaxAttempts = 1
    ReadCount = 1
    MaxOutages = 0
    MaxRejections = 0
    MaxCrashes = 1
INVARIANTS NoAuditIsLost
CHECK_DEADLOCK FALSE
