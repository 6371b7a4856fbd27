SPECIFICATION Spec
CONSTANTS
    Jobs = {j1, j2}
    Inputs = {a}
    NoInput = NoInput
    Workers = {w1, w2}
    NoJob = NoJob
    QueueCapacity = 2
    ResultMaxAttempts = 1
    MaxFaults = 2
    MaxCrashes = 1
SYMMETRY Symmetry
INVARIANTS TypeOK EveryJobHasOnePlace DeliveredWasSent OneVerdict
PROPERTIES VerdictIsDurable
CHECK_DEADLOCK FALSE
