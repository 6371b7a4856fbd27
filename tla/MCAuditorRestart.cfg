SPECIFICATION Spec
CONSTANTS
    Jobs = {j1, j2}
    Inputs = {a}
    NoInput = NoInput
    Workers = {w1}
    NoJob = NoJob
    QueueCapacity = 1
    ResultMaxAttempts = 1
    MaxFaults = 0
    MaxCrashes = 1
INVARIANTS RestartSucceeds
CHECK_DEADLOCK FALSE
