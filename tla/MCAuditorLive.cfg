SPECIFICATION FairSpec
CONSTANTS
    Jobs = {j1}
    Inputs = {a}
    NoInput = NoInput
    Workers = {w1, w2}
    NoJob = NoJob
    QueueCapacity = 1
    ResultMaxAttempts = 2
    MaxFaults = 2
    MaxCrashes = 2
PROPERTIES EveryJobIsReported
CHECK_DEADLOCK FALSE
