SPECIFICATION FairSpec
CONSTANTS
    Audits = {a1}
    TaskWorkers = {w1, w2}
    NoMessage = NoMessage
    MaxCopies = 2
    MaxRetries = 1
    ResultMaxAttempts = 2
    ReadCount = 2
    MaxOutages = 1
    MaxRejections = 1
    MaxCrashes = 1
INVARIANTS TypeOK OneClaimant EndedAsReported AckedEntriesAreSettled
PROPERTIES OutcomeIsFinal PublishedAuditsEnd
CHECK_DEADLOCK FALSE
