SPECIFICATION FairSpec
CONSTANTS
    u1 = u1
    Jobs = {1, 2}
    Users = {u1}
    Requester <- OneUser
    Workers = {w1, w2}
    Sweepers = {s1}
    NoJob = NoJob
    NoMessage = NoMessage
    MaxDownloads = 1
    MaxRetries = 1
    MaxCopies = 1
    MaxErrors = 2
    MaxLosses = 1
    MaxDeletions = 1
    MaxFaults = 3
INVARIANTS TypeOK JobsAreExclusive DownloadableHasFile
PROPERTIES ExportsEnd
CHECK_DEADLOCK FALSE
