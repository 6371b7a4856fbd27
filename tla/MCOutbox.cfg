SPECIFICATION FairSpec
CONSTANTS
    Events = {e1}
    Publishers = {p1, p2, p3}
    NoEvent = NoEvent
    MaxAttempts = 2
    Limit = 1
    MaxCrashes = 2
    MaxReplays = 1
INVARIANTS TypeOK PublishedWasAccepted RetriesAreBounded
PROPERTIES SettledStaysSettled DeliversAtLeastOnce NoEventStranded
CHECK_DEADLOCK FALSE
