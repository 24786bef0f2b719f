SPECIFICATION FairSpec
CONSTANTS
    Records <- TwoRecords
    Subscribed = TRUE
    Incremental = TRUE
    MayDelete = FALSE
    MaxEventsPerPoll = 2
    MaxEventsPerMessage = 2
    MaxReceives = 3
    FetchSize = 1
    PageSize = 1
    Faults <- EventFaults
    MaxFaults = 3
    MaxVersion = 2
    Often = {1}
    MaxTime = 1
    MaxNights = 0
INVARIANTS
    TypeOK Tracked
PROPERTIES
    Applied
CHECK_DEADLOCK FALSE
