SPECIFICATION Spec
CONSTANTS
    Records <- TwoRecords
    Subscribed = FALSE
    Incremental = TRUE
    MayDelete = TRUE
    MaxEventsPerPoll = 2
    MaxEventsPerMessage = 1
    MaxReceives = 2
    FetchSize = 1
    PageSize = 1
    Faults = {"nightly"}
    MaxFaults = 1
    MaxVersion = 2
    Often = {1, 2}
    MaxTime = 4
    MaxNights = 3
PROPERTIES
    NightlyCovers
CHECK_DEADLOCK FALSE
