SPECIFICATION Spec
CONSTANTS
    Records <- TwoRecords
    Subscribed = TRUE
    Incremental = TRUE
    MayDelete = FALSE
    MaxEventsPerPoll = 2
    MaxEventsPerMessage = 1
    MaxReceives = 2
    FetchSize = 1
    PageSize = 1
    Faults = {"expiry"}
    MaxFaults = 1
    MaxVersion = 2
    Often = {1, 2}
    MaxTime = 3
    MaxNights = 1
PROPERTIES
    GapCovered
CHECK_DEADLOCK FALSE
