SPECIFICATION FairSpec
CONSTANTS
    Synced <- ThreeTables
    Refusals = TRUE
    None = None
    MaxTime = 2
    MaxEdits = 4
    MaxFaults = 1
PROPERTIES
    PointsToRows CatchesUp
