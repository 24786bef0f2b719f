SPECIFICATION FairSpec
CONSTANTS
    a1 = a1
    a2 = a2
    p1 = p1
    p2 = p2
    Runs = {a1}
    Slots = {p1}
    SlotOf <- SameSlot
    Workers = {w1}
    Reviewers = {}
    HumanResolutions <- SentResolutions
    AcceptedEvents <- Migration046Events
    AcceptedActors <- Migration046Actors
    StripPrivateKeys = FALSE
    NextDeclared = FALSE
    SidOutcomes = {TRUE, FALSE}
    TimerOutcomes = {TRUE}
    Faults = {}
    MaxFaults = 0
    MaxReceives = 3
PROPERTIES DetectedIsHandled
CHECK_DEADLOCK FALSE
