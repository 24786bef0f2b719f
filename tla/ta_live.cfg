SPECIFICATION FairSpec
CONSTANTS
    a1 = a1
    a2 = a2
    p1 = p1
    p2 = p2
    Runs = {a1}
    Slots = {p1}
    SlotOf <- SameSlot
    Workers = {w1}
    Reviewers = {h1}
    HumanResolutions <- SentResolutions
    AcceptedEvents <- Migration046Events
    AcceptedActors <- Migration046Actors
    StripPrivateKeys = TRUE
    NextDeclared = TRUE
    SidOutcomes = {TRUE, FALSE}
    TimerOutcomes = {TRUE}
    Faults = {"twilio", "template", "worker_crash", "delete"}
    MaxFaults = 1
    MaxReceives = 3
PROPERTIES SlaHonoured
CHECK_DEADLOCK FALSE
