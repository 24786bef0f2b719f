SPECIFICATION Spec
CONSTANTS
    a1 = a1
    a2 = a2
    p1 = p1
    p2 = p2
    Runs = {a1}
    Slots = {p1}
    SlotOf <- SameSlot
    Workers = {w1, w2}
    Reviewers = {h1}
    HumanResolutions <- SentResolutions
    AcceptedEvents <- WrittenEvents
    AcceptedActors <- WrittenActors
    StripPrivateKeys = TRUE
    NextDeclared = TRUE
    SidOutcomes = {TRUE, FALSE}
    TimerOutcomes = {TRUE, FALSE}
    Faults = {"bullhorn", "template", "twilio", "network", "graph_crash", "worker_crash", "visibility", "delete"}
    MaxFaults = 2
    MaxReceives = 3
INVARIANTS TypeOK NoOrphan EventsMatchState ClosedAfterSubmission
PROPERTIES ImplementsContract
CHECK_DEADLOCK FALSE
