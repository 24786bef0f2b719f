SPECIFICATION MCSpec
CONSTANTS
    a1 = a1
    a2 = a2
    t1 = t1
    c1 = c1
    h1 = h1
    h2 = h2
    NoEntity = NoEntity
    Reviewers = {h1, h2}
    Alerts = {a1, a2}
    Sheets = {t1}
    Charges = {c1}
    SheetOf <- SheetOfAlert
    ChargeOf <- ChargeOfAlert
    SentResolutions <- SomeResolutions
    AcceptedEvents <- Migration046Events
    AcceptedActors <- Migration046Actors
    Edited = {c1}
    MaxRequests = 3
    MaxFaults = 0
INVARIANTS
    EveryActionLogged
CHECK_DEADLOCK FALSE
