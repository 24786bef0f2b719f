SPECIFICATION FairSpec
CONSTANTS
    Containers = {c1, c2}
    Files <- FourFiles
    Version <- Numbers
    Databases <- HandMade
    Once <- CreatesTable
    Needs <- AfterTable
    Text <- Lines
    Faults = {"crash", "sql", "insert"}
    MaxFaults = 3
INVARIANTS
    RecordTrue NoHole
PROPERTIES
    Converges
