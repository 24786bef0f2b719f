SPECIFICATION AgentsSpec
CONSTANTS
    x3 = x3
    h1 = h1
    Actions = {x1, x2, x3}
    Operators = {h1, h2, h3}
    Outcomes <- HandledOutcomes
    MaxFailures = 1
    d1 = d1
    d2 = d2
    Weeks = 3
    Detectors = {d1, d2}
    Sheets <- MCSheets
    Histories <- MCHistories
    Settings <- MCSettings
    Mutes <- MCMutes
    Resolutions = {"employee_corrected", "hitl_resolved"}
    MaxAlerts = 3
    MaxMutes = 1
    Bad = Bad
    None = None
    Agents = {"invoice_matching", "gl_reconciliation", "payroll_reconciliation"}
    Keys = {"k", ""}
    NoKey = ""
    Amounts <- MCAmounts
    MaxDocuments = 2
    MaxCharges = 2
    NoCharge = NoCharge
    Jobs <- MCJobs
    RiskOverrides <- MCRiskOverrides
    Schedules <- MCSchedules
    StateWages <- MCStateWages
    Unset = Unset
    Editors = {"e1", "e2"}
    Drafts <- MCDrafts
    Found <- MCFound
    PlatformText <- MCPlatformText
    Nothing = Nothing
    MaxEdits = 5
    Callers = {"n1", "n2"}
    Configured = {"claude-sonnet", "gpt-4o-mini"}
    Threshold = 3
    RetryMax = 3
    Idling = Idling
    MaxCalls = 6
    Persons <- Three
    Emails = {"e1", "e2", "e3"}
    Bootstrap <- Roles
    BootstrapEmail <- Addresses
    NewUsers <- Invited
    Updates <- SomeUpdates
    TTL = 1
    Null = Null
    MaxTime = 2
    MaxRequests = 2
    Records <- TwoRecords
    Placements <- TwoPlacements
    Named = {"p1"}
    Strays = {"x"}
    Names <- TwoNames
    NameOf <- OnRecord
    Spelling <- OneSpelling
    Likeness <- Alike
    Discrepant <- Differ
    Reviewers = {a, b}
    Absent = Absent
    MaxRuns = 2
    MaxReviews = 2
    MaxAnswers = 1
    Certainties = {"low"}
INVARIANTS
    TypeOK ExecutedWasApproved CompletedMeansExecuted ReportTrue
    FirstMissFirst OneOpen InvoicesPaired Accounted LossesReachAPerson OlderIsNotGentler
    ServedIsLatest OpenAfterFailures
    AuditTrue GrantedFromAbove TokensFollow AliasFollowsMatch CorrectedIsTaught
PROPERTY
    FollowsLifecycle
CHECK_DEADLOCK FALSE
