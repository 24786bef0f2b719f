SPECIFICATION MissesSpec
CONSTANTS
    d1 = d1
    d2 = d2
    Weeks = 3
    Detectors = {d1, d2}
    Sheets <- MCSheets
    Histories <- MCHistories
    Settings <- MCSettings
    Mutes <- MCMutes
    Resolutions = {"employee_corrected", "hitl_resolved"}
    MaxAlerts = 3
    MaxMutes = 1
    Bad = Bad
    None = None
PROPERTY
    FirstMissRaised
CHECK_DEADLOCK FALSE
