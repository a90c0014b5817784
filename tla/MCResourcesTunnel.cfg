SPECIFICATION MCRunSpec
CONSTANTS
    research = research
    course = course
    Allowed <- TwoProfiles
    WorkspaceLimit = 2
    HistoryLimit = 2
    MaxJobs = 2
    MaxRestarts = 1
    MaxChoices = 0
    MaxFaults = 0
    MaxTogether = 0
INVARIANTS TrafficReachesTheService
CHECK_DEADLOCK FALSE
