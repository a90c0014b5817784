CONSTANTS
    Handlers = {h1}
    MaxRuns = 2
    MaxLosses = 2
    MaxForeign = 1
    MaxAsks = 1
    MaxKernelRestarts = 1
    Sizes = {1, 3}
    ClipSize = 2
    Budget = 4
    MaxAttempts = 3
    MaxHistory = 5
    research = research
    course = course
    Allowed <- TwoProfiles
    WorkspaceLimit = 2
    HistoryLimit = 1
    MaxJobs = 2
    MaxRestarts = 1
    MaxChoices = 2
    MaxFaults = 1
    MaxTogether = 2
SPECIFICATION MCSpec
INVARIANTS CellTypeOK FinishedWasCompleted SourceIsSavedFirst EndIsCurrent WaitingIsForSomething
    SentHistoryIsCoherent QuestionsAreAnswered
    TypeOK SubmissionIsRecoverable NoForgottenService EndedIsTrue
    KeyStaysUnlessStray CurrentIsNewest LinksAgree
PROPERTIES RunEnds ChatEnds
CHECK_DEADLOCK FALSE
