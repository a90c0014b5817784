SPECIFICATION ChatSpec
CONSTANTS
    Sizes = {1, 3}
    ClipSize = 2
    Budget = 4
    MaxAttempts = 3
    MaxHistory = 4
INVARIANT
    RetriesSendTheRequest
CHECK_DEADLOCK FALSE
