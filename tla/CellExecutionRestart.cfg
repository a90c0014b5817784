CONSTANTS
    Handlers = {h1}
    MaxRuns = 2
    MaxLosses = 2
    MaxForeign = 1
    MaxAsks = 1
    MaxKernelRestarts = 1
SPECIFICATION CellFairSpec
PROPERTIES WaitingOrInterruptingHelps
CHECK_DEADLOCK FALSE
