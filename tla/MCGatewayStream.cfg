SPECIFICATION MCSpec
CONSTANTS
    g1 = g1
    Requests = {1, 2}
    Keys = {k1, k2}
    Apps = {a1, a2}
    NoApp = NoApp
    Claims = {{g1}}
    Provisions <- OneProvision
    DirectRoles = {0}
    BatchLimit = 2
    MaxArrivals = 2
    MaxChanges = 0
INVARIANTS ResumeMissesNothing
CHECK_DEADLOCK FALSE
