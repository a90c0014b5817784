SPECIFICATION MCSpec
CONSTANTS
    k1 = k1
    k2 = k2
    k3 = k3
    a1 = a1
    a2 = a2
    g1 = g1
    g2 = g2
    Requests = {1, 2}
    Keys = {k1, k2, k3}
    Apps = {a1, a2}
    NoApp = NoApp
    Claims <- TwoClaims
    Provisions <- TwoProvisions
    DirectRoles = {0, 3}
    BatchLimit = 1
    MaxArrivals = 3
    MaxChanges = 1
    Questions <- MCQuestions
SYMMETRY Symmetry
INVARIANTS TypeOK OneEffectPerKey OneActivePerApp SameAnswer LastEventTellsState Progress
           OrderNeverChooses AttachmentIsJustified PlacementIsHonest
PROPERTIES SyncIsExact IsLedger
CHECK_DEADLOCK FALSE
