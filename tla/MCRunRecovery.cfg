CONSTANTS
    m1 = m1
    m2 = m2
    ModelCallIds <- MCModelCallIds
    Stops <- MCStops
    MaxTurns = 2
    MaxEvents = 5
SPECIFICATION RecoverySpec
SYMMETRY CallIdSymmetry
INVARIANTS
    EveryLogReplays
    RecoveryFindsEffects
    ReplayedEndIsTheTokens
    ReconcileNeverConflicts
CHECK_DEADLOCK FALSE
