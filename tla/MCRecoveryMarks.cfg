CONSTANTS
    m1 = m1
    m2 = m2
    ModelCallIds <- MCModelCallIds
    Stops <- MCStops
    MaxTurns = 2
    MaxEvents = 4
SPECIFICATION RecoverySpec
SYMMETRY CallIdSymmetry
INVARIANT UnansweredCallsAreRecoveryWork
CHECK_DEADLOCK FALSE
