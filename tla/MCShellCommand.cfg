CONSTANTS
    c1 = c1
    c2 = c2
    Commands <- MCCommands
    MaxSlots = 2
    MaxPanics = 2
    MaxAttempts = 1
SPECIFICATION Spec
SYMMETRY CommandSymmetry
INVARIANTS
    SlotsAreExact
    EveryProcessIsOwned
    ReportIsTrue
    NoStraySignal
CHECK_DEADLOCK FALSE
