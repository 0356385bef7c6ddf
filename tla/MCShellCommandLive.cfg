CONSTANTS
    c1 = c1
    c2 = c2
    Commands <- MCCommands
    MaxSlots = 1
    MaxPanics = 1
    MaxAttempts = 1
SPECIFICATION FairSpec
PROPERTIES
    CancelledCallReturns
    SupervisedCommandIsReaped
CHECK_DEADLOCK FALSE
