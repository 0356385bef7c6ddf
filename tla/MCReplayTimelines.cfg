CONSTANTS
    u1 = u1
    u2 = u2
    c1 = c1
    c2 = c2
    a1 = a1
    a2 = a2
    Turns <- MCTurns
    Calls <- MCCalls
    Approvals <- MCApprovals
    SequenceNumbers <- MCSequenceNumbers
    MaxLength = 9
SPECIFICATION TimelineSpec
SYMMETRY IdSymmetry
INVARIANTS
    StrictIsExact
    LegacyExtendsStrict
CHECK_DEADLOCK FALSE
