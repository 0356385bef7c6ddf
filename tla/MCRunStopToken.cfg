CONSTANTS
    t1 = t1
    t2 = t2
    t3 = t3
    Threads <- MCThreads
    Stops <- MCStops
    Runs <- MCRuns
SPECIFICATION Spec
SYMMETRY ThreadSymmetry
INVARIANTS TypeOK StopVisibleOnReturn
PROPERTIES TokenIsAtomic
