CONSTANTS
    s1 = s1
    s2 = s2
    Stores <- MCStores
    Inodes <- MCInodes
    Bodies <- MCBodies
    MaxRecords = 2
SPECIFICATION Spec
SYMMETRY StoreSymmetry
INVARIANTS
    DurableAcksSurvive
    ReadersSeeWholeRecords
PROPERTIES
    ImplementsCanonicalLog
    ReconcileEstablishes
