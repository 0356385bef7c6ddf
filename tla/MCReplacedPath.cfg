CONSTANTS
    s1 = s1
    Stores <- MCStores
    Inodes <- MCInodes
    Bodies <- MCBodies
    MaxRecords = 2
SPECIFICATION ReplacedSpec
INVARIANT CreatedIdentityIsKept
