SPECIFICATION PlanetSpec
CONSTANTS
    a = a
    b = b
    Node = {a, b}
    InletCount <- MCInletCount
    OutletCount <- MCOutletCount
    Compatible <- MCCompatible
    MaxPosition = 4
    MaxCreations = 3
    MaxId = 1
    Ties = FALSE
    Request <- MCRequest
    Late <- MCLate
    Repeats = FALSE
INVARIANTS
    
    
    PendingForAReason
CHECK_DEADLOCK FALSE
