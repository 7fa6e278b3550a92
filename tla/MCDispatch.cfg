SPECIFICATION DispatchSpec
CONSTANTS
    n1 = n1
    n2 = n2
    n3 = n3
    Node = {n1, n2, n3}
    InletCount <- MCInletCount
    OutletCount <- MCOutletCount
    Compatible <- MCCompatible
    MaxPosition = 4
    MaxCreations = 3
    MaxId = 2
    Ties = FALSE
    MaxDepth = 3
    MaxSends = 1
INVARIANTS
    PatchTypeOK
    LinksMutual
    RightmostFirst
    ServedOnceInOrder
    ChainOfCalls
    DepthBounded
PROPERTIES
    NoLinkLost
    ImplementsWiring
    DispatchEnds
CHECK_DEADLOCK FALSE
