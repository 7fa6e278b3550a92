SPECIFICATION MetroSpec
CONSTANTS
    Node = {m1, m2}
    EventId = {e1, e2, e3, e4}
    MaxTime = 5
    Interval <- MCNoInterval
    SelfCancel = FALSE
    NoEvent = NoEvent
    Beat <- MCBeat
    DefaultBeat = 200
    EarlyCreate = FALSE
SYMMETRY Symmetry
INVARIANTS
    MetroTypeOK
PROPERTIES
    Regular
CHECK_DEADLOCK FALSE
