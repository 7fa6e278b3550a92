SPECIFICATION Spec
CONSTANTS
    Node = {n1, n2}
    EventId = {e1, e2, e3}
    MaxTime = 3
    Interval <- MCInterval
    SelfCancel = TRUE
    NoEvent = NoEvent
PROPERTIES
    NoEventDropped
CHECK_DEADLOCK FALSE
