SPECIFICATION MetroFairSpec
CONSTANTS
    Node = {m1}
    EventId = {e1, e2, e3}
    MaxTime = 5
    Interval <- MCNoInterval
    SelfCancel = FALSE
    NoEvent = NoEvent
    Beat <- MCBeatOrZero
    DefaultBeat = 200
    EarlyCreate = FALSE
INVARIANTS
    BeatPending
PROPERTIES
    KeepsBanging
CHECK_DEADLOCK FALSE
