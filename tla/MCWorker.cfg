SPECIFICATION FairSpec
CONSTANTS
    Node = {n1, n2}
    EventId = {e1, e2}
    MaxTime = 3
    Interval <- MCInterval
    SelfCancel = FALSE
    NoEvent = NoEvent
INVARIANTS
    TypeOK
    QueueOrdered
    NothingOverdue
    NoDanglingNode
PROPERTIES
    TriggersInOrder
    NoEventDropped
    ImplementsCalendar
    EveryEventServed
    RoundEnds
CHECK_DEADLOCK FALSE
