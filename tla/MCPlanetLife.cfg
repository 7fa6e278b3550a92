SPECIFICATION LifeSpec
CONSTANTS
    Terminal = terminal
    Osc = osc
    Worker = worker
    Nobody = nobody
INVARIANTS
    EndsWhenAsked
    AllThreadsEnded
PROPERTIES
    QuitEnds
CHECK_DEADLOCK FALSE
