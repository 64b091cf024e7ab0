SPECIFICATION FairSpec
CONSTANTS
    Events = {e1, e2, e3}
    QueueSize = 2
    BatchSize = 2
INVARIANT
    GraphAheadIsKnown
PROPERTIES
    StopsOnSignal
    ImplementsLog
    AnsweredAnyway
CHECK_DEADLOCK FALSE
