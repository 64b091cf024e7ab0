SPECIFICATION Spec
CONSTANTS
    Pollers = {p1}
    Events <- SomeTicks
    SchemaChange = 3
    Interval = 1
    Threshold = 3
    FlapWindow = 2
    Buffer = 1
    MaxLookback = 5
    Never = Never
    MaxTime = 6
    MaxDbErrors = 1
    MaxStops = 1
INVARIANTS
    OutageIsFirstFailure
    BackfillsSpaced
    BackfillClosesOutage
PROPERTY
    DriftNoticed
CHECK_DEADLOCK FALSE
