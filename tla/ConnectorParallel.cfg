SPECIFICATION Spec
CONSTANTS
    Pollers = {p1, p2}
    Events = {}
    SchemaChange = 9
    Interval = 1
    Threshold = 3
    FlapWindow = 2
    Buffer = 1
    MaxLookback = 5
    Never = Never
    MaxTime = 7
    MaxDbErrors = 0
    MaxStops = 0
SYMMETRY Symmetric
INVARIANT
    BackfillsSpaced
CHECK_DEADLOCK FALSE
