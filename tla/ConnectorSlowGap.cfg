SPECIFICATION Spec
CONSTANTS
    Pollers = {p1}
    Events <- EveryTick
    SchemaChange = 9
    Interval = 2
    Threshold = 3
    FlapWindow = 2
    Buffer = 1
    MaxLookback = 5
    Never = Never
    MaxTime = 7
    MaxDbErrors = 0
    MaxStops = 0
INVARIANT
    BufferCoversGap
CHECK_DEADLOCK FALSE
