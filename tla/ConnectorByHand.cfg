\* Statements of the repository that the poller does not keep: TLC finds each
\* of them violated, one at a time.
SPECIFICATION Spec
CONSTANTS
    Pollers = {p1}
    Events <- EveryTick
    SchemaChange = 9
    Interval = 1
    Threshold = 3
    FlapWindow = 2
    Buffer = 1
    MaxLookback = 5
    Never = Never
    MaxTime = 7
    MaxDbErrors = 0
    MaxStops = 0
INVARIANT BackfillFillsOutage
\* PROPERTY LongOutageFilled
\* PROPERTY ShortOutageCovered
CHECK_DEADLOCK FALSE
