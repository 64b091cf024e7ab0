\* Beside the run: two clicks race each other and two timers (safety only).
SPECIFICATION Spec
CONSTANTS
    Parked = {a1}
    Clicks = {c1, c2}
    Timers = {t1, t2}
    None = None
    MaxCrashes = 1
    MaxForgets = 1
SYMMETRY Symmetric
INVARIANTS
    OneLiveTimer
    AuditIsTrue
    RunsForOne
CHECK_DEADLOCK FALSE
