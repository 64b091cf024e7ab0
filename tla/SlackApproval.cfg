SPECIFICATION FairSpec
CONSTANTS
    Parked = {a1}
    Clicks = {c1}
    Timers = {t1, t2}
    None = None
    MaxCrashes = 1
    MaxForgets = 1
INVARIANTS
    OneLiveTimer
    AuditIsTrue
    RunsForOne
PROPERTY
    CallsAreAudited
CHECK_DEADLOCK FALSE
