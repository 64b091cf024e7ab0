SPECIFICATION JobsSpec
CONSTANTS
    Connectors = {c1, c2}
    Signatures = {"siem|300", "siem|60"}
    ReloadLoop = ReloadLoop
    Off = Off
    MaxEdits = 3
    MaxFailures = 1
    MaxRestarts = 1
INVARIANTS
    KnownIsScheduled
PROPERTY
    Converges
CHECK_DEADLOCK FALSE
