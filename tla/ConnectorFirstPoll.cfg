SPECIFICATION JobsSpec
CONSTANTS
    Connectors = {c1, c2}
    Signatures = {"siem|300", "siem|60"}
    ReloadLoop = ReloadLoop
    Off = Off
    MaxEdits = 1
    MaxFailures = 0
    MaxRestarts = 0
PROPERTY
    FirstPoll
CHECK_DEADLOCK FALSE
