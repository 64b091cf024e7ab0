SPECIFICATION Spec
CONSTANTS
    a1 = a1
    a2 = a2
    a3 = a3
    a4 = a4
    a5 = a5
    Replicas = {w1, w2}
    Alerts = {a1, a3}
    Invalid = {}
    Malformed = {}
    Fingerprint <- FingerprintOf
    CorrelationKey <- KeyOf
    MaxAlerts = 3
    None = None
    MaxMessages = 2
    MaxIncidents = 3
    MaxCrashes = 0
    MaxErrors = 0
INVARIANT
    PublishedIsStored
CHECK_DEADLOCK FALSE
