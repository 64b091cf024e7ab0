SPECIFICATION FairSpec
CONSTANTS
    a1 = a1
    a2 = a2
    a3 = a3
    a4 = a4
    a5 = a5
    Replicas = {w1}
    Alerts = {a1, a2, a3, a4, a5}
    Invalid = {a5}
    Malformed = {a4}
    Fingerprint <- FingerprintOf
    CorrelationKey <- KeyOf
    MaxAlerts = 2
    None = None
    MaxMessages = 2
    MaxIncidents = 2
    MaxCrashes = 1
    MaxErrors = 1
INVARIANTS
    CountedOnce
    PublishedIsStored
    NoAlertLost
PROPERTY
    EveryAlertFused
CHECK_DEADLOCK FALSE
