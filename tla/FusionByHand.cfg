SPECIFICATION FairSpec
CONSTANTS
    a1 = a1
    a2 = a2
    a3 = a3
    a4 = a4
    a5 = a5
    Replicas = {w1}
    Alerts = {a1, a4}
    Invalid = {}
    Malformed = {a4}
    Fingerprint <- FingerprintOf
    CorrelationKey <- KeyOf
    MaxAlerts = 2
    None = None
    MaxMessages = 2
    MaxIncidents = 3
    MaxCrashes = 1
    MaxErrors = 1
\* Each fails; take the one in question out of its comment.
\* INVARIANT
\*     RedeliveredIsGrouped
\* PROPERTY
\*     EveryValidFused
PROPERTY
    SentIsDelivered
CHECK_DEADLOCK FALSE
