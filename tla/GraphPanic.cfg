\* A client leaves while the loop has it among its targets.
SPECIFICATION MCSpec
CONSTANTS
    c1 = c1
    c2 = c2
    t1 = t1
    t2 = t2
    Clients = {c1, c2}
    Tenants = {t1, t2}
    Unscoped = Unscoped
    Garbage = Garbage
    Buffer = 1
    MaxUpdates = 2
INVARIANT NoSendOnClosed
CHECK_DEADLOCK FALSE
