\* Three nodes of up to two entries and one client: an entry can arrive
\* while the slice taken before it is being sent.
CONSTANTS
    NumNodes = 3
    MaxEntries = 2
    Watchers = {w1}
SPECIFICATION FairSpec
INVARIANTS
    LedgerAgrees
    TailInOrder
    StreamIsLog
PROPERTY WatcherHears
CHECK_DEADLOCK FALSE
