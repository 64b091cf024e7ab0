\* Statements of the repository that the investigation service does not keep:
\* TLC finds each of them violated, one at a time.
CONSTANTS
    NumNodes = 3
    MaxEntries = 2
    Watchers = {w1}
SPECIFICATION FairSpec
INVARIANT FailureReported
\* INVARIANT TailComplete
\* INVARIANT LedgerSettles
CHECK_DEADLOCK FALSE
