\* Statements of the repository that the ingest service does not keep: TLC
\* finds each of them violated, one at a time.
SPECIFICATION Spec
CONSTANTS
    Events = {e1, e2}
    QueueSize = 2
    BatchSize = 2
INVARIANT GraphAfterFusion
\* INVARIANT NothingLeftBehind
CHECK_DEADLOCK FALSE
