\* The playbooks of MCPlaybookEngine, dry and not.
CONSTANTS
    Ids <- MCIds
    Nowhere = Nowhere
    Playbooks <- MCPlaybooks
SPECIFICATION FairSpec
INVARIANTS
    CallsBounded
PROPERTY PollEnds
CHECK_DEADLOCK FALSE
