\* A handler runs after an approval nobody gave.
CONSTANTS
    Ids <- MCIds
    Nowhere = Nowhere
    Playbooks <- MCPlaybooks
SPECIFICATION Spec
INVARIANT ApprovalGates
CHECK_DEADLOCK FALSE
