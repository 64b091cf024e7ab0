SPECIFICATION Spec
CONSTANTS
    Ids = {a1, a2}
    Handlers = {h1, h2}
    Types = {"reset_password", "block_ip", "create_ticket", "notify_slack", "chatops_verify", "capture_forensics"}
    Choices = {ack, deny}
    NoId = NoId
    NoChoice = NoChoice
    MaxResponses = 2
    MaxRestarts = 1
SYMMETRY Symmetric
INVARIANTS
    AtMostOneRun
    CompletedTookEffect
    ChoiceOnTimeline
PROPERTIES
    ImplementsDesk
    SettledReplyStays
CHECK_DEADLOCK FALSE
