\* Statements of the repository that the action service does not keep: TLC
\* finds each of them violated, one at a time.
SPECIFICATION Spec
CONSTANTS
    Ids = {a1}
    Handlers = {h1, h2}
    Types = {"isolate_host", "block_ip", "chatops_verify"}
    Choices = {ack, deny}
    NoId = NoId
    NoChoice = NoChoice
    MaxResponses = 2
    MaxRestarts = 0
PROPERTY SingleUse
\* PROPERTY RejectOnlyPending
\* INVARIANT ReplyKept
\* INVARIANT PromptedNotFailed
\* INVARIANT LiveWhenCredentialed
\* INVARIANT UngatedCompletedIsLive
\* INVARIANT ChatCommandsGated
CHECK_DEADLOCK FALSE
