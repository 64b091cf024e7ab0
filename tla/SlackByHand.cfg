\* Statements of the repository that the Slack bot does not keep: TLC finds
\* each of them violated, one at a time.
SPECIFICATION Spec
\* SPECIFICATION FairBotSpec, for ForgottenSettles
CONSTANTS
    Parked = {a1}
    Clicks = {c1, c2}
    Timers = {t1}
    None = None
    MaxCrashes = 0
    MaxForgets = 0
INVARIANT OneTerminalDecision
\* INVARIANT FallbackAudited
\* PROPERTY ForgottenSettles
CHECK_DEADLOCK FALSE
