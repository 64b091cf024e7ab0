\* Statements of the repository that the code does not keep: TLC finds each of
\* them violated, one at a time.
SPECIFICATION RowsSpec
CONSTANTS
    d1 = d1
    d2 = d2
    Deciders = {d1, d2}
    Nobody = Nobody
    MaxAsks = 2
    w1 = w1
    w2 = w2
    Rows = {1, 2, 3}
    NoHash = NoHash
    MaxInstants = 2
    None = None
    Workers = {w1, w2}
    AlarmThreshold = 2
    MaxTokens = 3
    MaxStops = 1
    Replicas = {w1}
\* Replicas = {w1, w2}
    Entities = {"user", "host"}
    Alerts = {"a1", "a2"}
    Touches <- MCTouches
    Points <- MCPoints
    Nil = Nil
    PromotionThreshold = 20
    Window = 2
    MaxTime = 3
    MaxSignals = 3
    MaxFails = 1
    MaxTop = 2
    Users = {"ann", "bob"}
    Requests = {1, 2, 3}
    Topics = {"cases", "alerts"}
    MaxExpired = 1
PROPERTY NoFlip
\* INVARIANT LastHeardIsTrue
\* PROPERTY PollMarkKept
\* PROPERTY CountStartsAnew
\* PROPERTY ConsentKept
\* INVARIANT TiesVerify
\* INVARIANT QueueIsCurrent
\* INVARIANT ColdLeaveQueue
\* INVARIANT PromotionReported
\* INVARIANT OptOutSettles
\* INVARIANT PushGoesToUser
\* INVARIANT FreshIsFound
\* INVARIANT GoneIsGone
\* With two Replicas also:
\* INVARIANT ScoreIsDecayedSum
\* INVARIANT PromotedOnce
CHECK_DEADLOCK FALSE
