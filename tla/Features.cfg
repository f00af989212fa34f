\* A source of a profile and one that works, four trades, a file of trades and one of quotes,
\* and five deployments.  The longer window holds one trade more than is loaded.
SPECIFICATION Spec
CONSTANTS
    w1 = w1
    w2 = w2
    Sources <- MCSources
    Name <- MCName
    Trades <- MCTrades
    Unclear <- MCUnclear
    MaxHeight = 2
    PollLimit = 2
    Lookback = 1
    Spans <- MCSpans
    FactLimit = 2
    SampleLimit = 1
    Backoff = 1
    Cooldown = 2
    MaxFailures = 2
    Count = 2
    Tracked <- MCTracked
    Leaderboard <- MCLeaderboard
    Deployments <- MCDeployments
    MaxOthers = 1
    MaxFaults = 1
INVARIANTS
    TypeOK
    StoredIsPublished
    CursorPassesStored
    ProjectionSkipsNothing
PROPERTIES
    PublishedBecomesFlow
CHECK_DEADLOCK FALSE
