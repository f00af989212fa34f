\* The sources build_live_sources makes, and no faults.
SPECIFICATION Spec
CONSTANTS
    w1 = w1
    w2 = w2
    Sources <- MCSources
    Name <- MCName
    Trades <- MCTrades
    Unclear <- MCUnclear
    MaxHeight = 2
    PollLimit = 2
    Lookback = 2
    Spans <- MCSpans
    FactLimit = 2
    SampleLimit = 1
    Backoff = 1
    Cooldown = 2
    MaxFailures = 2
    Count = 2
    Tracked <- MCTracked
    Leaderboard <- MCLeaderboard
    Deployments <- MCProfiles
    MaxOthers = 1
    MaxFaults = 0
PROPERTIES
    ConfiguredSourcesStore
CHECK_DEADLOCK FALSE
