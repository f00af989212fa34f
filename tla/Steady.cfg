SPECIFICATION FairSpec
CONSTANTS
    buyA = buyA
    exitA = exitA
    buyB = buyB
    A = A
    B = B
    NoIntent = NoIntent
    Intents <- MCIntents
    Tokens = {A, B}
    TokenOf <- MCTokenOf
    ActionOf <- MCActionOf
    MaxBatches = 2
    MaxCrashes = 1
    MaxStoreErrors = 1
    MaxConcurrentPositions = 2
    ExposureLimit = 3
    TargetNotional = 2
    MaxRetries = 1
INVARIANTS
    ExhaustedIsAnswered
    ExposureWithinLimit

PROPERTIES
    StartReachesPoll
    PendingIsSettled
CHECK_DEADLOCK FALSE
