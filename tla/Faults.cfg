SPECIFICATION Spec
CONSTANTS
    buyA = buyA
    exitA = exitA
    buyB = buyB
    A = A
    B = B
    NoIntent = NoIntent
    Intents <- MCIntents
    Tokens = {A, B}
    TokenOf <- MCTokenOf
    ActionOf <- MCActionOf
    MaxBatches = 2
    MaxCrashes = 2
    MaxStoreErrors = 1
    MaxConcurrentPositions = 2
    ExposureLimit = 2
    TargetNotional = 1
    MaxRetries = 1
INVARIANTS
    TypeOK
    AttemptsBounded
    FillsBacked
    VisibleToRecovery
    BookedPerAttempt
    OpenCountDrift
PROPERTIES
    ImplementsLifecycle
CHECK_DEADLOCK FALSE
