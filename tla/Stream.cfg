SPECIFICATION FairSpec
CONSTANTS
    signalWorkers = signalWorkers
    socialConfirmation = socialConfirmation
    Groups = {signalWorkers, socialConfirmation}
    DeadLetterGroups = {signalWorkers}
    AckFirstGroups = {socialConfirmation}
    TokenGroups = {signalWorkers}
    Tokens = {A, B}
    A = A
    B = B
    BatchCount = 3
    ReplayCount = 2
    MaxEntries = 3
    MaxCrashes = 2
INVARIANTS
    TypeOK
    StartedOnce
    LossBounded
    TokenOrder
PROPERTIES
    EveryEntryDelivered
CHECK_DEADLOCK FALSE
