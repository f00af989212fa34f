SPECIFICATION Spec
CONSTANTS
    ObservedSignals <- MCObservedSignals
    MinTransitionInterval = 2
    Cooldown = 2
    BatchCount = 2
    MaxTime = 4
    MaxEvents = 2
    MaxFaults = 1
    MaxReplays = 1
INVARIANTS
    TypeOK
    DistributionIsFlat
    ReentryCooled
    ConfirmationsDieOut
PROPERTIES
    ChangesSpaced
CHECK_DEADLOCK FALSE
