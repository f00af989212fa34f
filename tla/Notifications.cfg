SPECIFICATION Spec
CONSTANTS
    first = first
    second = second
    low = low
    high = high
    A = A
    B = B
    Events = {first, second, low, high}
    Candidates = {A, B}
    Tokens = {"a", "b"}
    CandidateOf <- MCCandidateOf
    TokenOf <- MCTokenOf
    WantedEvents = {first, second, high}
    Idle = Idle
    BatchCount = 2
    MaxEntries = 3
    MaxFaults = 2
INVARIANTS
    TypeOK
    MessagesBounded
    AcknowledgedIsRecorded
PROPERTIES
    UnreadIsSent
CHECK_DEADLOCK FALSE
