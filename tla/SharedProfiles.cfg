\* Two tokens, discovered twice at most.
SPECIFICATION Spec
CONSTANTS
    Tokens <- MCTokens
    Count = 2
    TTL = 2
    MaxTime = 3
    MaxEntries = 3
    MaxFaults = 1
PROPERTIES
    ProfilesAreShared
CHECK_DEADLOCK FALSE
