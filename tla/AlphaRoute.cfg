\* Two events for one token, two faults at most.
SPECIFICATION Spec
CONSTANTS
    Times <- MCTimes
    Interval = 2
    Count = 2
    MaxFaults = 2
INVARIANTS
    SnapshotsAreRouted
CHECK_DEADLOCK FALSE
