\* One wallet, two routers, two calls, every venue and every setting of the switches.
SPECIFICATION Spec
CONSTANTS
    Spenders <- MCSpenders
    MaxTries = 2
    MaxPolls = 2
    Credentials <- MCCredentials
    NativePrices <- MCNativePrices
    Funds = 4
    MinBalance = 2
    MaxCalls = 2
INVARIANTS
    TypeOK
    FilledIsMined
    SwapAfterApproval
    PaperNeverSigns
PROPERTIES
    ImplementsVenueCall
    CallEnds
CHECK_DEADLOCK FALSE
