SPECIFICATION FairSpec
CONSTANTS
    Unit = 16
    RTT_RXTMIN = 2
    RTT_RXTMAX = 4
    RTT_MAXNREXMT = 1
    MaxRequests = 2
    MaxAge = 2
    MaxCopies = 1
    MaxErrors = 1
INVARIANTS
    RtoInRange
PROPERTIES
    ImplementsRemoteCall
    RttOfThisRequest
    RequestsEnd
CHECK_DEADLOCK FALSE
