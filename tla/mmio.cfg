CONSTANTS
    Addrs <- MCAddrs
    Word = 4
    PageSize = 2
    QueueSize = 3
    Capacity = 9
    HostFeatures <- MCHostFeatures
    DieEarly = FALSE
    MaxFds = 2
SPECIFICATION Spec
INVARIANTS TypeOK QueueHasOneThread FreshQueue DriverTold
PROPERTIES JoinReturns KickServed
CHECK_DEADLOCK FALSE
