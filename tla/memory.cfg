CONSTANTS
    PageSize = 4
    FirstPage = 16
    Place <- FirstFit
    Builds <- AnyBuild
    Ram0Base = 1
    Ram0Size = 6
    Ram1Base = 8
    TotPages = 10
    Drivers <- MCDrivers
    Chains <- MCChains
    RingSize = 6
    Num = 3
    TableAt = 22
    FailAt <- EveryMapping
    SameModel = TRUE
    Guests = 2
    Loads = 1
SPECIFICATION Spec
INVARIANTS TypeOK PointersReachGuest MappingsUndone
CHECK_DEADLOCK FALSE
