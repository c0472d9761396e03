CONSTANTS
    PageSize = 4
    FirstPage = 16
    Place <- FirstFit
    Builds = {FALSE}
    Ram0Base = 1
    Ram0Size = 6
    Ram1Base = 8
    TotPages = 10
    Drivers <- MCDrivers
    Chains <- MCChains
    RingSize = 6
    Num = 3
    TableAt = 22
    FailAt = {}
    SameModel = FALSE
    Guests = 2
    Loads = 2
SPECIFICATION Spec
INVARIANTS AddressesOfOneKind
CHECK_DEADLOCK FALSE
