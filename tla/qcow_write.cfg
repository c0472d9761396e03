CONSTANTS
    ClusterSize = 2
    L2Entries = 2
    MaxCacheNodes = 2
    Disks <- MCDisks
    Fixed <- MCFixed
    RbEntries = 8
    CountMod = 8
    Sectors = 12
    MaxWrites = 3
SPECIFICATION Spec
INVARIANTS TypeOK CountsCover CachesAgree
PROPERTIES SharedKept
