CONSTANTS
    Kinds = {"raw", "mmap", "qcow"}
    SectorSize = 2
    Capacity <- Sizes
    Lens = {2, 6}
    MaxIovs = 2
    MaxSize = 12
    MaxWrites = 2
    HostErrors = {"read", "write", "table", "data"}
    Width = 16
    ClusterSize = 4
    L2Entries = 2
    L1 <- Tables
    L2 <- Clusters
    CompressedAt = {500}
    HasZlib = FALSE
    MaxCacheNodes = 2
SPECIFICATION Spec
INVARIANTS TypeOK CacheSound AmountRead
PROPERTIES ImplementsDisk RequestReturns
CHECK_DEADLOCK FALSE
