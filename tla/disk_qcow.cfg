CONSTANTS
    Kinds = {"qcow"}
    SectorSize = 2
    Capacity <- Sizes
    Lens = {2, 4, 6}
    MaxIovs = 2
    MaxSize = 12
    MaxWrites = 1
    HostErrors = {}
    Width = 16
    ClusterSize = 4
    L2Entries = 2
    L1 <- Tables
    L2 <- Clusters
    CompressedAt = {500}
    HasZlib = FALSE
    MaxCacheNodes = 1
SPECIFICATION Safety
INVARIANTS IsAmountRead
