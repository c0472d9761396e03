CONSTANTS
    Num = 2
    IdxMod = 4
    Types = {"IN"}
    Outcomes = {"ok", "err"}
    FeatureSets <- EventIdxFeatures
    AckZero = TRUE
    BatchMax = 2
    WrapMax = 3
    MayReset = TRUE
SPECIFICATION Safety
INVARIANTS TypeOK HeadOwnership NoLostKick NoLostInterrupt NoAccessAfterReturn
PROPERTIES QuietAfterReset
