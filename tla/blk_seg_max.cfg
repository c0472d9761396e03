CONSTANTS
    Num = 2
    IdxMod = 4
    Types = {"IN"}
    Outcomes = {"ok"}
    FeatureSets <- SegMaxOnly
    AckZero = FALSE
    BatchMax = 2
    WrapMax = 3
    MayReset = FALSE
INIT Init
NEXT Next
PROPERTIES InterruptUnlessTold
CHECK_DEADLOCK FALSE
