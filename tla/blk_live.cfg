CONSTANTS
    Num = 2
    IdxMod = 4
    Types = {"IN"}
    Outcomes = {"ok", "err"}
    FeatureSets <- FlagsFeatures
    AckZero = FALSE
    BatchMax = 1
    WrapMax = 3
    MayReset = FALSE
SPECIFICATION Spec
PROPERTIES RequestServed ImplementsService
CHECK_DEADLOCK FALSE
