CONSTANTS
    Images <- EveryImage
    Start = 512
    Size = 4
    FailAt <- EveryCall
    MaxFds = 4
    Rounds = 2
SPECIFICATION Spec
INVARIANTS TypeOK ReadOnlyTold DeviceComplete DescriptorsGivenBack
CHECK_DEADLOCK FALSE
