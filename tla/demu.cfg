CONSTANTS
    Vcpus = {v1, v2}
    None = None
    Signals = {SIGTERM}
    MayFail = TRUE
SPECIFICATION Spec
INVARIANTS TypeOK HandlesMatchSeq NothingDangles
PROPERTIES IoreqAnswered GuestLetGo
CHECK_DEADLOCK FALSE
