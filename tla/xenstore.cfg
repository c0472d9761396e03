CONSTANTS
    MaxDomid = 2
SPECIFICATION Spec
INVARIANTS TypeOK
PROPERTIES KeptWhileThere GuestLeft ConnectEnds NewestFound
CHECK_DEADLOCK FALSE
