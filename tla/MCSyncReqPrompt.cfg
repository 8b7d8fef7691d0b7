SPECIFICATION Spec
CONSTANTS
    Threads = {t1,t2,t3}
    IndOf <- OwnInds
    NSlots = 3
    NoInd = NoInd
    None = None
    MaxCalls = 2
    Late = FALSE
    Spurious = FALSE
INVARIANTS
    SuccessHasAnswer
    TimeoutOnlyIfLost
CHECK_DEADLOCK FALSE
