SPECIFICATION FairSpec
CONSTANTS
    Threads = {t1,t2,t3}
    IndOf <- OneInd
    NSlots = 2
    NoInd = NoInd
    None = None
    MaxCalls = 1
    Late = TRUE
    Spurious = TRUE
INVARIANTS
    TypeOK
    SlotsOwned
    BufferAlive
    WaitingMatches
PROPERTIES
    CallReturns
CHECK_DEADLOCK FALSE
