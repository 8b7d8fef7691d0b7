\* The queue, the thread and the shutdown: safety, progress, refinement.
CONSTANTS
    Msgs = {m1, m2, m3, m4}
    NoMsg = NoMsg
SPECIFICATION FairSpec
INVARIANTS
    TypeOK
    Fifo
    DestroyedLast
    SingleOwner
    NoLostWakeup
PROPERTIES
    NothingLeaks
    ExecutorSpec
CHECK_DEADLOCK FALSE
