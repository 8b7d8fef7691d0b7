SPECIFICATION FairSpec
CONSTANTS
    Apis = {a1, a2}
    Loadable = {"gnss", "batching"}
    CallbackKinds <- Kinds
    MaxUpdates = 1
INVARIANTS
    TypeOK
    NoDanglingApi
    FrameworkInUse
PROPERTIES
    DestroyCompletes
CHECK_DEADLOCK FALSE
