SPECIFICATION Spec
CONSTANTS
    Clients = {c1}
    Intervals = {0, 200, 1000}
    Masks <- OneMask
    MaxCalls = 2
    NoHandler = NoHandler
    MaxCrashes = 1
    MaxPower = 2
    MaxCaps = 2
    Anytime = {"purge"}
INVARIANTS
    CleanedUpOnce
CHECK_DEADLOCK FALSE
