\* AGPS: two handles, all types, a framework that answers in order.
CONSTANTS
    Handles = {h1, h2}
    AgpsTypes = {"SUPL", "SUPL_ES", "WWAN_ANY"}
    UsePdnES = TRUE
    UseWds = FALSE
    BadApn = FALSE
    MaxQueue = 6
SPECIFICATION FairSpec
INVARIANTS
    TypeOK
    AcquiredIsUp
    NoLeakedConnection
PROPERTIES
    EveryoneAnswered
