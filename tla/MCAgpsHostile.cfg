\* AGPS control under reports out of order: unusable APNs and WDS lookups.
CONSTANTS
    Handles = {h1, h2}
    AgpsTypes = {"SUPL"}
    UsePdnES = FALSE
    UseWds = TRUE
    BadApn = TRUE
    MaxQueue = 2
SYMMETRY HandleSymmetry
SPECIFICATION Spec
INVARIANTS
    SubscribersMatchState
    GrantedIsServed
CHECK_DEADLOCK FALSE
