\* AGPS: the report of an unusable APN meets a handler half way.
CONSTANTS
    Handles = {h1, h2}
    AgpsTypes = {"SUPL"}
    UsePdnES = TRUE
    UseWds = FALSE
    BadApn = TRUE
    MaxQueue = 2
SPECIFICATION Spec
INVARIANTS
    ReleasedIsEmpty
CHECK_DEADLOCK FALSE
