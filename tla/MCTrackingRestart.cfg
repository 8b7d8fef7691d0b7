SPECIFICATION Spec
CONSTANTS
    Sessions <- Two
    Clients = {"A", "B"}
    Owner <- OneEach
    Mute = {}
    Options <- MixedOptions
    NoOpt = NoOpt
    NoClient = NoClient
    Off = Off
    MinInterval = 1
    DistSupported = TRUE
    CapsAtStart = TRUE
    NHz = TRUE
    CanFail = FALSE
    CanLock = FALSE
    OpenFails = TRUE
    Patient = {"A"}
    MaxUpdates = 1
    MaxEvents = 1
    Careless = TRUE
    CanRestart = TRUE
INVARIANTS
    TypeOK
    EngineServes
    StoppedStays
    PowerFollowsSessions
CHECK_DEADLOCK FALSE
