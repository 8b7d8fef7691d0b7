SPECIFICATION Spec
CONSTANTS
    Sessions <- Two
    Clients = {"A", "B"}
    Owner <- OneEach
    Mute = {}
    Options <- MixedOptions
    NoOpt = NoOpt
    NoClient = NoClient
    Off = Off
    MinInterval = 1
    DistSupported = TRUE
    CapsAtStart = FALSE
    NHz = FALSE
    CanFail = FALSE
    CanLock = TRUE
    OpenFails = FALSE
    Patient = {"A", "B"}
    MaxUpdates = 3
    MaxEvents = 1
    Careless = FALSE
    CanRestart = FALSE
INVARIANTS
    NothingLeftRunning
    AnsweredOnce
CHECK_DEADLOCK FALSE
