SPECIFICATION Spec
CONSTANTS
    Sessions <- Two
    Clients = {"A", "B"}
    Owner <- OneEach
    Options <- AllModes
    NoOpt = NoOpt
    NoTrip = NoTrip
    Off = Off
    Wrap = 16
    Anytime = {}
    MaxUpdates = 1
    MaxEvents = 2
    MaxTravel = 4
    MaxFull = 2
INVARIANTS
    TypeOK
    FullRegistered
    SessionsServed
    NeverEarly
CHECK_DEADLOCK FALSE
