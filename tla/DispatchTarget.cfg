CONSTANTS
    Lowest <- F1
    Highest <- F3
    CallFloors <- ThreeFloors
    Trips <- SplitTrips
    MaxCalls = 2
    Restarts = TRUE
    Operations = {"close"}
    RiddenFloors <- NoFloors
    Sensors = {}
    SensorValues = {0}
    SafetyRuns = FALSE
    PipeCapacity = 1
    NoFloor = NoFloor
    NoStatus = NoStatus
    MaxInbox = 1
    MaxOutbox = 1
SPECIFICATION DispatchSafety
CHECK_DEADLOCK FALSE
INVARIANTS
    DispatchTypeOK
    HeadIsTarget
PROPERTIES
    IsCarLink
    DoneWhereTheCarWas
