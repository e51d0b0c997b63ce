CONSTANTS
    Lowest <- F1
    Highest <- F3
    CallFloors <- ThreeFloors
    Trips <- AllTrips
    MaxCalls = 2
    Restarts = TRUE
    Operations = {}
    RiddenFloors <- NoFloors
    Sensors = {}
    SensorValues = {0}
    SafetyRuns = FALSE
    PipeCapacity = 2
    NoFloor = NoFloor
    NoStatus = NoStatus
    MaxInbox = 1
    MaxOutbox = 1
SPECIFICATION DispatchSafety
CHECK_DEADLOCK FALSE
PROPERTIES
    FloorsAreAdded
