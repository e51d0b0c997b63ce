CONSTANTS
    Lowest <- F1
    Highest <- F3
    CallFloors <- ThreeFloors
    Trips <- SafeTrips
    MaxCalls = 2
    Restarts = FALSE
    Operations = {}
    RiddenFloors <- NoFloors
    Sensors = {}
    SensorValues = {0}
    SafetyRuns = FALSE
    PipeCapacity = 1
    NoFloor = NoFloor
    NoStatus = NoStatus
    MaxInbox = 2
    MaxOutbox = 1
SPECIFICATION DispatchSpec
CHECK_DEADLOCK FALSE
PROPERTIES
    CallCarried
