CONSTANTS
    Lowest <- F1
    CallFloors <- TwoFloors
    Operations = {"service_on"}
    RiddenFloors <- NoFloors
    Sensors = {}
    SensorValues = {0}
    SafetyRuns = FALSE
    PipeCapacity = 2
    NoFloor = NoFloor
    NoStatus = NoStatus
    MaxInbox = 1
    MaxOutbox = 1
SPECIFICATION LinkSpec
CHECK_DEADLOCK FALSE
PROPERTIES
    BackToRetrying
