CONSTANTS
    Lowest <- F1
    CallFloors <- NoFloors
    Operations = {"stop"}
    RiddenFloors <- NoFloors
    Sensors = {}
    SensorValues = {0}
    SafetyRuns = TRUE
    PipeCapacity = 2
SPECIFICATION Spec
PROPERTIES
    StopEngages
