CONSTANTS
    Lowest <- B1
    CallFloors <- CrossingFloors
    Operations = {"open", "close", "stop", "service_on", "service_off", "up", "down"}
    RiddenFloors <- LowestFloor
    Sensors = {"door_obstruction"}
    SensorValues = {0, 1, 2}
    SafetyRuns = TRUE
    PipeCapacity = 1
SPECIFICATION Spec
INVARIANTS
    TypeOK
    BetweenMeansElsewhere
PROPERTIES
    KeepsDoorCycle
    ChangesAreTimedAndReported
    EmergencyNeverTravels
    SafetyLeavesSafeState
    CallServed
    DoorsCloseAgain
    EmergencyStopsCar
    TrappedPassengerCanLeave
