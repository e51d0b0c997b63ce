-------------------------- MODULE ElevatorCarProofs --------------------------
(***************************************************************************)
(* Proofs about ElevatorCar for every choice of its constants: any range   *)
(* of floors, any set of calls, commands and sensors, any pipe capacity.   *)
(***************************************************************************)
EXTENDS ElevatorCar, TLAPS

(* The type invariant, split into the segment and the rest.                *)
RestOK ==
    /\ timer \in {"running", "expired"}
    /\ loopWake \in {"waiting", "woken"}
    /\ following \in {"none", "Between", "Opening"}
    /\ safety \in {"off", "running", "waiting", "woken"}
    /\ pipe \in Nat

\* While a second status is still to be stored: a car that will leave does so in
\* normal mode and with its doors closed or just told to open, and one that will open
\* its doors has arrived.
PassingOK ==
    /\ following = "Between" => Normal /\ shm.status \in {"Closed", "Opening"}
    /\ following = "Opening" => ~Elsewhere /\ shm.status = "Closed"

\* What every step has to keep.
Kept == shm' \in CarSharedMem /\ BetweenMeansElsewhere' /\ PassingOK' /\ RestOK'

LEMMA TypeParts == TypeOK <=> (shm \in CarSharedMem /\ RestOK)
BY DEF TypeOK, RestOK

\* The values the code assigns.
LEMMA Values ==
    /\ 0 \in Byte /\ 1 \in Byte
    /\ "Opening" \in Statuses /\ "Open" \in Statuses /\ "Closing" \in Statuses
    /\ "Closed" \in Statuses /\ "Between" \in Statuses
BY DEF Byte, Statuses

\* move_floor turns floor texts into floor texts.
LEMMA MoveFloorType ==
    ASSUME NEW c \in FloorText, NEW d \in FloorText
    PROVE  move_floor(c, d) \in FloorText
BY DEF move_floor, floor_str_to_int, floor_int_to_str, Basement, Storey, FloorText

\* So do the technician's neighbours.
LEMMA NeighbourType ==
    ASSUME NEW f \in FloorText
    PROVE  floor_above(f) \in FloorText /\ floor_below(f) \in FloorText
BY DEF floor_above, floor_below, Basement, Storey, FloorText, HighestStorey, LowestBasement

LEMMA NextFloorType == TypeOK => NextFloor \in FloorText
BY MoveFloorType DEF NextFloor, TypeOK, CarSharedMem

-----------------------------------------------------------------------------
(* What one iteration of the loop does to the segment, handler by handler:  *)
(* it stays well typed, and is Between only with a floor to go to.          *)

LEMMA HeldDoorsWakeStep ==
    ASSUME TypeOK, BetweenMeansElsewhere, HeldDoorsWake
    PROVE  Kept
<1>1. shm' \in CarSharedMem
  BY Values DEF HeldDoorsWake, Report, Ignore, Iterate, TypeOK, CarSharedMem
<1>2. BetweenMeansElsewhere'
  BY DEF HeldDoorsWake, Report, Ignore, Iterate, TypeOK, CarSharedMem,
         BetweenMeansElsewhere, Elsewhere
<1>3. RestOK'
  BY DEF HeldDoorsWake, Report, Ignore, Iterate, TypeOK, RestOK, Signalled
<1>4. PassingOK'
  BY DEF HeldDoorsWake, Report, Ignore, Iterate, PassingOK
<1> QED BY <1>1, <1>2, <1>3, <1>4 DEF Kept

LEMMA HeldDoorsTimeoutStep ==
    ASSUME TypeOK, BetweenMeansElsewhere, HeldDoorsTimeout
    PROVE  Kept
<1>1. shm' \in CarSharedMem
  BY Values DEF HeldDoorsTimeout, Report, Rearm, Iterate, TypeOK, CarSharedMem
<1>2. BetweenMeansElsewhere'
  BY DEF HeldDoorsTimeout, Report, Rearm, Iterate, TypeOK, CarSharedMem,
         BetweenMeansElsewhere, Elsewhere
<1>3. RestOK'
  BY DEF HeldDoorsTimeout, Report, Rearm, Iterate, TypeOK, RestOK, Signalled
<1>4. PassingOK'
  BY DEF HeldDoorsTimeout, Report, Rearm, Iterate, PassingOK
<1> QED BY <1>1, <1>2, <1>3, <1>4 DEF Kept

LEMMA StopAtNextFloorStep ==
    ASSUME TypeOK, BetweenMeansElsewhere, StopAtNextFloor
    PROVE  Kept
<1>1. /\ shm' = Halted(NextFloor) /\ following' \in {"none", "Opening"} /\ RestOK'
  BY DEF StopAtNextFloor, Report, Iterate, TypeOK, RestOK, Signalled
<1>2. shm' \in CarSharedMem
  BY <1>1, Values, NextFloorType DEF Halted, TypeOK, CarSharedMem
<1>3. shm'.status = "Closed" /\ ~Elsewhere'
  BY <1>1 DEF Halted, TypeOK, CarSharedMem, Elsewhere
<1> QED BY <1>1, <1>2, <1>3 DEF Kept, BetweenMeansElsewhere, PassingOK

LEMMA EmergencyStep ==
    ASSUME TypeOK, BetweenMeansElsewhere, EmergencyWake \/ EmergencyTimeout
    PROVE  Kept
<1>1. CASE HeldDoorsWake BY <1>1, HeldDoorsWakeStep
<1>2. CASE HeldDoorsTimeout BY <1>2, HeldDoorsTimeoutStep
<1>3. CASE StopAtNextFloor BY <1>3, StopAtNextFloorStep
<1>4. CASE Ignore(shm) \/ (shm.status = "Closed" /\ Rearm([shm EXCEPT !.close_button = 0]))
  BY <1>4, Values DEF Ignore, Rearm, Iterate, TypeOK, CarSharedMem, RestOK, Signalled,
                      BetweenMeansElsewhere, PassingOK, Elsewhere, Kept
<1> QED BY <1>1, <1>2, <1>3, <1>4 DEF EmergencyWake, EmergencyTimeout

LEMMA ServiceStep ==
    ASSUME TypeOK, BetweenMeansElsewhere, ServiceWake \/ ServiceTimeout
    PROVE  Kept
<1>1. CASE HeldDoorsWake BY <1>1, HeldDoorsWakeStep
<1>2. CASE HeldDoorsTimeout BY <1>2, HeldDoorsTimeoutStep
<1>3. CASE StopAtNextFloor BY <1>3, StopAtNextFloorStep
<1>4. CASE Ignore(shm) \/ (shm.status = "Closed" /\ Rearm([shm EXCEPT !.close_button = 0]))
  BY <1>4, Values DEF Ignore, Rearm, Iterate, TypeOK, CarSharedMem, RestOK, Signalled,
                      BetweenMeansElsewhere, PassingOK, Elsewhere, Kept
<1>5. CASE /\ Elsewhere
           /\ \/ Iterate([shm EXCEPT !.status = "Between"], TRUE, TRUE, FALSE, "none")
              \/ Iterate([shm EXCEPT !.close_button = 0, !.status = "Between"],
                         TRUE, TRUE, FALSE, "none")
  <2>1. shm' \in CarSharedMem
    BY <1>5, Values DEF Iterate, TypeOK, CarSharedMem
  <2>2. BetweenMeansElsewhere'
    BY <1>5 DEF Iterate, TypeOK, CarSharedMem, BetweenMeansElsewhere, Elsewhere
  <2>3. RestOK' /\ PassingOK'
    BY <1>5 DEF Iterate, TypeOK, RestOK, Signalled, PassingOK
  <2> QED BY <2>1, <2>2, <2>3 DEF Kept
<1> QED BY <1>1, <1>2, <1>3, <1>4, <1>5 DEF ServiceWake, ServiceTimeout

LEMMA NormalWakeStep ==
    ASSUME TypeOK, BetweenMeansElsewhere, NormalWake
    PROVE  Kept
<1>1. shm' \in CarSharedMem
  BY Values DEF NormalWake, Report, Rearm, Ignore, Iterate, TypeOK, CarSharedMem
<1>2. BetweenMeansElsewhere'
  BY DEF NormalWake, Report, Rearm, Ignore, Iterate, TypeOK, CarSharedMem,
         BetweenMeansElsewhere, Elsewhere
<1>3. RestOK'
  BY DEF NormalWake, Report, Rearm, Ignore, Iterate, TypeOK, RestOK, Signalled
<1>4. PassingOK'
  BY DEF NormalWake, Report, Rearm, Ignore, Iterate, PassingOK
<1> QED BY <1>1, <1>2, <1>3, <1>4 DEF Kept

LEMMA NormalTimeoutStep ==
    ASSUME TypeOK, BetweenMeansElsewhere, NormalTimeout
    PROVE  Kept
<1>1. CASE NormalMove
  <2>1. /\ shm' = [shm EXCEPT !.current_floor = NextFloor, !.status = "Closed"]
        /\ following' = IF NextFloor # shm.destination_floor THEN "Between" ELSE "Opening"
        /\ RestOK'
    BY <1>1 DEF NormalMove, Iterate, TypeOK, RestOK, Signalled
  <2>2. shm' \in CarSharedMem
    BY <2>1, Values, NextFloorType DEF TypeOK, CarSharedMem
  <2>3. /\ shm'.status = "Closed"
        /\ Elsewhere' <=> NextFloor # shm.destination_floor
        /\ Normal' <=> Normal
    BY <2>1 DEF TypeOK, CarSharedMem, Elsewhere, Normal, Emergency
  <2> QED BY <2>1, <2>2, <2>3 DEF Kept, BetweenMeansElsewhere, PassingOK, NormalTimeout
<1>2. CASE NormalRest
  <2>1. shm' \in CarSharedMem
    BY <1>2, Values DEF NormalRest, Report, Ignore, Iterate, TypeOK, CarSharedMem
  <2>2. BetweenMeansElsewhere'
    BY <1>2 DEF NormalRest, Report, Ignore, Iterate, TypeOK, CarSharedMem,
                BetweenMeansElsewhere, Elsewhere
  <2>3. RestOK'
    BY <1>2 DEF NormalRest, Report, Ignore, Iterate, TypeOK, RestOK, Signalled
  <2>4. PassingOK'
    BY <1>2 DEF NormalRest, Report, Ignore, Iterate, TypeOK, CarSharedMem,
                PassingOK, NormalTimeout, Normal, Emergency
  <2> QED BY <2>1, <2>2, <2>3, <2>4 DEF Kept
<1>3. CASE NormalDoors
  <2>1. shm' \in CarSharedMem
    BY <1>3, Values DEF NormalDoors, Report, Rearm, Iterate, TypeOK, CarSharedMem
  <2>2. BetweenMeansElsewhere'
    BY <1>3 DEF NormalDoors, Report, Rearm, Iterate, TypeOK, CarSharedMem,
                BetweenMeansElsewhere, Elsewhere
  <2>3. RestOK'
    BY <1>3 DEF NormalDoors, Report, Rearm, Iterate, TypeOK, RestOK, Signalled
  <2>4. PassingOK'
    BY <1>3 DEF NormalDoors, Report, Rearm, Iterate, TypeOK, CarSharedMem,
                PassingOK, NormalTimeout, Normal, Emergency
  <2> QED BY <2>1, <2>2, <2>3, <2>4 DEF Kept
<1> QED BY <1>1, <1>2, <1>3 DEF NormalTimeout

\* The second status of an iteration.
LEMMA GoesOnStep ==
    ASSUME TypeOK, BetweenMeansElsewhere, LoopGoesOn
    PROVE  Kept
<1>1. /\ shm' = [shm EXCEPT !.status = following]
      /\ following \in {"Between", "Opening"} /\ following' = "none" /\ RestOK'
  BY DEF LoopGoesOn, Report, Iterate, TypeOK, RestOK, Signalled
<1>2. shm' \in CarSharedMem
  BY <1>1, Values DEF TypeOK, CarSharedMem
<1>3. shm'.status = following /\ (Elsewhere' <=> Elsewhere)
  BY <1>1 DEF TypeOK, CarSharedMem, Elsewhere
<1> QED BY <1>1, <1>2, <1>3 DEF Kept, BetweenMeansElsewhere, PassingOK
-----------------------------------------------------------------------------
(* The others who write to the segment.                                    *)

LEMMA WriteRest ==
    ASSUME TypeOK, NEW s, Write(s)
    PROVE  RestOK' /\ PassingOK' /\ shm' = s /\ following' = "none" /\ pipe' = pipe
BY DEF Write, Broadcast, MutexFree, TypeOK, RestOK, Signalled, PassingOK

LEMMA DestinationStep ==
    ASSUME TypeOK, BetweenMeansElsewhere,
           NEW f \in FloorText, shm.status # "Between",
           Write([shm EXCEPT !.destination_floor = f])
    PROVE  Kept
<1>1. /\ shm' = [shm EXCEPT !.destination_floor = f] /\ following' = "none"
      /\ RestOK' /\ PassingOK'
  BY WriteRest
<1>2. shm' \in CarSharedMem /\ BetweenMeansElsewhere'
  BY <1>1 DEF TypeOK, CarSharedMem, BetweenMeansElsewhere
<1> QED BY <1>1, <1>2 DEF Kept

LEMMA TechnicianStep ==
    ASSUME TypeOK, BetweenMeansElsewhere, Technician
    PROVE  Kept
<1>1. CASE \E command \in {"up", "down"}, f \in FloorText : TechnicianMove(command, f)
  BY <1>1, DestinationStep DEF TechnicianMove
<1>2. CASE \/ Write([shm EXCEPT !.open_button = 1])
           \/ Write([shm EXCEPT !.close_button = 1])
           \/ Write([shm EXCEPT !.emergency_stop = 1])
           \/ Write([shm EXCEPT !.individual_service_mode = 1, !.emergency_mode = 0])
           \/ Write([shm EXCEPT !.individual_service_mode = 0])
  <2>1. shm' \in CarSharedMem
    BY <1>2, Values DEF Write, TypeOK, CarSharedMem
  <2>2. RestOK' /\ PassingOK' /\ following' = "none"
    BY <1>2, WriteRest
  <2>3. BetweenMeansElsewhere'
    BY <1>2, <2>2 DEF Write, TypeOK, CarSharedMem, BetweenMeansElsewhere, Elsewhere
  <2> QED BY <2>1, <2>2, <2>3 DEF Kept
<1>3. shm.current_floor \in FloorText
  BY DEF TypeOK, CarSharedMem
<1> QED BY <1>1, <1>2, <1>3, NeighbourType DEF Technician, TechnicianSet

LEMMA SensorStep ==
    ASSUME TypeOK, BetweenMeansElsewhere, NEW f \in Sensors, NEW v \in SensorValues, Sensor(f, v)
    PROVE  Kept
<1>1. shm' = [shm EXCEPT ![f] = v] /\ following' = "none" /\ RestOK' /\ PassingOK'
  BY WriteRest DEF Sensor
<1>2. (f = "door_obstruction" \/ f = "overload") /\ v \in Byte
  BY ElevatorCarAssumption
<1>3. CASE f = "door_obstruction"
  BY <1>1, <1>2, <1>3 DEF TypeOK, CarSharedMem, BetweenMeansElsewhere, Elsewhere, Kept
<1>4. CASE f = "overload"
  BY <1>1, <1>2, <1>4 DEF TypeOK, CarSharedMem, BetweenMeansElsewhere, Elsewhere, Kept
<1> QED BY <1>1, <1>2, <1>3, <1>4

LEMMA SafetyStep ==
    ASSUME TypeOK, BetweenMeansElsewhere, SafetyWait \/ SafetyCheck
    PROVE  Kept
<1>1. CASE SafetyWait
  BY <1>1 DEF SafetyWait, MutexFree, TypeOK, RestOK, BetweenMeansElsewhere, Elsewhere,
              PassingOK, Kept
<1>2. CASE SafetyCheck
  <2>1. PICK e \in Byte, s \in Statuses :
            /\ shm' = [shm EXCEPT !.status = s, !.emergency_mode = e]
            /\ s = Reopened
    BY <1>2, Values DEF SafetyCheck, Reopened, TypeOK, CarSharedMem
  <2>2. shm' \in CarSharedMem
    BY <2>1 DEF TypeOK, CarSharedMem
  <2>3. RestOK' /\ PassingOK' /\ following' = "none"
    BY <1>2 DEF SafetyCheck, MutexFree, TypeOK, RestOK, PassingOK
  <2>4. BetweenMeansElsewhere'
    BY <2>1, <2>3 DEF TypeOK, CarSharedMem, BetweenMeansElsewhere, Elsewhere, Reopened
  <2> QED BY <2>2, <2>3, <2>4 DEF Kept
<1> QED BY <1>1, <1>2

-----------------------------------------------------------------------------
(* The inductive invariant.                                                *)

Inv == TypeOK /\ BetweenMeansElsewhere /\ PassingOK

LEMMA InitInv == Init => Inv
BY ElevatorCarAssumption, Values
   DEF Init, Inv, TypeOK, CarSharedMem, BetweenMeansElsewhere, PassingOK

LEMMA NextInv == Inv /\ [Next]_vars => Inv'
<1> SUFFICES ASSUME TypeOK, BetweenMeansElsewhere, PassingOK, [Next]_vars
             PROVE  Kept
  BY DEF Inv, TypeOK, RestOK, Kept
<1>1. CASE LoopWake
  BY <1>1, EmergencyStep, ServiceStep, NormalWakeStep DEF LoopWake
<1>2. CASE LoopTimeout
  BY <1>2, EmergencyStep, ServiceStep, NormalTimeoutStep DEF LoopTimeout
<1>3. CASE Elapse \/ ReadPipe \/ UNCHANGED vars
  BY <1>3 DEF Elapse, ReadPipe, vars, TypeOK, RestOK, BetweenMeansElsewhere, Elsewhere,
              PassingOK, Normal, Emergency, Kept
<1>4. CASE \E floor \in CallFloors : ApplyDestination(floor)
  BY <1>4, DestinationStep, ElevatorCarAssumption DEF ApplyDestination
<1>5. CASE Technician
  BY <1>5, TechnicianStep
<1>6. CASE \E field \in Sensors, value \in SensorValues : Sensor(field, value)
  BY <1>6, SensorStep
<1>7. CASE SafetyWait \/ SafetyCheck
  BY <1>7, SafetyStep
<1>8. CASE LoopGoesOn
  BY <1>8, GoesOnStep
<1> QED BY <1>1, <1>2, <1>3, <1>4, <1>5, <1>6, <1>7, <1>8 DEF Next

\* Every variable keeps its type, and the car is between floors only with
\* another floor to go to (car.c:662, internal.c:83 and 101).
THEOREM Invariance == Spec => []Inv
BY InitInv, NextInv, PTL DEF Spec

\* The type invariant on its own.
THEOREM TypeCorrect == Spec => []TypeOK
BY Invariance, PTL DEF Inv

\* The guard at car.c:662 and those of the technician's commands are enough.
THEOREM BetweenIsElsewhere == Spec => []BetweenMeansElsewhere
BY Invariance, PTL DEF Inv
-----------------------------------------------------------------------------
(* Emergency mode.                                                         *)

EmergencyStep_OK ==
    Emergency =>
        /\ shm'.status = "Between" => shm.status = "Between"
        /\ shm'.current_floor # shm.current_floor =>
              /\ shm'.status = "Closed"
              /\ shm'.destination_floor = shm'.current_floor

\* A change of the segment that leaves floor and status alone is harmless.
LEMMA EmergencyHolds ==
    ASSUME TypeOK, PassingOK, Emergency, [Next]_vars
    PROVE  EmergencyStep_OK
<1> USE DEF EmergencyStep_OK
<1>1. CASE EmergencyWake
  BY <1>1 DEF EmergencyWake, HeldDoorsWake, Report, Ignore, Iterate, TypeOK, CarSharedMem
<1>2. CASE EmergencyTimeout
  <2>1. CASE StopAtNextFloor
    <3>1. shm' = Halted(NextFloor)
      BY <2>1 DEF StopAtNextFloor, Report, Iterate
    <3> QED BY <3>1 DEF Halted, TypeOK, CarSharedMem
  <2>2. CASE HeldDoorsTimeout
    BY <2>2 DEF HeldDoorsTimeout, Report, Rearm, Iterate, TypeOK, CarSharedMem
  <2>3. CASE Rearm([shm EXCEPT !.close_button = 0])
    BY <2>3 DEF Rearm, Iterate, TypeOK, CarSharedMem
  <2> QED BY <1>2, <2>1, <2>2, <2>3 DEF EmergencyTimeout
<1>3. CASE Elapse \/ ReadPipe \/ SafetyWait \/ UNCHANGED vars
  BY <1>3 DEF Elapse, ReadPipe, SafetyWait, vars
<1>4. CASE \E floor \in CallFloors : ApplyDestination(floor)
  BY <1>4 DEF ApplyDestination, Write, TypeOK, CarSharedMem
<1>5. CASE Technician
  BY <1>5 DEF Technician, TechnicianSet, TechnicianMove, Write, TypeOK, CarSharedMem
<1>6. CASE \E field \in Sensors, value \in SensorValues : Sensor(field, value)
  <2>1. PICK f \in Sensors, v \in SensorValues : shm' = [shm EXCEPT ![f] = v]
    BY <1>6 DEF Sensor, Write
  <2>2. f = "door_obstruction" \/ f = "overload"
    BY ElevatorCarAssumption
  <2> QED BY <2>1, <2>2 DEF TypeOK, CarSharedMem
<1>7. CASE SafetyCheck
  BY <1>7 DEF SafetyCheck, Reopened, TypeOK, CarSharedMem
<1>8. CASE LoopGoesOn
  BY <1>8 DEF LoopGoesOn, Report, Iterate, TypeOK, CarSharedMem, PassingOK, Normal
<1> QED BY <1>1, <1>2, <1>3, <1>4, <1>5, <1>6, <1>7, <1>8
        DEF Next, LoopWake, LoopTimeout, ServiceWake, ServiceTimeout, NormalWake, NormalTimeout,
            Service, Normal

\* In emergency mode no trip begins and one under way ends at the next floor
\* (car.c:224-244).
THEOREM EmergencyTravel == Spec => EmergencyNeverTravels
<1>1. Inv /\ [Next]_vars => [EmergencyStep_OK]_vars
  BY EmergencyHolds DEF Inv, EmergencyStep_OK
<1> QED BY <1>1, Invariance, PTL DEF Spec, EmergencyNeverTravels, EmergencyStep_OK

-----------------------------------------------------------------------------
(* What a step shows to the connection.                                    *)

\* What a step tells the connection: a new status comes with a byte and a new deadline
\* unless another status follows at once or the safety process reopened the doors, a
\* new floor with a byte unless a status follows, and so does the status that follows;
\* only the connection takes bytes away.
StepShown ==
    /\ shm'.status # shm.status =>
          \/ timer' = "running" /\ pipe' > pipe
          \/ following' # "none"
          \/ shm.status = "Closing" /\ shm'.status = "Opening" /\ safety = "woken"
    /\ shm'.current_floor # shm.current_floor => pipe' > pipe \/ following' # "none"
    /\ following # "none" => pipe' > pipe \/ following' # "none"
    /\ pipe' >= pipe \/ ReadPipe

\* An iteration begins when the one before it is over.
LEMMA LoopIsFree ==
    ASSUME LoopWake \/ LoopTimeout
    PROVE  following = "none"
BY DEF LoopWake, LoopTimeout, EmergencyWake, EmergencyTimeout, ServiceWake, ServiceTimeout,
       NormalWake, NormalTimeout, Woken, TimedOut, MutexFree

LEMMA HeldDoorsShown ==
    ASSUME TypeOK, following = "none", HeldDoorsWake \/ HeldDoorsTimeout \/ StopAtNextFloor
    PROVE  StepShown
<1>1. CASE HeldDoorsWake
  BY <1>1 DEF HeldDoorsWake, Report, Ignore, Iterate, StepShown, TypeOK, CarSharedMem
<1>2. CASE HeldDoorsTimeout
  BY <1>2 DEF HeldDoorsTimeout, Report, Rearm, Iterate, StepShown, TypeOK, CarSharedMem
<1>3. CASE StopAtNextFloor
  BY <1>3 DEF StopAtNextFloor, Report, Iterate, StepShown, TypeOK
<1> QED BY <1>1, <1>2, <1>3

LEMMA LoopShown ==
    ASSUME TypeOK, LoopWake \/ LoopTimeout
    PROVE  StepShown
<1>0. following = "none"
  BY LoopIsFree
<1>1. CASE HeldDoorsWake \/ HeldDoorsTimeout \/ StopAtNextFloor
  BY <1>0, <1>1, HeldDoorsShown
<1>2. CASE Ignore(shm) \/ Rearm([shm EXCEPT !.close_button = 0])
  BY <1>0, <1>2 DEF Ignore, Rearm, Iterate, StepShown, TypeOK, CarSharedMem
<1>3. CASE \/ Iterate([shm EXCEPT !.status = "Between"], TRUE, TRUE, FALSE, "none")
           \/ Iterate([shm EXCEPT !.close_button = 0, !.status = "Between"],
                         TRUE, TRUE, FALSE, "none")
  BY <1>0, <1>3 DEF Iterate, StepShown, TypeOK
<1>4. CASE NormalWake
  BY <1>0, <1>4 DEF NormalWake, Report, Rearm, Ignore, Iterate, StepShown, TypeOK, CarSharedMem
<1>5. CASE NormalMove
  BY <1>0, <1>5 DEF NormalMove, Iterate, StepShown, TypeOK, CarSharedMem
<1>6. CASE NormalRest
  BY <1>0, <1>6 DEF NormalRest, Report, Ignore, Iterate, StepShown, TypeOK, CarSharedMem
<1>7. CASE NormalDoors
  BY <1>0, <1>7 DEF NormalDoors, Report, Rearm, Iterate, StepShown, TypeOK, CarSharedMem
<1> QED BY <1>1, <1>2, <1>3, <1>4, <1>5, <1>6, <1>7
        DEF LoopWake, LoopTimeout, EmergencyWake, EmergencyTimeout, ServiceWake, ServiceTimeout,
            NormalTimeout

LEMMA NextShown ==
    ASSUME TypeOK, [Next]_vars
    PROVE  StepShown
<1>1. CASE LoopWake \/ LoopTimeout
  BY <1>1, LoopShown
<1>2. CASE Elapse \/ SafetyWait \/ UNCHANGED vars
  BY <1>2 DEF Elapse, SafetyWait, vars, StepShown, TypeOK
<1>3. CASE ReadPipe
  BY <1>3 DEF ReadPipe, StepShown
<1>4. CASE \E floor \in CallFloors : ApplyDestination(floor)
  <2>1. PICK f \in CallFloors : Write([shm EXCEPT !.destination_floor = f])
    BY <1>4 DEF ApplyDestination
  <2> QED BY <2>1 DEF Write, MutexFree, StepShown, TypeOK, CarSharedMem
<1>5. CASE Technician
  <2>1. \E s \in {[shm EXCEPT !.open_button = 1], [shm EXCEPT !.close_button = 1],
                  [shm EXCEPT !.emergency_stop = 1],
                  [shm EXCEPT !.individual_service_mode = 1, !.emergency_mode = 0],
                  [shm EXCEPT !.individual_service_mode = 0],
                  [shm EXCEPT !.destination_floor = floor_above(shm.current_floor)],
                  [shm EXCEPT !.destination_floor = floor_below(shm.current_floor)]} :
            shm' = s /\ pipe' = pipe /\ following = "none"
    BY <1>5 DEF Technician, TechnicianSet, TechnicianMove, Write, MutexFree
  <2>2. shm'.status = shm.status /\ shm'.current_floor = shm.current_floor
    BY <2>1 DEF TypeOK, CarSharedMem
  <2> QED BY <2>1, <2>2 DEF StepShown, TypeOK
<1>6. CASE \E field \in Sensors, value \in SensorValues : Sensor(field, value)
  <2>1. PICK f \in Sensors, v \in SensorValues :
            shm' = [shm EXCEPT ![f] = v] /\ pipe' = pipe /\ following = "none"
    BY <1>6 DEF Sensor, Write, MutexFree
  <2>2. f = "door_obstruction" \/ f = "overload"
    BY ElevatorCarAssumption
  <2> QED BY <2>1, <2>2 DEF StepShown, TypeOK, CarSharedMem
<1>7. CASE SafetyCheck
  BY <1>7 DEF SafetyCheck, MutexFree, Reopened, StepShown, TypeOK, CarSharedMem
<1>8. CASE LoopGoesOn
  BY <1>8 DEF LoopGoesOn, Report, Iterate, StepShown, TypeOK, CarSharedMem
<1> QED BY <1>1, <1>2, <1>3, <1>4, <1>5, <1>6, <1>7, <1>8 DEF Next

\* Every change of the status starts the delay of the new phase and is written into
\* the pipe, whatever the mode, unless another status follows in the same iteration;
\* the reopening of safety.c:216-217 alone is neither.
THEOREM TimedAndReported == Spec => ChangesAreTimedAndReported
<1> DEFINE Shown == shm'.status # shm.status =>
                      \/ timer' = "running" /\ pipe' > pipe
                      \/ following' # "none"
                      \/ shm.status = "Closing" /\ shm'.status = "Opening" /\ safety = "woken"
<1>1. TypeOK /\ [Next]_vars => [Shown]_vars
  BY NextShown DEF StepShown
<1> QED BY <1>1, TypeCorrect, PTL DEF Spec, ChangesAreTimedAndReported

-----------------------------------------------------------------------------
(* The safety process.                                                     *)

\* A pass that does not end in emergency mode found every byte a flag and, because
\* the byte of emergency mode was one, no stop and no overload to react to.
LEMMA PassWithoutAlarm ==
    ASSUME TypeOK, SafetyCheck, shm'.emergency_mode # 1
    PROVE  /\ shm'.emergency_stop = 0 /\ shm'.overload = 0
           /\ shm'.door_obstruction = 0 \/ shm'.status = "Opening"
           /\ \A field \in ByteFields : shm'[field] <= 1
<1>1. /\ ~StopOrOverload /\ shm.emergency_mode # 1 /\ ~Inconsistent(Reopened)
      /\ shm' = [shm EXCEPT !.status = Reopened]
  BY DEF SafetyCheck, TypeOK, CarSharedMem
<1>2. \A field \in ByteFields : shm[field] \in {0, 1}
  BY <1>1 DEF Inconsistent, ByteFields, TypeOK, CarSharedMem, Byte
<1>3. shm.emergency_stop = 0 /\ shm.overload = 0
  BY <1>1, <1>2 DEF StopOrOverload, ByteFields
<1>4. shm.door_obstruction = 0 \/ Reopened = "Opening"
  BY <1>1, <1>2 DEF Inconsistent, Reopened, ByteFields
<1> QED BY <1>1, <1>2, <1>3, <1>4 DEF ByteFields, TypeOK, CarSharedMem

\* The safety process never leaves an alarm unanswered (safety.c:215-250): it is
\* inconsistent bytes that would blind the check of the stop, and those it finds too.
THEOREM SafetyAnswers == Spec => SafetyLeavesSafeState
<1> DEFINE Answered == SafetyCheck =>
              \/ shm'.emergency_mode = 1
              \/ /\ shm'.emergency_stop = 0 /\ shm'.overload = 0
                 /\ shm'.door_obstruction = 0 \/ shm'.status = "Opening"
                 /\ \A field \in ByteFields : shm'[field] <= 1
<1>1. TypeOK => [Answered]_vars
  BY PassWithoutAlarm
<1> QED BY <1>1, TypeCorrect, PTL DEF Spec, SafetyLeavesSafeState

-----------------------------------------------------------------------------
(* ElevatorCar implements DoorCycle.                                       *)

\* DoorCycle brings its own copy of the floor arithmetic.
LEMMA SameFloors ==
    /\ Cycle!FloorText = FloorText
    /\ \A c, d : Cycle!move_floor(c, d) = move_floor(c, d)
BY DEF Cycle!FloorText, FloorText, Cycle!move_floor, move_floor, Cycle!floor_str_to_int,
       floor_str_to_int, Cycle!floor_int_to_str, floor_int_to_str, Cycle!Basement, Basement,
       Cycle!Storey, Storey

\* A step that leaves what the status line shows alone is a stuttering step.
LEMMA Unseen ==
    ASSUME shm'.status = shm.status, shm'.current_floor = shm.current_floor,
           shm'.destination_floor = shm.destination_floor, following' = following
    PROVE  [Cycle!Next]_(Cycle!vars)
BY DEF Cycle!vars

\* A step of the doors.
LEMMA Doors ==
    ASSUME NEW from, NEW to, <<from, to>> \in Cycle!DoorPhases,
           shm.status = from, shm'.status = to, shm'.current_floor = shm.current_floor,
           shm'.destination_floor = shm.destination_floor,
           following = "none", following' = "none"
    PROVE  [Cycle!Next]_(Cycle!vars)
BY DEF Cycle!Next, Cycle!MoveDoors

\* A phase the car departs from in the same iteration.
LEMMA PassesThrough ==
    ASSUME NEW from, NEW to, <<from, to>> \in Cycle!PassingPhases, Elsewhere,
           shm.status = from, shm'.status = to, shm'.current_floor = shm.current_floor,
           shm'.destination_floor = shm.destination_floor,
           following = "none", following' = "Between"
    PROVE  [Cycle!Next]_(Cycle!vars)
BY DEF Cycle!Next, Cycle!MoveDoors, Cycle!PassingPhases, Cycle!DoorPhases, Elsewhere

LEMMA Departs ==
    ASSUME shm.status = "Closed" \/ (shm.status = "Opening" /\ following # "none"),
           Elsewhere, shm'.status = "Between",
           shm'.current_floor = shm.current_floor,
           shm'.destination_floor = shm.destination_floor, following' = "none"
    PROVE  [Cycle!Next]_(Cycle!vars)
BY DEF Cycle!Next, Cycle!Depart, Elsewhere

LEMMA HeldDoorsCycle ==
    ASSUME TypeOK, following = "none", HeldDoorsWake \/ HeldDoorsTimeout
    PROVE  [Cycle!Next]_(Cycle!vars)
<1>1. /\ shm'.current_floor = shm.current_floor
      /\ shm'.destination_floor = shm.destination_floor
      /\ \/ shm'.status = shm.status
         \/ <<shm.status, shm'.status>> \in Cycle!DoorPhases
      /\ following' = "none"
  <2>1. CASE HeldDoorsWake
    BY <2>1 DEF HeldDoorsWake, Report, Ignore, Iterate, TypeOK, CarSharedMem, Cycle!DoorPhases
  <2>2. CASE HeldDoorsTimeout
    BY <2>2 DEF HeldDoorsTimeout, Report, Rearm, Iterate, TypeOK, CarSharedMem, Cycle!DoorPhases
  <2> QED BY <2>1, <2>2
<1> QED BY <1>1, Unseen, Doors

LEMMA StopCycle ==
    ASSUME TypeOK, StopAtNextFloor
    PROVE  [Cycle!Next]_(Cycle!vars)
<1>1. /\ shm.status = "Between" /\ shm' = Halted(NextFloor)
      /\ following' \in {"none", "Opening"}
  BY DEF StopAtNextFloor, Report, Iterate
<1>2. Cycle!Stop
  BY <1>1, SameFloors DEF Halted, TypeOK, CarSharedMem, Cycle!Stop, NextFloor
<1> QED BY <1>2 DEF Cycle!Next

LEMMA HeldModesCycle ==
    ASSUME TypeOK, EmergencyWake \/ EmergencyTimeout \/ ServiceWake \/ ServiceTimeout
    PROVE  [Cycle!Next]_(Cycle!vars)
<1>0. following = "none"
  BY LoopIsFree DEF LoopWake, LoopTimeout
<1>1. CASE HeldDoorsWake \/ HeldDoorsTimeout BY <1>0, <1>1, HeldDoorsCycle
<1>2. CASE StopAtNextFloor BY <1>2, StopCycle
<1>3. CASE Ignore(shm) \/ Rearm([shm EXCEPT !.close_button = 0])
  <2>1. /\ shm'.status = shm.status /\ shm'.current_floor = shm.current_floor
        /\ shm'.destination_floor = shm.destination_floor /\ following' = "none"
    BY <1>3 DEF Ignore, Rearm, Iterate, TypeOK, CarSharedMem
  <2> QED BY <1>0, <2>1, Unseen
<1>4. CASE /\ Elsewhere /\ shm.status = "Closed"
           /\ \/ Iterate([shm EXCEPT !.status = "Between"], TRUE, TRUE, FALSE, "none")
              \/ Iterate([shm EXCEPT !.close_button = 0, !.status = "Between"],
                         TRUE, TRUE, FALSE, "none")
  <2>1. /\ shm'.status = "Between" /\ shm'.current_floor = shm.current_floor
        /\ shm'.destination_floor = shm.destination_floor /\ following' = "none"
    BY <1>4 DEF Iterate, TypeOK, CarSharedMem
  <2> QED BY <1>4, <2>1, Departs
<1> QED BY <1>1, <1>2, <1>3, <1>4
        DEF EmergencyWake, EmergencyTimeout, ServiceWake, ServiceTimeout

LEMMA NormalCycle ==
    ASSUME TypeOK, NormalWake \/ NormalTimeout
    PROVE  [Cycle!Next]_(Cycle!vars)
<1> DEFINE Still == /\ shm'.current_floor = shm.current_floor
                    /\ shm'.destination_floor = shm.destination_floor
           Moves == \/ shm'.status = shm.status /\ following' = "none"
                    \/ /\ <<shm.status, shm'.status>> \in Cycle!DoorPhases
                       /\ following' = "none"
                    \/ /\ <<shm.status, shm'.status>> \in Cycle!PassingPhases
                       /\ Elsewhere /\ following' = "Between"
                    \/ /\ shm.status = "Closed"
                       /\ Elsewhere /\ shm'.status = "Between" /\ following' = "none"
<1>0. following = "none"
  BY LoopIsFree DEF LoopWake, LoopTimeout
<1>1. CASE NormalMove
  <2>1. /\ shm.status = "Between" /\ shm'.current_floor = NextFloor
        /\ shm'.destination_floor = shm.destination_floor
        /\ shm'.status = "Closed" /\ following' # "none"
    BY <1>1 DEF NormalMove, Iterate, TypeOK, CarSharedMem
  <2>2. Cycle!Pass \/ Cycle!Stop
    BY <2>1, SameFloors DEF Cycle!Pass, Cycle!Stop, NextFloor
  <2> QED BY <2>2 DEF Cycle!Next
<1>2. CASE NormalWake
  <2>1. Still /\ Moves
    BY <1>2 DEF NormalWake, Report, Rearm, Ignore, Iterate, TypeOK, CarSharedMem,
                Cycle!DoorPhases
  <2> QED BY <1>0, <2>1, Unseen, Doors, PassesThrough, Departs
<1>3. CASE NormalRest
  <2>1. Still /\ Moves
    BY <1>3 DEF NormalRest, Report, Ignore, Iterate, TypeOK, CarSharedMem, Cycle!DoorPhases,
                Cycle!PassingPhases
  <2> QED BY <1>0, <2>1, Unseen, Doors, PassesThrough, Departs
<1>4. CASE NormalDoors
  <2>1. Still /\ Moves
    BY <1>4 DEF NormalDoors, Report, Rearm, Iterate, TypeOK, CarSharedMem, Cycle!DoorPhases,
                Cycle!PassingPhases
  <2> QED BY <1>0, <2>1, Unseen, Doors, PassesThrough, Departs
<1> QED BY <1>1, <1>2, <1>3, <1>4 DEF NormalTimeout

\* The second status: a departure, or the opening of the doors after a stop.
LEMMA GoesOnCycle ==
    ASSUME TypeOK, BetweenMeansElsewhere, PassingOK, LoopGoesOn
    PROVE  [Cycle!Next]_(Cycle!vars)
<1>1. /\ shm'.status = following /\ shm'.current_floor = shm.current_floor
      /\ shm'.destination_floor = shm.destination_floor /\ following' = "none"
      /\ following \in {"Between", "Opening"}
  BY DEF LoopGoesOn, Report, Iterate, TypeOK, CarSharedMem
<1>2. CASE following = "Between"
  BY <1>1, <1>2, Departs DEF BetweenMeansElsewhere, PassingOK
<1>3. CASE following = "Opening"
  <2>1. shm.status = "Closed" /\ ~Elsewhere
    BY <1>3 DEF PassingOK
  <2>2. Cycle!MoveDoors
    BY <1>1, <1>3, <2>1 DEF Cycle!MoveDoors, Cycle!DoorPhases, Elsewhere
  <2> QED BY <2>2 DEF Cycle!Next
<1> QED BY <1>1, <1>2, <1>3

LEMMA RetargetCycle ==
    ASSUME TypeOK, NEW f \in FloorText, shm.status # "Between",
           Write([shm EXCEPT !.destination_floor = f])
    PROVE  [Cycle!Next]_(Cycle!vars)
<1>1. /\ shm'.status = shm.status /\ shm'.current_floor = shm.current_floor
      /\ shm'.destination_floor = f /\ following = "none" /\ following' = "none"
  BY DEF Write, MutexFree, TypeOK, CarSharedMem
<1> QED BY <1>1, SameFloors DEF Cycle!Next, Cycle!Retarget

LEMMA TechnicianCycle ==
    ASSUME TypeOK, Technician
    PROVE  [Cycle!Next]_(Cycle!vars)
<1>1. CASE \E command \in {"up", "down"}, f \in FloorText : TechnicianMove(command, f)
  BY <1>1, RetargetCycle DEF TechnicianMove
<1>2. CASE \/ Write([shm EXCEPT !.open_button = 1])
           \/ Write([shm EXCEPT !.close_button = 1])
           \/ Write([shm EXCEPT !.emergency_stop = 1])
           \/ Write([shm EXCEPT !.individual_service_mode = 1, !.emergency_mode = 0])
           \/ Write([shm EXCEPT !.individual_service_mode = 0])
  <2>1. /\ shm'.status = shm.status /\ shm'.current_floor = shm.current_floor
        /\ shm'.destination_floor = shm.destination_floor /\ following' = following
    BY <1>2 DEF Write, TypeOK, CarSharedMem
  <2> QED BY <2>1, Unseen
<1>3. shm.current_floor \in FloorText
  BY DEF TypeOK, CarSharedMem
<1> QED BY <1>1, <1>2, <1>3, NeighbourType DEF Technician, TechnicianSet

LEMMA NextCycle == Inv /\ [Next]_vars => [Cycle!Next]_(Cycle!vars)
<1> SUFFICES ASSUME TypeOK, BetweenMeansElsewhere, PassingOK, [Next]_vars
             PROVE  [Cycle!Next]_(Cycle!vars)
  BY DEF Inv
<1>1. CASE LoopWake \/ LoopTimeout
  BY <1>1, HeldModesCycle, NormalCycle DEF LoopWake, LoopTimeout
<1>2. CASE Elapse \/ ReadPipe \/ SafetyWait \/ UNCHANGED vars
  BY <1>2, Unseen DEF Elapse, ReadPipe, SafetyWait, vars
<1>3. CASE \E floor \in CallFloors : ApplyDestination(floor)
  BY <1>3, RetargetCycle, ElevatorCarAssumption DEF ApplyDestination
<1>4. CASE Technician
  BY <1>4, TechnicianCycle
<1>5. CASE \E field \in Sensors, value \in SensorValues : Sensor(field, value)
  <2>1. PICK f \in Sensors, v \in SensorValues : shm' = [shm EXCEPT ![f] = v] /\ following' = following
    BY <1>5 DEF Sensor, Write
  <2>2. f = "door_obstruction" \/ f = "overload"
    BY ElevatorCarAssumption
  <2>3. /\ shm'.status = shm.status /\ shm'.current_floor = shm.current_floor
        /\ shm'.destination_floor = shm.destination_floor /\ following' = following
    BY <2>1, <2>2 DEF TypeOK, CarSharedMem
  <2> QED BY <2>3, Unseen
<1>6. CASE SafetyCheck
  <2>1. /\ shm'.current_floor = shm.current_floor
        /\ shm'.destination_floor = shm.destination_floor
        /\ \/ shm'.status = shm.status
           \/ <<shm.status, shm'.status>> \in Cycle!DoorPhases
        /\ following = "none" /\ following' = "none"
    BY <1>6 DEF SafetyCheck, MutexFree, Reopened, TypeOK, CarSharedMem, Cycle!DoorPhases
  <2> QED BY <2>1, Unseen, Doors
<1>7. CASE LoopGoesOn
  BY <1>7, GoesOnCycle
<1> QED BY <1>1, <1>2, <1>3, <1>4, <1>5, <1>6, <1>7 DEF Next

\* Whatever the mode, the presses, the calls and the sensors, the status line of
\* the car follows the door cycle, in every state somebody without the mutex can see.
THEOREM ImplementsDoorCycle == Spec => KeepsDoorCycle
<1>1. Init => Cycle!Init
  BY ElevatorCarAssumption, SameFloors DEF Init, Cycle!Init
<1> QED BY <1>1, NextCycle, Invariance, PTL DEF Spec, KeepsDoorCycle, Cycle!Spec
=============================================================================
