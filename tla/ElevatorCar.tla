----------------------------- MODULE ElevatorCar -----------------------------
(***************************************************************************)
(* One elevator car: the shared memory segment (shared.h), the loop that   *)
(* drives the doors and the motor (car.c, elevator_loop), the technician's *)
(* commands (internal.c), the safety process (safety.c), and the one place *)
(* where the connection thread writes to the segment.                      *)
(*                                                                         *)
(* Everybody works under the process-shared mutex and announces a change   *)
(* with pthread_cond_broadcast.  The loop holds the mutex except while it  *)
(* is inside pthread_cond_timedwait, and writes one byte per reported      *)
(* status into a pipe while it holds it.  An iteration is one step, or two *)
(* when it stores two statuses one after the other: send_status reads the  *)
(* segment without the mutex, so what lasts only that long can be seen.    *)
(*                                                                         *)
(* A definition Name_Variant is a plausible bug in Name: the runs are      *)
(* repeated with it to show that their properties notice.                  *)
(***************************************************************************)
EXTENDS Floors

CONSTANTS
    Lowest,         \* the floor the car is started at (argv[2])
    CallFloors,     \* the floor texts the controller may send
    Operations,     \* the technician's commands given in this instance
    RiddenFloors,   \* bound: the floors where up and down are given
    Sensors,        \* the bytes the outside world writes
    SensorValues,   \* the values it writes there
    SafetyRuns,     \* whether the safety process was started
    PipeCapacity    \* bytes the pipe holds before write() blocks

ByteFields == {"open_button", "close_button", "door_obstruction", "overload",
               "emergency_stop", "individual_service_mode", "emergency_mode"}
Commands   == {"open", "close", "stop", "service_on", "service_off", "up", "down"}
Byte       == 0 .. 255

ASSUME ElevatorCarAssumption ==
    /\ Lowest \in FloorText
    /\ CallFloors \subseteq FloorText
    /\ Operations \subseteq Commands
    /\ RiddenFloors \subseteq FloorText
    /\ Sensors \subseteq {"door_obstruction", "overload"}
    /\ SensorValues \subseteq Byte
    /\ SafetyRuns \in BOOLEAN
    /\ PipeCapacity \in Nat \ {0}

VARIABLES
    shm,        \* the shared memory segment
    timer,      \* the loop's timeout: "running", or "expired" once the deadline passed
    loopWake,   \* the loop's current wait: "waiting", or "woken" once it was broadcast to
    following,  \* the status the loop stores next in the same iteration, "none" outside
    safety,     \* the safety process: "running" outside the wait, "waiting", "woken"
    pipe        \* status bytes written, or about to be, and not yet read

vars == <<shm, timer, loopWake, following, safety, pipe>>

Statuses == {"Opening", "Open", "Closing", "Closed", "Between"}

CarSharedMem ==
    [current_floor : FloorText, destination_floor : FloorText, status : Statuses,
     open_button : Byte, close_button : Byte, door_obstruction : Byte, overload : Byte,
     emergency_stop : Byte, individual_service_mode : Byte, emergency_mode : Byte]

TypeOK ==
    /\ shm \in CarSharedMem
    /\ timer \in {"running", "expired"}
    /\ loopWake \in {"waiting", "woken"}
    /\ following \in {"none", "Between", "Opening"}
    /\ safety \in {"off", "running", "waiting", "woken"}
    /\ pipe \in Nat

\* reset_shm: zero everything, doors closed, at rest at the lowest floor.
Init ==
    /\ shm = [current_floor |-> Lowest, destination_floor |-> Lowest, status |-> "Closed",
              open_button |-> 0, close_button |-> 0, door_obstruction |-> 0, overload |-> 0,
              emergency_stop |-> 0, individual_service_mode |-> 0, emergency_mode |-> 0]
    /\ timer = "running"
    /\ loopWake = "waiting"
    /\ following = "none"
    /\ safety = IF SafetyRuns THEN "running" ELSE "off"
    /\ pipe = 0

-----------------------------------------------------------------------------
(* The mutex, the condition variable, the timer and the pipe.              *)

\* The loop writes its bytes before it waits again: with the pipe full it keeps
\* the mutex inside write(), and only those who do without the mutex see what it changed.
Writing   == pipe > PipeCapacity
MutexFree == following = "none" /\ ~Writing

Signalled(s) == IF s = "waiting" THEN "woken" ELSE s

\* pthread_cond_broadcast by anyone but the loop.
Broadcast ==
    /\ loopWake' = "woken"
    /\ safety' = Signalled(safety)

\* The loop's wait returns 0 after a broadcast, and ETIMEDOUT any time after the
\* deadline, a broadcast that came in the meantime notwithstanding.
Woken    == MutexFree /\ loopWake = "woken"
TimedOut == MutexFree /\ timer = "expired"

\* What an iteration leaves in the segment, whether it called notify_status_change,
\* calculate_absolute_timeout and pthread_cond_broadcast (the latter before its own
\* next wait), and the status it has yet to store.
Iterate(newShm, byte, rearm, broadcast, next) ==
    /\ shm' = newShm
    /\ pipe' = IF byte THEN pipe + 1 ELSE pipe
    /\ timer' = IF rearm THEN "running" ELSE timer
    /\ loopWake' = "waiting"
    /\ following' = next
    /\ safety' = IF broadcast THEN Signalled(safety) ELSE safety

Report(newShm) == Iterate(newShm, TRUE, TRUE, TRUE, "none")     \* the usual ending of a case
Rearm(newShm)  == Iterate(newShm, FALSE, TRUE, FALSE, "none")
Ignore(newShm) == Iterate(newShm, FALSE, FALSE, FALSE, "none")

LoopGoesOn_Silent ==
    /\ following # "none" /\ ~Writing
    /\ Iterate([shm EXCEPT !.status = following], FALSE, TRUE, TRUE, "none")

\* The second status of an iteration; every such case ends like Report.
LoopGoesOn ==
    /\ following # "none" /\ ~Writing
    /\ Report([shm EXCEPT !.status = following])

Elapse ==
    /\ timer = "running"
    /\ timer' = "expired"
    /\ UNCHANGED <<shm, loopWake, following, safety, pipe>>

ReadPipe_Blind ==
    /\ pipe' = pipe - 1
    /\ UNCHANGED <<shm, timer, loopWake, following, safety>>

\* The connection thread takes one byte off the pipe.
ReadPipe ==
    /\ pipe > 0
    /\ pipe' = pipe - 1
    /\ UNCHANGED <<shm, timer, loopWake, following, safety>>

-----------------------------------------------------------------------------
(* elevator_loop.                                                          *)

Emergency == shm.emergency_mode = 1
Service   == ~Emergency /\ shm.individual_service_mode = 1
Normal    == ~Emergency /\ shm.individual_service_mode # 1

OpenPressed  == shm.open_button = 1
ClosePressed == shm.close_button = 1
Elsewhere    == shm.current_floor # shm.destination_floor
NextFloor_Express == shm.destination_floor
NextFloor    == move_floor(shm.current_floor, shm.destination_floor)

HeldDoorsWake_ClearsBoth ==
    /\ ClosePressed \/ OpenPressed
    /\ shm.status # "Open"
    /\ Ignore([shm EXCEPT !.open_button = 0, !.close_button = 0])

\* Emergency and service modes handle a button press alike.
HeldDoorsWake ==
    \/ /\ ClosePressed /\ shm.status = "Open"
       /\ Report([shm EXCEPT !.close_button = 0, !.status = "Closing"])
    \/ /\ ClosePressed /\ shm.status # "Open"
       /\ Ignore([shm EXCEPT !.close_button = 0])
    \/ /\ ~ClosePressed /\ OpenPressed /\ shm.status \in {"Closed", "Closing"}
       /\ Report([shm EXCEPT !.open_button = 0, !.status = "Opening"])
    \/ /\ ~ClosePressed /\ OpenPressed /\ shm.status \notin {"Closed", "Closing"}
       /\ Ignore([shm EXCEPT !.open_button = 0])

Halted(target) ==
    [shm EXCEPT !.current_floor = NextFloor, !.destination_floor = target, !.status = "Closed",
                !.open_button = 0, !.close_button = 0]

StopAtNextFloor_KeepTarget ==
    /\ shm.status = "Between"
    /\ \/ OpenPressed /\ Iterate(Halted(shm.destination_floor), TRUE, FALSE, FALSE, "Opening")
       \/ ~OpenPressed /\ Report(Halted(shm.destination_floor))

\* In both modes the car finishes the floor it is travelling and stops there; with
\* the open button pressed, Closed is reported and Opening follows at once.
StopAtNextFloor ==
    /\ shm.status = "Between"
    /\ \/ OpenPressed /\ Iterate(Halted(NextFloor), TRUE, FALSE, FALSE, "Opening")
       \/ ~OpenPressed /\ Report(Halted(NextFloor))

\* ... and lets the doors finish, unless the opposite button was pressed.
HeldDoorsTimeout ==
    \/ /\ shm.status = "Opening"
       /\ Report([shm EXCEPT !.open_button = 0,
                             !.close_button = IF ClosePressed THEN 0 ELSE @,
                             !.status = IF ClosePressed THEN "Closing" ELSE "Open"])
    \/ /\ shm.status = "Closing"
       /\ Report([shm EXCEPT !.close_button = 0,
                             !.open_button = IF OpenPressed THEN 0 ELSE @,
                             !.status = IF OpenPressed THEN "Opening" ELSE "Closed"])
    \/ /\ shm.status = "Open" /\ ClosePressed
       /\ Report([shm EXCEPT !.open_button = 0, !.close_button = 0, !.status = "Closing"])
    \/ /\ shm.status = "Open" /\ ~ClosePressed
       /\ Rearm([shm EXCEPT !.open_button = 0])
    \/ /\ shm.status = "Closed" /\ OpenPressed
       /\ Report([shm EXCEPT !.open_button = 0, !.close_button = 0, !.status = "Opening"])

EmergencyWake ==
    /\ Emergency /\ Woken
    /\ \/ HeldDoorsWake
       \/ ~ClosePressed /\ ~OpenPressed /\ Ignore(shm)

EmergencyTimeout_NoStop ==
    /\ Emergency /\ TimedOut
    /\ \/ shm.status = "Between" /\ Rearm(shm)
       \/ HeldDoorsTimeout
       \/ shm.status = "Closed" /\ ~OpenPressed /\ Rearm([shm EXCEPT !.close_button = 0])

EmergencyTimeout ==
    /\ Emergency /\ TimedOut
    /\ \/ StopAtNextFloor
       \/ HeldDoorsTimeout
       \/ shm.status = "Closed" /\ ~OpenPressed /\ Rearm([shm EXCEPT !.close_button = 0])

ServiceWake ==
    /\ Service /\ Woken
    /\ \/ HeldDoorsWake
       \/ /\ ~ClosePressed /\ ~OpenPressed /\ Elsewhere /\ shm.status = "Closed"
          /\ Iterate([shm EXCEPT !.status = "Between"], TRUE, TRUE, FALSE, "none")
       \/ /\ ~ClosePressed /\ ~OpenPressed /\ ~(Elsewhere /\ shm.status = "Closed")
          /\ Ignore(shm)

ServiceTimeout ==
    /\ Service /\ TimedOut
    /\ \/ StopAtNextFloor
       \/ HeldDoorsTimeout
       \/ /\ shm.status = "Closed" /\ ~OpenPressed /\ Elsewhere
          /\ Iterate([shm EXCEPT !.close_button = 0, !.status = "Between"],
                     TRUE, TRUE, FALSE, "none")
       \/ /\ shm.status = "Closed" /\ ~OpenPressed /\ ~Elsewhere
          /\ Rearm([shm EXCEPT !.close_button = 0])

NormalWake ==
    /\ Normal /\ Woken
    /\ \/ /\ OpenPressed /\ shm.status \in {"Closed", "Closing"}
          /\ Report([shm EXCEPT !.open_button = 0, !.status = "Opening"])
       \/ /\ OpenPressed /\ shm.status = "Open"
          /\ Rearm([shm EXCEPT !.open_button = 0])
       \/ /\ OpenPressed /\ shm.status \in {"Opening", "Between"}
          /\ Ignore([shm EXCEPT !.open_button = 0])
       \/ /\ ~OpenPressed /\ ClosePressed /\ shm.status = "Open"
          /\ Report([shm EXCEPT !.close_button = 0, !.status = "Closing"])
       \/ /\ ~OpenPressed /\ ClosePressed /\ shm.status # "Open"
          /\ Ignore([shm EXCEPT !.close_button = 0])
       \/ /\ ~OpenPressed /\ ~ClosePressed /\ shm.status = "Closed"
          /\ Report([shm EXCEPT !.status = IF Elsewhere THEN "Between" ELSE "Opening"])
       \/ ~OpenPressed /\ ~ClosePressed /\ shm.status # "Closed" /\ Ignore(shm)

\* Between floors: one floor closer, Closed for a moment and without a word to
\* anyone, and on, or open the doors.
NormalMove ==
    /\ shm.status = "Between"
    /\ Iterate([shm EXCEPT !.current_floor = NextFloor, !.status = "Closed"], FALSE, FALSE, FALSE,
               IF NextFloor # shm.destination_floor THEN "Between" ELSE "Opening")

NormalRest_ButtonOnly ==
    /\ shm.status = "Closed"
    /\ \/ OpenPressed /\ Report([shm EXCEPT !.open_button = 0, !.status = "Opening"])
       \/ ~OpenPressed /\ Ignore(shm)

\* With the doors closed the open button is looked at first and the destination
\* second; with both, the doors are reported Opening and the car departs at once.
NormalRest ==
    /\ shm.status = "Closed"
    /\ \/ /\ OpenPressed /\ ~Elsewhere
          /\ Report([shm EXCEPT !.open_button = 0, !.status = "Opening"])
       \/ /\ OpenPressed /\ Elsewhere
          /\ Iterate([shm EXCEPT !.open_button = 0, !.status = "Opening"],
                     TRUE, TRUE, TRUE, "Between")
       \/ ~OpenPressed /\ Elsewhere /\ Report([shm EXCEPT !.status = "Between"])
       \/ ~OpenPressed /\ ~Elsewhere /\ Ignore(shm)

NormalDoors ==
    \/ /\ shm.status = "Opening"
       /\ Report([shm EXCEPT !.close_button = IF ClosePressed THEN 0 ELSE @,
                             !.status = IF ClosePressed THEN "Closing" ELSE "Open"])
    \/ /\ shm.status = "Open" /\ OpenPressed
       /\ Rearm([shm EXCEPT !.open_button = 0])
    \/ /\ shm.status = "Open" /\ ~OpenPressed
       /\ Report([shm EXCEPT !.close_button = IF ClosePressed THEN 0 ELSE @,
                             !.status = "Closing"])
    \/ /\ shm.status = "Closing" /\ OpenPressed
       /\ Report([shm EXCEPT !.open_button = 0, !.status = "Opening"])
    \/ /\ shm.status = "Closing" /\ ~OpenPressed /\ ~Elsewhere
       /\ Report([shm EXCEPT !.status = "Closed"])
    \/ /\ shm.status = "Closing" /\ ~OpenPressed /\ Elsewhere
       /\ Iterate([shm EXCEPT !.status = "Closed"], TRUE, TRUE, FALSE, "Between")

NormalTimeout ==
    /\ Normal /\ TimedOut
    /\ NormalMove \/ NormalRest \/ NormalDoors

LoopWake    == EmergencyWake \/ ServiceWake \/ NormalWake
LoopTimeout == EmergencyTimeout \/ ServiceTimeout \/ NormalTimeout

-----------------------------------------------------------------------------
(* The others who write to the segment.                                    *)

Write(newShm) ==
    /\ MutexFree
    /\ shm' = newShm
    /\ Broadcast
    /\ UNCHANGED <<timer, following, pipe>>

ApplyDestination_AnyTime(floor) ==
    Write([shm EXCEPT !.destination_floor = floor])

\* The connection thread hands over a floor the controller sent, never while
\* the car is between floors.
ApplyDestination(floor) ==
    /\ shm.status # "Between"
    /\ Write([shm EXCEPT !.destination_floor = floor])

TechnicianMove_AnyStatus(command, floor) ==
    /\ command \in Operations /\ shm.current_floor \in RiddenFloors
    /\ shm.individual_service_mode # 0
    /\ Write([shm EXCEPT !.destination_floor = floor])

\* internal.c: up and down need service mode and closed doors.
TechnicianMove(command, floor) ==
    /\ command \in Operations /\ shm.current_floor \in RiddenFloors
    /\ shm.individual_service_mode # 0
    /\ shm.status = "Closed"
    /\ Write([shm EXCEPT !.destination_floor = floor])

TechnicianSet(command, newShm) == command \in Operations /\ Write(newShm)

Technician ==
    \/ TechnicianSet("open", [shm EXCEPT !.open_button = 1])
    \/ TechnicianSet("close", [shm EXCEPT !.close_button = 1])
    \/ TechnicianSet("stop", [shm EXCEPT !.emergency_stop = 1])
    \/ TechnicianSet("service_on", [shm EXCEPT !.individual_service_mode = 1,
                                               !.emergency_mode = 0])
    \/ TechnicianSet("service_off", [shm EXCEPT !.individual_service_mode = 0])
    \/ TechnicianMove("up", floor_above(shm.current_floor))
    \/ TechnicianMove("down", floor_below(shm.current_floor))

\* No program here sets these two bytes; the door and load sensors do.
Sensor(field, value) == Write([shm EXCEPT ![field] = value])

-----------------------------------------------------------------------------
(* The safety process: lock, wait for one broadcast, check, unlock, again. *)

SafetyWait ==
    /\ safety = "running" /\ MutexFree
    /\ safety' = "waiting"
    /\ UNCHANGED <<shm, timer, loopWake, following, pipe>>

Reopened_AnyStatus == IF shm.door_obstruction = 1 THEN "Opening" ELSE shm.status

\* An obstruction found while the doors close opens them again.
Reopened == IF shm.door_obstruction = 1 /\ shm.status = "Closing" THEN "Opening" ELSE shm.status

StopOrOverload ==
    (shm.emergency_stop = 1 \/ shm.overload = 1) /\ shm.emergency_mode = 0

Inconsistent_BytesOnly(status) == \E field \in ByteFields : shm[field] > 1

Inconsistent(status) ==
    \/ ~safety_validate_floor_input(shm.current_floor)
    \/ ~safety_validate_floor_input(shm.destination_floor)
    \/ \E field \in ByteFields : shm[field] > 1
    \/ shm.door_obstruction = 1 /\ status \notin {"Opening", "Closing"}

\* It neither re-arms the loop's timer nor broadcasts nor writes to the pipe.
SafetyCheck ==
    /\ safety = "woken" /\ MutexFree
    /\ safety' = "running"
    /\ shm' = [shm EXCEPT !.status = Reopened,
                          !.emergency_mode =
                              IF StopOrOverload \/ (@ # 1 /\ Inconsistent(Reopened)) THEN 1 ELSE @]
    /\ UNCHANGED <<timer, loopWake, following, pipe>>

-----------------------------------------------------------------------------
Next ==
    \/ LoopWake
    \/ LoopTimeout
    \/ LoopGoesOn
    \/ Elapse
    \/ ReadPipe
    \/ \E floor \in CallFloors : ApplyDestination(floor)
    \/ Technician
    \/ \E field \in Sensors, value \in SensorValues : Sensor(field, value)
    \/ SafetyWait
    \/ SafetyCheck

\* The loop, its timer and the safety process are scheduled again and again, a
\* process that keeps asking for the mutex gets it, and the connection thread
\* keeps reading; presses, calls and sensors come or do not come.
Fairness ==
    /\ WF_vars(LoopWake)
    /\ WF_vars(LoopTimeout)
    /\ WF_vars(LoopGoesOn)
    /\ WF_vars(Elapse)
    /\ WF_vars(ReadPipe)
    /\ SF_vars(SafetyWait)
    /\ SF_vars(SafetyCheck)

Spec == Init /\ [][Next]_vars /\ Fairness

-----------------------------------------------------------------------------
(* Safety.                                                                 *)

AtFloor == shm.current_floor

\* A car between floors, or about to leave one, always has a floor to go to: a destination is written
\* only while the status is not Between (car.c:662, internal.c:83,101), and the
\* loop leaves Between as soon as the two texts agree.
BetweenMeansElsewhere == (shm.status = "Between" \/ following = "Between") => Elsewhere

\* What the outside sees of the car, even without the mutex, is the door cycle: no mode,
\* no button, no obstruction and no call makes it skip a phase, or leave a floor whose
\* doors are open, or more than just told to open (car.c:481-492).
Cycle == INSTANCE DoorCycle WITH status <- shm.status, current <- shm.current_floor,
                                 destination <- shm.destination_floor,
                                 passing <- following # "none"
KeepsDoorCycle == Cycle!Spec

\* In emergency mode a trip is never begun, and one under way ends at the very
\* next floor (car.c:226-227, 233-244).
EmergencyNeverTravels ==
    [][Emergency =>
          /\ shm'.status = "Between" => shm.status = "Between"
          /\ shm'.current_floor # shm.current_floor =>
                /\ shm'.status = "Closed"
                /\ shm'.destination_floor = shm'.current_floor]_vars

\* Whatever changes the status gives the new phase its full delay and tells the
\* controller connection, except a phase that lasts no longer than the loop needs to
\* store the next one, and the safety process when it reopens the doors (car.c:163-164).
ChangesAreTimedAndReported ==
    [][shm'.status # shm.status =>
          \/ timer' = "running" /\ pipe' > pipe
          \/ following' # "none"
          \/ shm.status = "Closing" /\ shm'.status = "Opening" /\ safety = "woken"]_vars

\* One pass of the safety process leaves the car in emergency mode unless no
\* alarm is raised and the segment is consistent; an obstructed car it leaves
\* out of emergency mode is opening its doors (safety.c:215-250).
SafetyLeavesSafeState ==
    [][SafetyCheck =>
          \/ shm'.emergency_mode = 1
          \/ /\ shm'.emergency_stop = 0 /\ shm'.overload = 0
             /\ shm'.door_obstruction = 0 \/ shm'.status = "Opening"
             /\ \A field \in ByteFields : shm'[field] <= 1]_vars

-----------------------------------------------------------------------------
(* Liveness.                                                               *)

\* Somebody or something holds the doors open.
HeldOpen == OpenPressed \/ shm.door_obstruction = 1

\* In normal mode a destination other than the current floor is reached and the doors
\* open there, unless the controller changes its mind or the doors are held open.
CallServed ==
    \A floor \in CallFloors :
        (shm.destination_floor = floor /\ AtFloor # floor) ~>
            \/ shm.destination_floor # floor
            \/ AtFloor = floor /\ shm.status = "Opening"
            \/ HeldOpen /\ shm.status # "Between"
            \/ ~Normal

\* In normal mode doors that open do close again, as soon as nothing holds them.
DoorsCloseAgain ==
    (shm.status = "Opening") ~> (shm.status \in {"Closed", "Between"} \/ HeldOpen \/ ~Normal)

\* In emergency mode a moving car comes to rest.
EmergencyStopsCar == (Emergency /\ shm.status = "Between") ~> (~Emergency \/ shm.status # "Between")

\* In emergency mode a passenger behind closed doors who presses the open button
\* gets out, whatever else is pressed.
TrappedPassengerCanLeave ==
    (Emergency /\ shm.status = "Closed" /\ OpenPressed) ~> (~Emergency \/ shm.status = "Opening")

-----------------------------------------------------------------------------
(* What a comment in the code says and the code does not do.               *)

\* safety.c:220: the emergency stop, once enabled, enables emergency mode.
StopEngages == (shm.emergency_stop = 1) ~> Emergency

=============================================================================
