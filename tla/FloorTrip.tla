------------------------------ MODULE FloorTrip ------------------------------
(***************************************************************************)
(* The floor arithmetic at work: a car that call after call of move_floor  *)
(* brings from one floor to another, inside the range that made the        *)
(* controller choose it.                                                   *)
(***************************************************************************)
EXTENDS Floors

CONSTANTS
    Lowest, Highest,   \* the range the car announced
    Texts              \* the floor texts calls are made of

ASSUME FloorTripAssumption ==
    /\ Texts \subseteq FloorText
    /\ Lowest \in FloorText /\ ProperFloor(Lowest)
    /\ Highest \in FloorText /\ ProperFloor(Highest)

VARIABLES start, current, destination

tripVars == <<start, current, destination>>

\* The car stands at its lowest floor.
TripInit == start = Lowest /\ current = Lowest /\ destination = Lowest

\* A destination is a text that passed the call program's validator and the
\* controller's range test.
Call(to) ==
    /\ current = destination
    /\ validate_floor_input(to)
    /\ can_access_floors(Lowest, Highest, current, to)
    /\ start' = current /\ destination' = to
    /\ UNCHANGED current

Move ==
    /\ current # destination
    /\ current' = move_floor(current, destination)
    /\ UNCHANGED <<start, destination>>

TripNext == Move \/ \E to \in Texts : Call(to)

TripFairness == WF_tripVars(Move)

TripSpec == TripInit /\ [][TripNext]_tripVars /\ TripFairness

-----------------------------------------------------------------------------
Position(f) == floor_str_to_int(f)

\* Every text on the way is inside the range the controller tested the call
\* against, and between the two ends of the trip (move_floor, can_access_floors).
StaysInRange ==
    /\ Position(Lowest) <= Position(current)
    /\ Position(current) <= Position(Highest)
    /\ \/ Position(start) <= Position(current) /\ Position(current) <= Position(destination)
       \/ Position(destination) <= Position(current) /\ Position(current) <= Position(start)

\* A trip to an unpadded floor ends with the two texts equal, which is the
\* comparison elevator_loop makes.
TripArrives == ~destination.padded ~> (current = destination)
=============================================================================
