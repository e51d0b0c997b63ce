------------------------------ MODULE DoorCycle ------------------------------
(***************************************************************************)
(* What one elevator car promises to anyone who watches its status line    *)
(* ("STATUS {status} {current} {destination}") at any moment, whatever     *)
(* mode it is in: the doors go through their cycle without skipping a      *)
(* phase, the car leaves its floor only towards another one and only from  *)
(* doors that are closed or were told to open a moment ago, it moves one   *)
(* floor at a time, and between floors its destination changes only by     *)
(* stopping short there.  A phase may be passed through: then nothing else *)
(* changes before the next one.                                            *)
(***************************************************************************)
EXTENDS Floors

VARIABLES
    status, current, destination,
    passing     \* whether the phase shown ends at once

vars == <<status, current, destination, passing>>

Statuses == {"Opening", "Open", "Closing", "Closed", "Between"}

Init ==
    /\ status = "Closed"
    /\ current \in FloorText
    /\ destination = current
    /\ passing = FALSE

\* Phases the doors may go through at a floor, and those of them that may pass at
\* once into a departure.
DoorPhases    == {<<"Closed", "Opening">>, <<"Opening", "Open">>, <<"Opening", "Closing">>,
                  <<"Open", "Closing">>, <<"Closing", "Closed">>, <<"Closing", "Opening">>}
PassingPhases == {<<"Closed", "Opening">>, <<"Closing", "Closed">>}

\* A closed door that is passed through opens only where the car was going.
MoveDoors ==
    /\ <<status, status'>> \in DoorPhases
    /\ passing => status = "Closed" /\ current = destination
    /\ passing' => ~passing /\ current # destination /\ <<status, status'>> \in PassingPhases
    /\ passing' \in BOOLEAN
    /\ UNCHANGED <<current, destination>>

Retarget ==
    /\ status # "Between" /\ ~passing
    /\ destination' \in FloorText
    /\ UNCHANGED <<status, current, passing>>

Depart ==
    /\ status = "Closed" \/ (status = "Opening" /\ passing)
    /\ current # destination
    /\ status' = "Between" /\ passing' = FALSE
    /\ UNCHANGED <<current, destination>>

\* A floor that is not the destination: the doors show Closed and the car goes on.
Pass ==
    /\ status = "Between"
    /\ current' = move_floor(current, destination)
    /\ current' # destination
    /\ status' = "Closed" /\ passing' = TRUE
    /\ UNCHANGED destination

\* At the destination, or at the next floor when the car is told to stop there.
Stop ==
    /\ status = "Between"
    /\ current' = move_floor(current, destination)
    /\ destination' = current'
    /\ status' = "Closed" /\ passing' \in BOOLEAN

Next == MoveDoors \/ Retarget \/ Depart \/ Pass \/ Stop

Spec == Init /\ [][Next]_vars
=============================================================================
