---------------------------- MODULE MCElevatorCar ----------------------------
(* Values for the constants of ElevatorCar that a .cfg cannot spell.        *)
EXTENDS ElevatorCar

B1 == Basement(1)
F1 == Storey(1)
F2 == Storey(2)

TwoFloors      == {F1, F2}
CrossingFloors == {B1, F2}           \* the trip passes the number 0
NoFloors       == {}
LowestFloor    == {B1}               \* up and down lead to B2 and 1 from there
=============================================================================
