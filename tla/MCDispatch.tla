----------------------------- MODULE MCDispatch -----------------------------
(* Values for the constants of Dispatch that a .cfg cannot spell.           *)
EXTENDS Dispatch

F1 == Storey(1)
F2 == Storey(2)
F3 == Storey(3)

ThreeFloors == {F1, F2, F3}
NoFloors    == {}
\* Calls the same way are alike: no insertion loses a floor.
SafeTrips   == {<<F2, F3>>, <<F3, F1>>}
\* Of two calls the same way one begins where the other ends.
SplitTrips  == {<<F1, F2>>, <<F2, F3>>}
AllTrips    == {<<F1, F2>>, <<F2, F3>>, <<F3, F1>>, <<F1, F3>>}
=============================================================================
