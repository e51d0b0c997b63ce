------------------------------ MODULE MCCarLink ------------------------------
(* Values for the constants of CarLink that a .cfg cannot spell.            *)
EXTENDS CarLink

F1 == Storey(1)
F2 == Storey(2)

TwoFloors   == {F1, F2}
ThreeFloors == {F1, F2, Storey(3)}
NoFloors    == {}
=============================================================================
