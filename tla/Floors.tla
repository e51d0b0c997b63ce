------------------------------- MODULE Floors -------------------------------
(***************************************************************************)
(* Floor names and the arithmetic the programs of assignment2 do on them.  *)
(*                                                                         *)
(* A floor travels through the system as text ("B2", "7", also "07") and   *)
(* is compared as text (strcmp) in some places and as a number (atoi) in   *)
(* others.  A text is abstracted to the three things those comparisons     *)
(* tell apart: whether it starts with 'B', the number that follows, and    *)
(* whether that number carries leading zeros.  "-1" is the non-basement    *)
(* text with number -1, so it differs from "B1" although both mean -1.     *)
(***************************************************************************)
EXTENDS Integers

FloorText == [basement : BOOLEAN, number : Int, padded : BOOLEAN]

Basement(n) == [basement |-> TRUE, number |-> n, padded |-> FALSE]
Storey(n)   == [basement |-> FALSE, number |-> n, padded |-> FALSE]

\* The text a person may type for the same floor with a leading zero: "01".
Padded(f) == [f EXCEPT !.padded = TRUE]

LowestBasement == 99
HighestStorey  == 999

-----------------------------------------------------------------------------
(* car.c: the two conversions and the step of one floor.                   *)

floor_str_to_int(f) == IF f.basement THEN -f.number ELSE f.number

floor_int_to_str_signed(i) == Storey(i)

floor_int_to_str(i) == IF i < 0 THEN Basement(-i) ELSE Storey(i)

\* One floor closer to the destination; the text is left alone when the two
\* numbers agree, whatever the texts are.
move_floor(current, destination) ==
    LET c == floor_str_to_int(current)
        d == floor_str_to_int(destination)
    IN  IF c < d THEN floor_int_to_str(c + 1)
        ELSE IF c > d THEN floor_int_to_str(c - 1)
        ELSE current

-----------------------------------------------------------------------------
(* internal.c: the technician's neighbouring floors, which skip zero.      *)

floor_above(f) ==
    IF f.basement
    THEN IF f.number = 1 THEN Storey(1) ELSE Basement(f.number - 1)
    ELSE IF f.number < HighestStorey THEN Storey(f.number + 1) ELSE f

floor_below(f) ==
    IF f.basement
    THEN IF f.number < LowestBasement THEN Basement(f.number + 1) ELSE f
    ELSE IF f.number = 1 THEN Basement(1) ELSE Storey(f.number - 1)

-----------------------------------------------------------------------------
(* The two validators, and the controller's range test.                    *)

\* shared.h, used by the call program.
validate_floor_input(f) ==
    f.number \in 1 .. (IF f.basement THEN LowestBasement ELSE HighestStorey)

\* safety.c: digits only after an optional 'B'; "0" and "00" pass.
safety_validate_floor_input(f) == f.number \in 0 .. HighestStorey

\* A range test of the source floor alone.
can_access_floors_from(lowest, highest, current, destination) ==
    /\ floor_str_to_int(lowest) <= floor_str_to_int(current)
    /\ floor_str_to_int(current) <= floor_str_to_int(highest)

can_access_floors(lowest, highest, current, destination) ==
    \A f \in {current, destination} :
        /\ floor_str_to_int(lowest) <= floor_str_to_int(f)
        /\ floor_str_to_int(f) <= floor_str_to_int(highest)

\* The floors of the service: the texts B99..B1 and 1..999 without padding.
ProperFloor(f) == validate_floor_input(f) /\ ~f.padded
=============================================================================
