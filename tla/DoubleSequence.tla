--------------------------- MODULE DoubleSequence ---------------------------
(***************************************************************************)
(* What two vectors promise, one of which is copied to the other: to be    *)
(* sequences.                                                              *)
(***************************************************************************)
EXTENDS Naturals, Sequences, SequencesExt

CONSTANTS Doubles

VARIABLES one, other

Init == one = <<>> /\ other = <<>>

InsertItem(place, x) == one' = InsertAt(one, place, x) /\ UNCHANGED other
RemoveItem(place)    == one' = RemoveAt(one, place) /\ UNCHANGED other
RemoveAll            == one' = <<>> /\ UNCHANGED other
CopyItems            == other' = one /\ UNCHANGED one

Next ==
    \/ RemoveAll \/ CopyItems
    \/ \E place \in 1 .. Len(one) + 1, x \in Doubles : InsertItem(place, x)
    \/ \E place \in DOMAIN one : RemoveItem(place)

Spec == Init /\ [][Next]_<<one, other>>
=============================================================================
