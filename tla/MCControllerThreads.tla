------------------------ MODULE MCControllerThreads ------------------------
(* Values for the constants of ControllerThreads that a .cfg cannot spell.  *)
EXTENDS ControllerThreads

CONSTANTS c1, c2, c3, p1

OneForAll == {<<c1, p1>>}
TwoCars   == {c1, c2}
ThreeCars == {c1, c2, c3}
=============================================================================
