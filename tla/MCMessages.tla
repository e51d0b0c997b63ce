----------------------------- MODULE MCMessages -----------------------------
(* An instance of Messages that TLC can check. *)
EXTENDS Messages

CONSTANTS short, long, writer

MCBodySize == [m \in {short, long} |-> IF m = short THEN 1 ELSE 3]
=============================================================================
