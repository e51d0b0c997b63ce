------------------------------ MODULE RunQueue ------------------------------
(***************************************************************************)
(* What round-robin scheduling promises: whoever has waited longest gets   *)
(* one quantum, and goes to the end of the queue unless he is done.        *)
(***************************************************************************)
EXTENDS Integers, Sequences

CONSTANTS Jobs, Times, Quantum

VARIABLES waiting, remaining

Init == waiting = <<>> /\ remaining = [j \in Jobs |-> 0]

Enter(job, time) ==
    /\ waiting' = Append(waiting, job)
    /\ remaining' = [remaining EXCEPT ![job] = time]

Serve ==
    /\ waiting # <<>>
    /\ remaining' = [remaining EXCEPT ![Head(waiting)] = @ - Quantum]
    /\ waiting' = IF remaining'[Head(waiting)] > 0
                  THEN Append(Tail(waiting), Head(waiting))
                  ELSE Tail(waiting)

Next == Serve \/ \E job \in Jobs, time \in Times : Enter(job, time)

Spec == Init /\ [][Next]_<<waiting, remaining>>
=============================================================================
