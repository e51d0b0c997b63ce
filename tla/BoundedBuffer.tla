---------------------------- MODULE BoundedBuffer ----------------------------
(***************************************************************************)
(* What a bounded buffer promises, whatever its threads, semaphores and    *)
(* condition variables: items come out in the order in which they went in, *)
(* and there are never more than Capacity of them.                         *)
(***************************************************************************)
EXTENDS Naturals, Sequences

CONSTANTS Items, Capacity

VARIABLE content

Init == content = <<>>

Put(item) == Len(content) < Capacity /\ content' = Append(content, item)
Get       == content # <<>> /\ content' = Tail(content)

Next == Get \/ \E item \in Items : Put(item)

Spec == Init /\ [][Next]_content
=============================================================================
