----------------------------- MODULE FloorQueue -----------------------------
(***************************************************************************)
(* The list of floors the controller keeps for one car (controller.c,      *)
(* insert_floors_into_queue and the pop in handle_car_connection).         *)
(*                                                                         *)
(* The linked list is a sequence of nodes; the pointer surgery of the      *)
(* insertion is given by what it leaves reachable from floor_queue_head,   *)
(* a node that the surgery forgets included.                               *)
(***************************************************************************)
EXTENDS Floors, Sequences

Node(direction, floor) == [direction |-> direction, floor |-> floor]

floor_number(f) == floor_str_to_int(f)

CallDirection(from, to) == IF floor_number(to) > floor_number(from) THEN "U" ELSE "D"

\* Which way the car is going, as far as the controller can tell.
CarDirection(car, queue, callDirection) ==
    LET Towards(f) == IF floor_number(f) > floor_number(car.current_floor) THEN "U" ELSE "D"
    IN  IF car.status = "Between" THEN Towards(car.destination_floor)
        ELSE IF queue # <<>> THEN Towards(queue[1].floor)
        ELSE callDirection

\* The length of the run of nodes at the head that go in the given direction.
Block(queue, direction) ==
    CHOOSE n \in 0 .. Len(queue) :
        /\ \A i \in 1 .. n : queue[i].direction = direction
        /\ n < Len(queue) => queue[n + 1].direction # direction

Reaches(node, direction, floor) ==
    IF direction = "U" THEN floor_number(node.floor) >= floor_number(floor)
                       ELSE floor_number(node.floor) <= floor_number(floor)

\* The first node from position start on, in the run of length n, that is at or
\* past the floor; n + 1 when there is none.
FirstReaching(queue, start, n, direction, floor) ==
    CHOOSE i \in start .. (n + 1) :
        /\ i <= n => Reaches(queue[i], direction, floor)
        /\ \A k \in start .. (i - 1) : ~Reaches(queue[k], direction, floor)

\* In the car's own direction: each floor goes before the first node that is at
\* or past it, or is left out if that node is the floor.  When the run ends
\* before `to' has found its place, what followed a linked `from' is cut off, and
\* nothing is linked when `from' was left out.
InsertOnTheWay(queue, direction, from, to) ==
    LET n    == Block(queue, direction)
        i    == FirstReaching(queue, 1, n, direction, from)
        j    == FirstReaching(queue, i, n, direction, to)
        Unless(k, floor) == IF queue[k].floor = floor THEN <<>> ELSE <<Node(direction, floor)>>
        both == <<Node(direction, from), Node(direction, to)>>
    IN  IF i <= n /\ j <= n
        THEN SubSeq(queue, 1, i - 1) \o Unless(i, from) \o SubSeq(queue, i, j - 1)
                \o Unless(j, to) \o SubSeq(queue, j, Len(queue))
        ELSE IF i <= n /\ queue[i].floor = from THEN queue
        ELSE SubSeq(queue, 1, i - 1) \o both \o SubSeq(queue, n + 1, Len(queue))

insert_floors_into_queue(car, queue, from, to) ==
    LET direction == CallDirection(from, to)
    IN  IF CarDirection(car, queue, direction) = direction
        THEN InsertOnTheWay(queue, direction, from, to)
        ELSE queue \o <<Node(direction, from), Node(direction, to)>>

\* Whether the car is told the head of the new queue.
TellsCar(car, old, new) ==
    \/ old = <<>> \/ old[1].floor # new[1].floor
    \/ car.current_floor = new[1].floor

\* An arrival told from the destination alone.
Arrived_Target(car, queue) ==
    /\ car.status = "Opening"
    /\ queue # <<>> /\ queue[1].floor = car.destination_floor

\* A status report says the doors begin to open at the floor the queue starts with.
Arrived(car, queue) ==
    /\ car.status = "Opening" /\ car.current_floor = car.destination_floor
    /\ queue # <<>> /\ queue[1].floor = car.current_floor

\* That floor is done, and the next node too if it is the same floor.
AfterArrival(queue) ==
    IF Len(queue) > 1 /\ queue[2].floor = queue[1].floor
    THEN SubSeq(queue, 3, Len(queue))
    ELSE Tail(queue)
=============================================================================
