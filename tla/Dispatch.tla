------------------------------ MODULE Dispatch ------------------------------
(***************************************************************************)
(* The controller at work with one car: the call queue, the car's entry in *)
(* the car list with its floor queue, the thread that reads the car's      *)
(* status reports (controller.c, handle_car_connection) and the loop that  *)
(* hands calls to the car (elevator_control_loop), composed with the car   *)
(* and its connection thread of CarLink.                                   *)
(*                                                                         *)
(* The car is left to passengers: nobody stops it or puts it in service    *)
(* mode and no alarm is raised.  (A car in another mode hangs up; CarLink  *)
(* models that.)                                                           *)
(***************************************************************************)
EXTENDS CarLink, FloorQueue

CONSTANTS
    Highest,    \* the highest floor the car announced
    Trips,      \* the <<source, destination>> pairs of the call program
    MaxCalls,   \* bound: calls placed
    Restarts    \* whether the controller is ever stopped and started again

ASSUME DispatchAssumption ==
    /\ Highest \in FloorText
    /\ Trips \subseteq CallFloors \X CallFloors
    /\ MaxCalls \in Nat
    /\ Restarts \in BOOLEAN
    /\ Operations \subseteq {"open", "close"} /\ Sensors = {} /\ ~SafetyRuns

VARIABLES
    calls,      \* call_queue_head: the calls nobody has looked at
    placed,     \* how many calls were placed
    queue,      \* floor_queue_head of the car's entry
    handler,    \* the thread of the connection: "reading" a report, or "popping"
                \* between its two critical sections
    riders,     \* history: who was told "Car {name} is arriving", and is not yet where
                \* he wants to be
    rested,     \* history: the floors where the car has been at its destination since this
                \* controller came up
    hasty       \* history: a floor was ticked off while somebody still needed it

callVars == <<calls, placed, queue, handler>>
history  == <<riders, rested, hasty>>
dispatchVars == <<allVars, callVars, history>>

CallNode == [direction : {"U", "D"}, floor : CallFloors]

DispatchTypeOK ==
    /\ calls \in Seq(Trips)
    /\ placed \in 0 .. MaxCalls
    /\ queue \in Seq(CallNode)
    /\ handler \in {"reading", "popping"}
    /\ known = NoStatus => queue = <<>> /\ handler = "reading"   \* there is no entry
    /\ riders \subseteq [trip : Trips, aboard : BOOLEAN]
    /\ rested \subseteq FloorText
    /\ hasty \in BOOLEAN

DispatchInit ==
    /\ LinkInit
    /\ calls = <<>> /\ placed = 0
    /\ queue = <<>>
    /\ handler = "reading"
    /\ riders = {} /\ rested = {Lowest} /\ hasty = FALSE

\* The car is in the list once its first report was read.
Listed == known # NoStatus

Send(floor) == inbox' = Append(inbox, floor)

\* Where the doors begin to open those who wait there get in, and those who want to go
\* there get out.
Carried(people, car) ==
    LET here  == car.current_floor
        stays == {p \in people : ~(p.aboard /\ p.trip[2] = here)}
    IN  IF car.status = "Opening"
        THEN {[p EXCEPT !.aboard = @ \/ p.trip[1] = here] : p \in stays}
        ELSE people

Standing == IF AtFloor = shm.destination_floor THEN {AtFloor} ELSE {}

\* The history of a step of the car.
Watched ==
    /\ riders' = Carried(riders, shm')
    /\ rested' = rested \cup Standing'
    /\ UNCHANGED hasty

Needed(floor) == \E p \in riders : floor = (IF p.aboard THEN p.trip[2] ELSE p.trip[1])

-----------------------------------------------------------------------------
(* handle_call_connection and elevator_control_loop.                       *)

PlaceCall(trip) ==
    /\ placed < MaxCalls
    /\ trip[1] # trip[2]
    /\ calls' = Append(calls, trip)
    /\ placed' = placed + 1
    /\ UNCHANGED <<allVars, queue, handler, history>>

\* The answer is "UNAVAILABLE".
Refuse ==
    /\ calls # <<>>
    /\ ~(Listed /\ can_access_floors(Lowest, Highest, Head(calls)[1], Head(calls)[2]))
    /\ calls' = Tail(calls)
    /\ UNCHANGED <<allVars, placed, queue, handler, history>>

Planned == insert_floors_into_queue(known, queue, Head(calls)[1], Head(calls)[2])

\* An assignment that notes the new target as the car's own destination.
Assign_Foresees ==
    /\ calls # <<>>
    /\ Listed /\ can_access_floors(Lowest, Highest, Head(calls)[1], Head(calls)[2])
    /\ Len(inbox) < MaxInbox
    /\ calls' = Tail(calls)
    /\ queue' = Planned
    /\ known' = [known EXCEPT !.destination_floor = Planned[1].floor]
    /\ IF TellsCar(known, queue, Planned) THEN Send(Planned[1].floor) ELSE UNCHANGED inbox
    /\ riders' = Carried(riders \cup {[trip |-> Head(calls), aboard |-> FALSE]}, shm)
    /\ UNCHANGED <<vars, link, peer, pending, captured, outbox, placed, handler, rested, hasty>>

\* The answer is "CAR {name}".
Assign ==
    /\ calls # <<>>
    /\ Listed /\ can_access_floors(Lowest, Highest, Head(calls)[1], Head(calls)[2])
    /\ Len(inbox) < MaxInbox
    /\ calls' = Tail(calls)
    /\ queue' = Planned
    /\ IF TellsCar(known, queue, Planned) THEN Send(Planned[1].floor) ELSE UNCHANGED inbox
    /\ riders' = Carried(riders \cup {[trip |-> Head(calls), aboard |-> FALSE]}, shm)
    /\ UNCHANGED <<vars, link, peer, pending, captured, outbox, known, placed, handler,
                   rested, hasty>>

-----------------------------------------------------------------------------
(* handle_car_connection.                                                  *)

\* The first report creates the entry; a later one updates it and is then held
\* against the floor queue.
ReadReport ==
    /\ handler = "reading"
    /\ ControllerReads
    /\ handler' = IF Listed THEN "popping" ELSE "reading"
    /\ UNCHANGED <<calls, placed, queue, history>>

Pop_Silent ==
    /\ handler = "popping"
    /\ handler' = "reading"
    /\ queue' = IF Arrived(known, queue) THEN AfterArrival(queue) ELSE queue
    /\ UNCHANGED <<allVars, calls, placed, history>>

\* The next floor is sent as soon as the present one is done.
Pop ==
    /\ handler = "popping"
    /\ handler' = "reading"
    /\ IF Arrived(known, queue)
       THEN /\ queue' = AfterArrival(queue)
            /\ hasty' = (hasty \/ Needed(queue[1].floor))
            /\ IF queue' # <<>>
               THEN Len(inbox) < MaxInbox /\ Send(queue'[1].floor)
               ELSE UNCHANGED inbox
       ELSE UNCHANGED <<queue, inbox, hasty>>
    /\ UNCHANGED <<vars, link, peer, pending, captured, outbox, known, calls, placed,
                   riders, rested>>

-----------------------------------------------------------------------------
LosesCar_KeepsQueue ==
    /\ Restarts /\ Lost
    /\ calls' = <<>> /\ handler' = "reading"
    /\ riders' = {} /\ rested' = Standing
    /\ UNCHANGED <<placed, queue, hasty>>

\* The controller is stopped and started again: all it knew is gone, and those it had
\* answered wait in vain.  The car finds out later.
LosesCar ==
    /\ Restarts /\ Lost
    /\ calls' = <<>> /\ queue' = <<>> /\ handler' = "reading"
    /\ riders' = {} /\ rested' = Standing
    /\ UNCHANGED <<placed, hasty>>

CarLoops   == (LoopWakes \/ LoopTimesOut \/ LoopFollows) /\ Watched /\ UNCHANGED callVars
CarWaits   == TimerElapses /\ UNCHANGED <<callVars, history>>
CarPressed == OthersAct /\ Watched /\ UNCHANGED callVars
CarLinks   == Link /\ Watched /\ UNCHANGED callVars

DispatchNext ==
    \/ CarLoops \/ CarWaits \/ CarPressed \/ CarLinks
    \/ LosesCar
    \/ \E trip \in Trips : PlaceCall(trip)
    \/ Refuse \/ Assign
    \/ ReadReport \/ Pop

DispatchSafety == DispatchInit /\ [][DispatchNext]_dispatchVars

\* The threads of both programs run: the car's loop, its timer and its connection,
\* the controller's dispatcher and the handler of the car.  Nobody has to press a button.
DispatchFairness ==
    /\ SF_dispatchVars(CarLoops)
    /\ WF_dispatchVars(CarWaits)
    /\ SF_dispatchVars(CarLinks)
    /\ WF_dispatchVars(Refuse \/ Assign)
    /\ WF_dispatchVars(ReadReport \/ Pop)

DispatchSpec == DispatchSafety /\ DispatchFairness

-----------------------------------------------------------------------------
\* With this controller at the other end the car's connection is still the one
\* of CarLink.
IsCarLink == LinkInit /\ [][LinkNext]_allVars

\* Where the car will be sent once it has read everything on its way to it.
Instructed ==
    IF inbox # <<>> THEN inbox[Len(inbox)]
    ELSE IF pending # NoFloor THEN pending
    ELSE shm.destination_floor

\* The last instruction given to the car is always the head of its queue, however
\* calls, status reports and the hand-over of the pending floor interleave
\* (controller.c:287, controller.c:546, car.c:662).
HeadIsTarget == queue # <<>> => Instructed = queue[1].floor

\* A floor leaves the queue as done only if the car has been at it, as its destination,
\* since this controller came up: no torn, late or repeated report ticks off a floor it
\* has still to reach (controller.c:534, car.c:808-812).
DoneWhereTheCarWas == [][Pop /\ queue' # queue => queue[1].floor \in rested]_dispatchVars

Queued(floor) == \E i \in DOMAIN queue : queue[i].floor = floor

\* A car at rest where it is to go.  The instruction may have come while its wait
\* timed out, or while the doors were open, and is then forgotten: no door opens and
\* nothing is reported (car.c:189).
RestsAtHead == queue # <<>> /\ AtFloor = queue[1].floor /\ shm.status = "Closed"

\* Whoever was told that a car is arriving is picked up where he called and brought to
\* where he wants to go, however the calls interrupt each other (call.c:73), unless the
\* controller goes away with its queue, a late report ticked his floor off, or the car
\* stands for ever, at the head of its queue or with a full pipe.
CallCarried == (riders # {}) ~> (riders = {} \/ hasty \/ []RestsAtHead \/ []Stands)

\* controller.c:132: a call that got a car has its floors added to the queue, and
\* nothing that was in the queue is lost.
FloorsAreAdded ==
    [][Assign => \A floor \in CallFloors :
            Queued(floor) \/ floor \in {Head(calls)[1], Head(calls)[2]} => Queued(floor)']_dispatchVars
=============================================================================
