--------------------------- MODULE DispatchProofs ---------------------------
(***************************************************************************)
(* Proofs about Dispatch for every choice of its constants: any range of   *)
(* floors, any set of trips, any number of calls, any pipe and any number  *)
(* of messages under way.  The controller and the car agree on where the   *)
(* car is to go, and the controller is one that CarLink allows.            *)
(***************************************************************************)
EXTENDS Dispatch, CarLinkProofs, DataLemmas

-----------------------------------------------------------------------------
(* What the insertion into a car's queue returns, for every queue and      *)
(* every call: a queue of floors of the same set, never an empty one.      *)

\* The run at the head of a queue has an end.
LEMMA BlockRange ==
    ASSUME NEW S, NEW floors \in Seq(S), NEW direction
    PROVE  Block(floors, direction) \in 0 .. Len(floors)
<1> DEFINE T == {k \in 1 .. (Len(floors) + 1) :
                    k <= Len(floors) => floors[k].direction # direction}
<1>1. Len(floors) \in Nat
  BY LenProperties
<1>2. Len(floors) + 1 \in T /\ T \in SUBSET Nat
  BY <1>1
<1>3. PICK k \in T : \A y \in T : k <= y
  BY <1>2, LeastNat
<1>4. /\ k - 1 \in 0 .. Len(floors)
      /\ \A i \in 1 .. (k - 1) : floors[i].direction = direction
      /\ k - 1 < Len(floors) => floors[(k - 1) + 1].direction # direction
  BY <1>1, <1>3
<1> QED BY <1>4 DEF Block

\* The search along the run stops in it or right behind it.
LEMMA FirstReachingRange ==
    ASSUME NEW floors, NEW start \in Nat, NEW n \in Nat, start <= n + 1,
           NEW direction, NEW floor
    PROVE  FirstReaching(floors, start, n, direction, floor) \in start .. (n + 1)
<1> DEFINE T == {i \in start .. (n + 1) : i <= n => Reaches(floors[i], direction, floor)}
<1>1. n + 1 \in T /\ T \in SUBSET Nat
  OBVIOUS
<1>2. PICK i \in T : \A y \in T : i <= y
  BY <1>1, LeastNat
<1>3. /\ i <= n => Reaches(floors[i], direction, floor)
      /\ \A k \in start .. (i - 1) : ~Reaches(floors[k], direction, floor)
  BY <1>2
<1> QED BY <1>2, <1>3 DEF FirstReaching

-----------------------------------------------------------------------------
\* The nodes whose floors come from F.
NodeOf(F) == [direction : {"U", "D"}, floor : F]

LEMMA NewNodes ==
    ASSUME NEW F, NEW from \in F, NEW to \in F, NEW direction \in {"U", "D"}
    PROVE  /\ Node(direction, from) \in NodeOf(F)
           /\ <<Node(direction, from)>> \in Seq(NodeOf(F))
           /\ <<Node(direction, from), Node(direction, to)>> \in Seq(NodeOf(F))
BY DEF Node, NodeOf

\* A part of a queue is a queue.
LEMMA Part ==
    ASSUME NEW S, NEW floors \in Seq(S), NEW m \in Nat \ {0}, NEW n \in Int, n <= Len(floors)
    PROVE  /\ SubSeq(floors, m, n) \in Seq(S)
           /\ Len(SubSeq(floors, m, n)) = IF m <= n THEN n - m + 1 ELSE 0
<1>1. \A i \in m .. n : floors[i] \in S
  BY LenProperties, ElementOfSeq
<1>2. m \in Int
  OBVIOUS
<1> QED BY <1>1, <1>2, SubSeqProperties

LEMMA InsertOnTheWayType ==
    ASSUME NEW F, NEW floors \in Seq(NodeOf(F)), NEW from \in F, NEW to \in F,
           NEW direction \in {"U", "D"}
    PROVE  InsertOnTheWay(floors, direction, from, to) \in Seq(NodeOf(F)) \ {<<>>}
<1> DEFINE S == NodeOf(F)
           n == Block(floors, direction)
           i == FirstReaching(floors, 1, n, direction, from)
           j == FirstReaching(floors, i, n, direction, to)
           both == <<Node(direction, from), Node(direction, to)>>
           Unless(k, floor) == IF floors[k].floor = floor THEN <<>> ELSE <<Node(direction, floor)>>
<1>1. Len(floors) \in Nat /\ n \in 0 .. Len(floors)
  BY BlockRange, LenProperties
<1>2. i \in 1 .. (n + 1)
  <2> HIDE DEF n
  <2> QED BY <1>1, FirstReachingRange
<1>3. j \in i .. (n + 1)
  <2> HIDE DEF n, i
  <2> QED BY <1>1, <1>2, FirstReachingRange
<1>4. /\ Unless(i, from) \in Seq(S) /\ Unless(j, to) \in Seq(S)
      /\ both \in Seq(S) /\ Len(both) = 2
  BY NewNodes, EmptySeq
<1>5. /\ SubSeq(floors, 1, i - 1) \in Seq(S)
      /\ SubSeq(floors, n + 1, Len(floors)) \in Seq(S)
  <2> HIDE DEF n, i
  <2> QED BY <1>1, <1>2, Part
<1>6. CASE i <= n /\ j <= n
  <2> DEFINE front == SubSeq(floors, 1, i - 1) \o Unless(i, from) \o SubSeq(floors, i, j - 1)
                          \o Unless(j, to)
             rest  == SubSeq(floors, j, Len(floors))
  <2>1. SubSeq(floors, i, j - 1) \in Seq(S)
    <3> HIDE DEF n, i, j
    <3> QED BY <1>1, <1>2, <1>3, <1>6, Part
  <2>2. rest \in Seq(S) /\ Len(rest) > 0
    <3> HIDE DEF n, i, j
    <3> QED BY <1>1, <1>2, <1>3, <1>6, Part
  <2>3. front \in Seq(S)
    <3> HIDE DEF i, j, Unless, S
    <3> QED BY <1>4, <1>5, <2>1, ConcatProperties
  <2>4. front \o rest \in Seq(S) /\ Len(front \o rest) > 0
    <3> HIDE DEF front, rest, S
    <3> QED BY <2>2, <2>3, ConcatProperties, LenProperties
  <2>5. InsertOnTheWay(floors, direction, from, to) = front \o rest
    BY <1>6 DEF InsertOnTheWay
  <2> HIDE DEF front, rest
  <2> QED BY <2>4, <2>5, EmptySeq
<1>7. CASE i <= n /\ ~(j <= n) /\ floors[i].floor = from
  <2>1. InsertOnTheWay(floors, direction, from, to) = floors
    BY <1>7 DEF InsertOnTheWay
  <2>2. floors # <<>>
    BY <1>1, <1>2, <1>7, EmptySeq
  <2> QED BY <2>1, <2>2
<1>8. CASE ~(i <= n /\ j <= n) /\ ~(i <= n /\ floors[i].floor = from)
  <2> DEFINE front == SubSeq(floors, 1, i - 1)
             rest  == SubSeq(floors, n + 1, Len(floors))
  <2>1. front \in Seq(S) /\ rest \in Seq(S) /\ both \in Seq(S) /\ Len(both) = 2
    BY <1>4, <1>5
  <2>2. (front \o both) \o rest \in Seq(S) /\ Len((front \o both) \o rest) > 0
    <3> HIDE DEF front, both, rest, S
    <3>1. front \o both \in Seq(S) /\ Len(front \o both) = Len(front) + Len(both)
      BY <2>1, ConcatProperties
    <3>2. /\ (front \o both) \o rest \in Seq(S)
          /\ Len((front \o both) \o rest) = Len(front \o both) + Len(rest)
      BY <2>1, <3>1, ConcatProperties
    <3>3. Len(front) \in Nat /\ Len(rest) \in Nat
      BY <2>1, LenProperties
    <3> QED BY <2>1, <3>1, <3>2, <3>3
  <2>3. InsertOnTheWay(floors, direction, from, to) = (front \o both) \o rest
    BY <1>8 DEF InsertOnTheWay
  <2> HIDE DEF front, both, rest
  <2> QED BY <2>2, <2>3, EmptySeq
<1> QED BY <1>6, <1>7, <1>8

\* insert_floors_into_queue returns a queue with a head, made of the floors of the
\* call and of the old queue (controller.c:182-284).
THEOREM InsertType ==
    ASSUME NEW F, NEW car, NEW floors \in Seq(NodeOf(F)), NEW from \in F, NEW to \in F
    PROVE  insert_floors_into_queue(car, floors, from, to) \in Seq(NodeOf(F)) \ {<<>>}
<1> DEFINE d == CallDirection(from, to)
           both == <<Node(d, from), Node(d, to)>>
<1>1. d \in {"U", "D"}
  BY DEF CallDirection
<1>2. CASE CarDirection(car, floors, d) = d
  BY <1>1, <1>2, InsertOnTheWayType DEF insert_floors_into_queue
<1>3. CASE CarDirection(car, floors, d) # d
  <2>1. both \in Seq(NodeOf(F)) /\ Len(both) = 2
    <3> HIDE DEF d
    <3> QED BY <1>1, NewNodes
  <2>2. floors \o both \in Seq(NodeOf(F)) /\ Len(floors \o both) > 0
    <3> HIDE DEF both
    <3> QED BY <2>1, ConcatProperties, LenProperties
  <2> QED BY <1>3, <2>2, EmptySeq DEF insert_floors_into_queue
<1> QED BY <1>2, <1>3

\* What is left of a queue after an arrival is a queue.
LEMMA AfterArrivalType ==
    ASSUME NEW F, NEW floors \in Seq(NodeOf(F)), floors # <<>>
    PROVE  AfterArrival(floors) \in Seq(NodeOf(F))
<1>1. Len(floors) \in Nat
  BY LenProperties
<1> QED BY <1>1, Part, HeadTailProperties DEF AfterArrival

-----------------------------------------------------------------------------
(* The invariant.                                                          *)

\* Without technician, alarm and safety process the car stays in normal mode, so it
\* neither gives up its destination nor hangs up on a controller that is there.
CarriesPassengers ==
    /\ shm.emergency_mode = 0 /\ shm.individual_service_mode = 0
    /\ safety = "off"
    /\ peer = "up" => link # "closing"

\* The controller has an entry, or a report to make one of, only while the thread is
\* connected and greeted.
EntryIsOnline ==
    (Listed \/ outbox # <<>>) => link \in {"status", "top", "lock", "poll"}

DispatchInv ==
    /\ LinkInv
    /\ DispatchTypeOK
    /\ CarriesPassengers
    /\ EntryIsOnline
    /\ HeadIsTarget

\* What is left of it when a step leaves the two ends of the channel to the car alone.
LEMMA TargetKept ==
    ASSUME HeadIsTarget, queue' = queue, Instructed' = Instructed \/ queue = <<>>
    PROVE  HeadIsTarget'
BY DEF HeadIsTarget

\* A floor that was just sent is the last instruction.
LEMMA SentIsInstructed ==
    ASSUME LinkTypeOK, NEW floor \in CallFloors, Send(floor)
    PROVE  Instructed' = floor
<1>1. inbox \in Seq(CallFloors)
  BY DEF LinkTypeOK
<1>2. inbox' # <<>> /\ inbox'[Len(inbox')] = floor
  BY <1>1 DEF Send
<1> QED BY <1>2 DEF Instructed

LEMMA QueueHead ==
    ASSUME NEW q \in Seq(CallNode), q # <<>>
    PROVE  q[1] \in CallNode /\ q[1].floor \in CallFloors
<1>1. q[1] \in CallNode
  BY LenProperties, EmptySeq, ElementOfSeq
<1> QED BY <1>1 DEF CallNode

Rider == [trip : Trips, aboard : BOOLEAN]

\* Whoever gets in or out, those who are left are riders.
LEMMA CarriedType ==
    ASSUME NEW people \in SUBSET Rider, NEW car
    PROVE  Carried(people, car) \subseteq Rider
<1> DEFINE here  == car.current_floor
           stays == {p \in people : ~(p.aboard /\ p.trip[2] = here)}
<1>1. CASE car.status # "Opening"
  BY <1>1 DEF Carried
<1>2. CASE car.status = "Opening"
  <2>1. Carried(people, car) = {[p EXCEPT !.aboard = @ \/ p.trip[1] = here] : p \in stays}
    BY <1>2 DEF Carried
  <2>2. ASSUME NEW p \in stays
        PROVE  [p EXCEPT !.aboard = @ \/ p.trip[1] = here] \in Rider
    <3>1. p \in Rider
      OBVIOUS
    <3>2. (p.aboard \/ p.trip[1] = here) \in BOOLEAN
      OBVIOUS
    <3> QED BY <3>1, <3>2 DEF Rider
  <2> QED BY <2>1, <2>2
<1> QED BY <1>1, <1>2

HistoryTyped == riders \subseteq Rider /\ rested \subseteq FloorText /\ hasty \in BOOLEAN

\* What the car does is written down as it happens.
LEMMA WatchedType ==
    ASSUME DispatchTypeOK, TypeOK', Watched
    PROVE  HistoryTyped'
<1>1. Carried(riders, shm') \subseteq Rider
  BY CarriedType DEF DispatchTypeOK, Rider
<1>2. Standing' \subseteq FloorText
  BY DEF Standing, AtFloor, TypeOK, CarSharedMem
<1> QED BY <1>1, <1>2 DEF Watched, DispatchTypeOK, HistoryTyped

\* There is a queue only for a car that reported, to a controller that is there.
LEMMA QueueIsOnline ==
    ASSUME DispatchInv
    PROVE  peer # "up" => queue = <<>> /\ ~Listed
BY DEF DispatchInv, LinkInv, LinkTypeOK, DispatchTypeOK, Listed

-----------------------------------------------------------------------------
(* The car's own steps.                                                    *)

\* A normal car never changes its destination.
LEMMA NormalKeepsTarget ==
    ASSUME TypeOK, CarriesPassengers, LoopWake \/ LoopTimeout \/ LoopGoesOn
    PROVE  /\ shm'.destination_floor = shm.destination_floor
           /\ shm'.emergency_mode = 0 /\ shm'.individual_service_mode = 0
           /\ safety' = "off"
<1>1. Normal /\ ~Emergency /\ ~Service
  BY DEF CarriesPassengers, Normal, Emergency, Service
<1>2. CASE NormalWake
  BY <1>2 DEF NormalWake, Report, Rearm, Ignore, Iterate, Signalled, TypeOK, CarSharedMem,
              CarriesPassengers
<1>3. CASE NormalMove
  BY <1>3 DEF NormalMove, Iterate, TypeOK, CarSharedMem, CarriesPassengers
<1>4. CASE NormalRest
  BY <1>4 DEF NormalRest, Report, Ignore, Iterate, Signalled, TypeOK, CarSharedMem,
              CarriesPassengers
<1>5. CASE NormalDoors
  BY <1>5 DEF NormalDoors, Report, Rearm, Iterate, Signalled, TypeOK, CarSharedMem,
              CarriesPassengers
<1>6. CASE LoopGoesOn
  BY <1>6 DEF LoopGoesOn, Report, Iterate, Signalled, TypeOK, CarSharedMem, CarriesPassengers
<1> QED BY <1>1, <1>2, <1>3, <1>4, <1>5, <1>6
        DEF LoopWake, LoopTimeout, NormalTimeout, EmergencyWake, EmergencyTimeout,
            ServiceWake, ServiceTimeout

\* All that is left of the others are the two door buttons.
LEMMA ButtonsKeepTarget ==
    ASSUME TypeOK, CarriesPassengers, OthersAct
    PROVE  /\ shm'.destination_floor = shm.destination_floor
           /\ shm'.emergency_mode = 0 /\ shm'.individual_service_mode = 0
           /\ safety' = "off"
<1>1. Technician
  BY DispatchAssumption DEF OthersAct, SafetyWait, SafetyCheck, CarriesPassengers
<1>2. \/ Write([shm EXCEPT !.open_button = 1])
      \/ Write([shm EXCEPT !.close_button = 1])
  BY <1>1, DispatchAssumption DEF Technician, TechnicianSet, TechnicianMove
<1> QED BY <1>2 DEF Write, Broadcast, Signalled, TypeOK, CarSharedMem, CarriesPassengers

\* A step of the car proper leaves the connection and the controller alone.
LEMMA CarStep ==
    ASSUME DispatchInv, TypeOK', CarLoops \/ CarWaits \/ CarPressed
    PROVE  CarriesPassengers' /\ EntryIsOnline' /\ HeadIsTarget' /\ DispatchTypeOK'
<1>1. /\ shm'.destination_floor = shm.destination_floor
      /\ shm'.emergency_mode = 0 /\ shm'.individual_service_mode = 0
      /\ safety' = "off"
  <2>1. CASE CarLoops
    BY <2>1, NormalKeepsTarget
       DEF CarLoops, LoopWakes, LoopTimesOut, LoopFollows, DispatchInv, LinkInv, Inv
  <2>2. CASE CarWaits
    BY <2>2 DEF CarWaits, TimerElapses, Elapse, DispatchInv, CarriesPassengers
  <2>3. CASE CarPressed
    BY <2>3, ButtonsKeepTarget DEF CarPressed, DispatchInv, LinkInv, Inv
  <2> QED BY <2>1, <2>2, <2>3
<1>2. UNCHANGED <<linkVars, callVars>>
  BY DEF CarLoops, CarWaits, CarPressed, LoopWakes, LoopTimesOut, LoopFollows, TimerElapses,
         OthersAct
<1>3. Instructed' = Instructed
  BY <1>1, <1>2 DEF Instructed, linkVars
<1>4. HeadIsTarget'
  BY <1>2, <1>3, TargetKept DEF DispatchInv, callVars
<1>5. HistoryTyped'
  <2>1. CASE CarLoops \/ CarPressed
    BY <2>1, WatchedType DEF CarLoops, CarPressed, DispatchInv
  <2>2. CASE CarWaits
    BY <2>2 DEF CarWaits, history, DispatchInv, DispatchTypeOK, HistoryTyped, Rider
  <2> QED BY <2>1, <2>2
<1>6. DispatchTypeOK'
  BY <1>2, <1>5 DEF DispatchInv, DispatchTypeOK, HistoryTyped, Rider, linkVars, callVars
<1> QED BY <1>1, <1>2, <1>4, <1>6
        DEF DispatchInv, CarriesPassengers, EntryIsOnline, Listed, linkVars

-----------------------------------------------------------------------------
(* The connection thread.                                                  *)

\* Handing over and reading move the last instruction along, never lose it.
LEMMA LockedKeeps ==
    ASSUME DispatchInv, Locked
    PROVE  /\ Instructed' = Instructed /\ link' = "poll"
           /\ shm'.emergency_mode = 0 /\ shm'.individual_service_mode = 0 /\ safety' = "off"
           /\ UNCHANGED <<peer, outbox, known>>
<1> /\ TypeOK /\ LinkTypeOK /\ CarriesPassengers
  BY DEF DispatchInv, LinkInv, Inv
<1>1. ~(Emergency \/ Service)
  BY DEF CarriesPassengers, Emergency, Service
<1>2. link' = "poll" /\ UNCHANGED <<peer, inbox, outbox, known>> /\ HandOver
  BY <1>1 DEF Locked
<1>3. CASE pending # NoFloor /\ shm.status # "Between"
  <2>1. ApplyDestination(pending) /\ pending' = NoFloor
    BY <1>2, <1>3 DEF HandOver
  <2>2. /\ shm'.destination_floor = pending
        /\ shm'.emergency_mode = 0 /\ shm'.individual_service_mode = 0 /\ safety' = "off"
    BY <2>1 DEF ApplyDestination, Write, Broadcast, Signalled, TypeOK, CarSharedMem,
                CarriesPassengers
  <2> QED BY <1>2, <1>3, <2>1, <2>2 DEF Instructed
<1>4. CASE ~(pending # NoFloor /\ shm.status # "Between")
  <2>1. UNCHANGED <<vars, pending>>
    BY <1>2, <1>4 DEF HandOver
  <2> QED BY <1>2, <2>1 DEF Instructed, vars, CarriesPassengers
<1> QED BY <1>3, <1>4

LEMMA PollReadyKeeps ==
    ASSUME DispatchInv, PollReady
    PROVE  /\ Instructed' = Instructed /\ link' \in {"status", "top"}
           /\ UNCHANGED <<shm, safety, peer, outbox, known>>
<1>1. inbox \in Seq(CallFloors) /\ NoFloor \notin CallFloors
  BY CarLinkAssumption, ElevatorCarAssumption DEF DispatchInv, LinkInv, LinkTypeOK
<1>2. /\ link' \in {"status", "top"} /\ UNCHANGED <<shm, safety, peer, outbox, known>>
  BY DEF PollReady, ReadPipe, CaptureStatus, vars
<1>3. CASE inbox = <<>>
  BY <1>2, <1>3 DEF PollReady, Instructed
<1>4. CASE inbox # <<>>
  <2>1. pending' = Head(inbox) /\ inbox' = Tail(inbox)
    BY <1>4 DEF PollReady
  <2>2. pending' # NoFloor
    BY <1>1, <1>4, <2>1, HeadTailProperties
  <2>3. CASE Len(inbox) = 1
    <3>1. inbox' = <<>> /\ pending' = inbox[Len(inbox)]
      BY <1>1, <1>4, <2>1, <2>3, LastOfTail
    <3>2. Instructed' = pending' /\ Instructed = inbox[Len(inbox)]
      BY <1>4, <2>2, <3>1 DEF Instructed
    <3> QED BY <1>2, <3>1, <3>2
  <2>4. CASE Len(inbox) # 1
    <3>1. inbox' # <<>> /\ inbox'[Len(inbox')] = inbox[Len(inbox)]
      BY <1>1, <1>4, <2>1, <2>4, LastOfTail
    <3> QED BY <1>2, <1>4, <3>1 DEF Instructed
  <2> QED BY <2>3, <2>4
<1> QED BY <1>3, <1>4

LEMMA ThreadStep ==
    ASSUME DispatchInv, TypeOK', CarLinks
    PROVE  CarriesPassengers' /\ EntryIsOnline' /\ HeadIsTarget' /\ DispatchTypeOK'
<1> DEFINE Rest == /\ Instructed' = Instructed \/ queue = <<>>
                   /\ known' = known
                   /\ CarriesPassengers' /\ EntryIsOnline'
<1>1. Rest
  <2>1. CASE Connect \/ Top \/ PollTimeout
    BY <2>1 DEF Connect, Top, PollTimeout, CaptureStatus, vars, Instructed, DispatchInv,
                LinkInv, LinkTypeOK, CarriesPassengers, EntryIsOnline, Listed
  <2>2. CASE SendStatus \/ Greet
    BY <2>2, QueueIsOnline
       DEF SendStatus, Greet, Sends, vars, Instructed, DispatchInv, LinkInv, LinkTypeOK,
           CarriesPassengers, EntryIsOnline, Listed
  <2>3. CASE Locked
    BY <2>3, LockedKeeps DEF CarriesPassengers, EntryIsOnline
  <2>4. CASE PollReady
    BY <2>4, PollReadyKeeps DEF DispatchInv, CarriesPassengers, EntryIsOnline
  <2>5. CASE TopEnds \/ PollEnds \/ Join
    <3>1. UNCHANGED <<shm, safety, outbox, known>> /\ peer' # "up"
      BY <2>5 DEF TopEnds, PollEnds, Join, HangUpSeen, AtEnd, vars
    <3>2. peer # "up"
      BY <2>5 DEF TopEnds, PollEnds, Join, HangUpSeen, AtEnd
    <3>3. outbox = <<>> /\ ~Listed /\ queue = <<>>
      BY <3>2, QueueIsOnline DEF DispatchInv, LinkInv, LinkTypeOK
    <3> QED BY <3>1, <3>3 DEF DispatchInv, CarriesPassengers, EntryIsOnline, Listed
  <2> QED BY <2>1, <2>2, <2>3, <2>4, <2>5 DEF CarLinks, Link
<1>2. UNCHANGED callVars /\ HistoryTyped'
  BY WatchedType DEF CarLinks, DispatchInv
<1> HIDE DEF Rest
<1>3. HeadIsTarget'
  BY <1>1, <1>2, TargetKept DEF Rest, DispatchInv, callVars
<1>4. DispatchTypeOK'
  BY <1>1, <1>2 DEF Rest, DispatchInv, DispatchTypeOK, HistoryTyped, Rider, callVars
<1> QED BY <1>1, <1>3, <1>4 DEF Rest

-----------------------------------------------------------------------------
(* The controller.                                                         *)

LEMMA AssignStep ==
    ASSUME DispatchInv, Assign
    PROVE  CarriesPassengers' /\ EntryIsOnline' /\ HeadIsTarget' /\ DispatchTypeOK'
<1> DEFINE trip == Head(calls)
<1>1. trip \in Trips /\ Tail(calls) \in Seq(Trips)
  BY HeadTailProperties DEF Assign, DispatchInv, DispatchTypeOK
<1>2. trip[1] \in CallFloors /\ trip[2] \in CallFloors
  BY <1>1, DispatchAssumption
<1>3. queue \in Seq(NodeOf(CallFloors)) /\ CallNode = NodeOf(CallFloors)
  BY DEF DispatchInv, DispatchTypeOK, CallNode, NodeOf
<1>4. Planned \in Seq(CallNode) /\ Planned # <<>>
  BY <1>2, <1>3, InsertType DEF Planned
<1>5. Planned[1].floor \in CallFloors
  BY <1>4, QueueHead
<1>6. HeadIsTarget'
  <2>1. CASE TellsCar(known, queue, Planned)
    BY <1>5, <2>1, SentIsInstructed DEF Assign, HeadIsTarget, DispatchInv, LinkInv
  <2>2. CASE ~TellsCar(known, queue, Planned)
    <3>1. queue # <<>> /\ queue[1].floor = Planned[1].floor
      BY <2>2 DEF TellsCar
    <3>2. Instructed' = Instructed /\ queue' = Planned
      BY <2>2 DEF Assign, Instructed, vars
    <3> QED BY <3>1, <3>2 DEF DispatchInv, HeadIsTarget
  <2> QED BY <2>1, <2>2
<1>7. DispatchTypeOK'
  <2>1. riders \cup {[trip |-> trip, aboard |-> FALSE]} \in SUBSET Rider
    <3>1. [trip |-> trip, aboard |-> FALSE] \in Rider
      BY <1>1 DEF Rider
    <3>2. riders \subseteq Rider
      BY DEF Rider, DispatchInv, DispatchTypeOK
    <3> QED BY <3>1, <3>2
  <2>2. riders' \subseteq Rider /\ UNCHANGED <<rested, hasty>>
    BY <2>1, CarriedType DEF Assign
  <2>3. Listed /\ UNCHANGED <<known, placed, handler>>
    BY DEF Assign
  <2> QED BY <1>1, <1>4, <2>2, <2>3 DEF Assign, DispatchInv, DispatchTypeOK, Rider, Listed
<1>8. CarriesPassengers' /\ EntryIsOnline'
  BY DEF Assign, vars, DispatchInv, CarriesPassengers, EntryIsOnline, Listed
<1> QED BY <1>6, <1>7, <1>8

LEMMA PopStep ==
    ASSUME DispatchInv, Pop
    PROVE  CarriesPassengers' /\ EntryIsOnline' /\ HeadIsTarget' /\ DispatchTypeOK'
<1>1. CarriesPassengers' /\ EntryIsOnline'
  BY DEF Pop, vars, DispatchInv, CarriesPassengers, EntryIsOnline, Listed
<1>2. CASE Arrived(known, queue)
  <2>1. queue' = AfterArrival(queue) /\ queue # <<>>
    BY <1>2 DEF Pop, Arrived
  <2>2. queue' \in Seq(CallNode)
    <3>1. queue \in Seq(NodeOf(CallFloors)) /\ CallNode = NodeOf(CallFloors)
      BY DEF DispatchInv, DispatchTypeOK, CallNode, NodeOf
    <3> QED BY <2>1, <3>1, AfterArrivalType
  <2>3. queue' # <<>> => Send(queue'[1].floor) /\ queue'[1].floor \in CallFloors
    BY <1>2, <2>2, QueueHead DEF Pop
  <2>4. HeadIsTarget'
    BY <2>3, SentIsInstructed DEF HeadIsTarget, DispatchInv, LinkInv
  <2>5. DispatchTypeOK'
    <3>1. hasty' \in BOOLEAN
      BY <1>2 DEF Pop
    <3> QED BY <2>1, <2>2, <3>1 DEF Pop, DispatchInv, DispatchTypeOK
  <2> QED BY <1>1, <2>4, <2>5
<1>3. CASE ~Arrived(known, queue)
  <2>1. /\ UNCHANGED <<queue, inbox, pending, shm, known, calls, placed, history>>
        /\ handler' = "reading"
    BY <1>3 DEF Pop, vars, history
  <2>2. Instructed' = Instructed
    BY <2>1 DEF Instructed
  <2> QED BY <1>1, <2>1, <2>2, TargetKept DEF DispatchInv, DispatchTypeOK, history
<1> QED BY <1>2, <1>3

LEMMA ReportStep ==
    ASSUME DispatchInv, ReadReport
    PROVE  CarriesPassengers' /\ EntryIsOnline' /\ HeadIsTarget' /\ DispatchTypeOK'
<1>1. /\ outbox # <<>> /\ known' = Head(outbox)
      /\ UNCHANGED <<shm, safety, link, peer, pending, inbox, calls, placed, queue, history>>
      /\ handler' \in {"reading", "popping"}
  BY DEF ReadReport, ControllerReads, vars
<1>2. known' # NoStatus
  <2>1. Head(outbox) \in StatusLine
    BY <1>1, Channels DEF DispatchInv, LinkInv
  <2> QED BY <1>1, <2>1, CarLinkAssumption
<1>3. Instructed' = Instructed
  BY <1>1 DEF Instructed
<1>4. HeadIsTarget'
  BY <1>1, <1>3, TargetKept DEF DispatchInv
<1>5. EntryIsOnline' /\ CarriesPassengers'
  BY <1>1 DEF DispatchInv, EntryIsOnline, CarriesPassengers
<1> QED BY <1>1, <1>2, <1>4, <1>5 DEF DispatchInv, DispatchTypeOK, history

LEMMA CallStep ==
    ASSUME DispatchInv, Refuse \/ \E trip \in Trips : PlaceCall(trip)
    PROVE  CarriesPassengers' /\ EntryIsOnline' /\ HeadIsTarget' /\ DispatchTypeOK'
<1>1. calls' \in Seq(Trips) /\ placed' \in 0 .. MaxCalls
  <2>1. CASE Refuse
    BY <2>1, HeadTailProperties DEF Refuse, DispatchInv, DispatchTypeOK
  <2>2. CASE \E trip \in Trips : PlaceCall(trip)
    BY <2>2, DispatchAssumption DEF PlaceCall, DispatchInv, DispatchTypeOK
  <2> QED BY <2>1, <2>2
<1>2. UNCHANGED <<allVars, queue, handler, history>>
  BY DEF Refuse, PlaceCall
<1>3. Instructed' = Instructed
  BY <1>2 DEF Instructed, allVars
<1>4. HeadIsTarget'
  BY <1>2, <1>3, TargetKept DEF DispatchInv
<1> QED BY <1>1, <1>2, <1>4
        DEF allVars, history, DispatchInv, CarriesPassengers, EntryIsOnline, Listed,
            DispatchTypeOK

LEMMA LossStep ==
    ASSUME DispatchInv, TypeOK', LosesCar
    PROVE  CarriesPassengers' /\ EntryIsOnline' /\ HeadIsTarget' /\ DispatchTypeOK'
<1>1. /\ UNCHANGED <<shm, safety, placed, hasty>> /\ peer' # "up"
      /\ outbox' = <<>> /\ known' = NoStatus
      /\ calls' = <<>> /\ queue' = <<>> /\ handler' = "reading"
      /\ riders' = {} /\ rested' = Standing
  BY DEF LosesCar, Lost, vars
<1>2. Standing \subseteq FloorText
  BY DEF Standing, AtFloor, DispatchInv, LinkInv, Inv, TypeOK, CarSharedMem
<1>3. CarriesPassengers' /\ EntryIsOnline' /\ HeadIsTarget'
  BY <1>1 DEF DispatchInv, CarriesPassengers, EntryIsOnline, Listed, HeadIsTarget
<1>4. calls' \in Seq(Trips) /\ queue' \in Seq(CallNode)
  BY <1>1, EmptySeq
<1> QED BY <1>1, <1>2, <1>3, <1>4 DEF DispatchInv, DispatchTypeOK

-----------------------------------------------------------------------------
(* Every step of the composition is a step CarLink allows.                 *)

LEMMA DispatchStepIsLinkStep ==
    ASSUME DispatchInv, [DispatchNext]_dispatchVars
    PROVE  [LinkNext]_allVars
<1>1. CASE CarLoops \/ CarWaits \/ CarPressed \/ CarLinks \/ LosesCar \/ ReadReport
  BY <1>1 DEF CarLoops, CarWaits, CarPressed, CarLinks, LosesCar, ReadReport, Controller, LinkNext
<1>2. CASE Refuse \/ \E trip \in Trips : PlaceCall(trip)
  BY <1>2 DEF Refuse, PlaceCall
<1>3. CASE Assign
  <2>1. CASE TellsCar(known, queue, Planned)
    <3>1. Planned[1].floor \in CallFloors
      <4>1. Head(calls) \in Trips
        BY <1>3, HeadTailProperties DEF Assign, DispatchInv, DispatchTypeOK
      <4>2. queue \in Seq(NodeOf(CallFloors)) /\ CallNode = NodeOf(CallFloors)
        BY DEF DispatchInv, DispatchTypeOK, CallNode, NodeOf
      <4> QED BY <4>1, <4>2, InsertType, QueueHead, DispatchAssumption DEF Planned
    <3>2. ControllerSends(Planned[1].floor)
      BY <1>3, <2>1, QueueIsOnline
         DEF Assign, Send, ControllerSends, DispatchInv, EntryIsOnline
    <3> QED BY <3>1, <3>2 DEF Controller, LinkNext
  <2>2. CASE ~TellsCar(known, queue, Planned)
    BY <1>3, <2>2 DEF Assign, vars, allVars
  <2> QED BY <2>1, <2>2
<1>4. CASE Pop
  <2>1. CASE Arrived(known, queue) /\ queue' # <<>>
    <3>1. queue'[1].floor \in CallFloors
      <4>1. queue \in Seq(NodeOf(CallFloors)) /\ CallNode = NodeOf(CallFloors)
        BY DEF DispatchInv, DispatchTypeOK, CallNode, NodeOf
      <4>2. queue' \in Seq(CallNode)
        BY <1>4, <2>1, <4>1, AfterArrivalType DEF Pop, Arrived
      <4> QED BY <2>1, <4>2, QueueHead
    <3>2. queue # <<>>
      BY <2>1 DEF Arrived
    <3>3. Listed
      BY <3>2 DEF DispatchInv, DispatchTypeOK, Listed
    <3>4. ControllerSends(queue'[1].floor)
      BY <1>4, <2>1, <3>3, QueueIsOnline
         DEF Pop, Send, ControllerSends, DispatchInv, EntryIsOnline
    <3> QED BY <3>1, <3>4 DEF Controller, LinkNext
  <2>2. CASE ~(Arrived(known, queue) /\ queue' # <<>>)
    BY <1>4, <2>2 DEF Pop, vars, allVars
  <2> QED BY <2>1, <2>2
<1>5. CASE UNCHANGED dispatchVars
  BY <1>5 DEF dispatchVars
<1> QED BY <1>1, <1>2, <1>3, <1>4, <1>5 DEF DispatchNext

-----------------------------------------------------------------------------
LEMMA DispatchInitInv == DispatchInit => DispatchInv
<1> SUFFICES ASSUME DispatchInit PROVE DispatchInv
  OBVIOUS
<1>1. LinkInv
  BY LinkInitType DEF DispatchInit, LinkInv
<1>2. CarriesPassengers
  BY DispatchAssumption DEF DispatchInit, LinkInit, Init, CarriesPassengers
<1>3. EntryIsOnline /\ HeadIsTarget
  BY DEF DispatchInit, LinkInit, EntryIsOnline, Listed, HeadIsTarget
<1>4. calls \in Seq(Trips) /\ queue \in Seq(CallNode)
  BY EmptySeq DEF DispatchInit
<1>5. DispatchTypeOK
  <2>1. placed \in 0 .. MaxCalls
    BY DispatchAssumption DEF DispatchInit
  <2>2. rested \subseteq FloorText
    BY ElevatorCarAssumption DEF DispatchInit
  <2>3. /\ queue = <<>> /\ handler = "reading" /\ hasty \in BOOLEAN
        /\ riders \subseteq [trip : Trips, aboard : BOOLEAN]
    BY DEF DispatchInit
  <2> QED BY <1>4, <2>1, <2>2, <2>3 DEF DispatchTypeOK
<1> QED BY <1>1, <1>2, <1>3, <1>5 DEF DispatchInv

LEMMA DispatchNextInv == DispatchInv /\ [DispatchNext]_dispatchVars => DispatchInv'
<1> SUFFICES ASSUME DispatchInv, [DispatchNext]_dispatchVars PROVE DispatchInv'
  OBVIOUS
<1>1. LinkInv'
  BY DispatchStepIsLinkStep, LinkNextInv DEF DispatchInv
<1>2. CarriesPassengers' /\ EntryIsOnline' /\ HeadIsTarget' /\ DispatchTypeOK'
  <2>1. CASE UNCHANGED dispatchVars
    BY <2>1 DEF dispatchVars, allVars, callVars, history, DispatchInv, CarriesPassengers, EntryIsOnline,
                Listed, HeadIsTarget, Instructed, DispatchTypeOK
  <2>2. TypeOK'
    BY <1>1 DEF LinkInv, Inv
  <2> QED BY <2>1, <2>2, CarStep, ThreadStep, LossStep, CallStep, AssignStep, ReportStep, PopStep
          DEF DispatchNext
<1> QED BY <1>1, <1>2 DEF DispatchInv

\* The invariant of controller and car together.
THEOREM DispatchInvariance == DispatchSafety => []DispatchInv
BY DispatchInitInv, DispatchNextInv, PTL DEF DispatchSafety

\* The queue holds floors of calls, and there is a queue only while there is an entry
\* (controller.c:467-475 and 556-583).
THEOREM DispatchTypeCorrect == DispatchSafety => []DispatchTypeOK
BY DispatchInvariance, PTL DEF DispatchInv

\* Whenever a car has a queue, the last floor it was told is the head of the queue,
\* for any number of calls, floors and messages under way (controller.c:286-293, 546-550).
THEOREM AgreeOnTarget == DispatchSafety => []HeadIsTarget
BY DispatchInvariance, PTL DEF DispatchInv

\* The controller sends only while the car reads, and only floors of calls, so what
\* holds of the connected car in general holds with this controller.
THEOREM DispatchImplementsLink == DispatchSafety => IsCarLink
<1>1. DispatchInit => LinkInit
  BY DEF DispatchInit
<1>2. DispatchInv /\ [DispatchNext]_dispatchVars => [LinkNext]_allVars
  BY DispatchStepIsLinkStep
<1> QED BY <1>1, <1>2, DispatchInvariance, PTL DEF DispatchSafety, IsCarLink

-----------------------------------------------------------------------------
(* Where the car has been when a floor is done.                            *)

\* A status line that shows the car at its destination is of a floor it rested at.
OfAVisit(line) == line.current_floor = line.destination_floor => line.current_floor \in rested

\* So is every line under way, and the last one read.
ReportsAreVisits ==
    /\ \A i \in 1 .. Len(outbox) : OfAVisit(outbox[i])
    /\ Listed => OfAVisit(known)
    /\ Standing \subseteq rested

\* A step of the car that the controller watches.
LEMMA WatchedVisits ==
    ASSUME ReportsAreVisits, Watched, UNCHANGED <<outbox, known>>
    PROVE  ReportsAreVisits'
BY DEF ReportsAreVisits, OfAVisit, Watched, Listed

\* What the connection thread adds to the reports shows the floors of now.
LEMMA SentVisits ==
    ASSUME DispatchInv, ReportsAreVisits, CarLinks
    PROVE  ReportsAreVisits'
<1>1. Watched
  BY DEF CarLinks
<1>2. CASE SendStatus /\ peer = "up"
  <2> DEFINE line == [status |-> captured, current_floor |-> shm.current_floor,
                      destination_floor |-> shm.destination_floor]
             n    == Len(outbox)
             more == Append(outbox, line)
  <2>1. line \in StatusLine
    BY <1>2, StatusKinds DEF SendStatus, StatusLine, DispatchInv, LinkInv, Inv, LinkTypeOK
  <2>2. outbox' = more /\ known' = known
    BY <1>2, <2>1, AppendIsConcat DEF SendStatus, Sends, DispatchInv, LinkInv, LinkTypeOK
  <2>3. line.current_floor = line.destination_floor => line.current_floor \in rested'
    BY <1>2, <1>1 DEF SendStatus, vars, OfAVisit, ReportsAreVisits, Standing, AtFloor, Watched
  <2> HIDE DEF line
  <2>4. /\ n \in Nat /\ Len(more) = n + 1 /\ more[n + 1] = line
        /\ \A i \in 1 .. n : more[i] = outbox[i]
    BY <2>1, AppendProperties, LenProperties DEF DispatchInv, LinkInv, LinkTypeOK
  <2> HIDE DEF more
  <2>5. ASSUME NEW i \in 1 .. n + 1 PROVE OfAVisit(outbox[i])'
    <3>1. CASE i \in 1 .. n
      <4>1. OfAVisit(outbox[i]) /\ outbox'[i] = outbox[i] /\ rested \subseteq rested'
        BY <1>1, <2>2, <2>4, <3>1 DEF ReportsAreVisits, Watched
      <4> QED BY <4>1 DEF OfAVisit
    <3>2. CASE i = n + 1
      <4>1. outbox'[i] = line
        BY <2>2, <2>4, <3>2
      <4> QED BY <2>3, <4>1 DEF OfAVisit
    <3> QED BY <2>4, <3>1, <3>2
  <2> QED BY <1>1, <2>2, <2>4, <2>5 DEF ReportsAreVisits, OfAVisit, Watched, Listed
<1>3. CASE ~(SendStatus /\ peer = "up")
  <2>1. UNCHANGED <<outbox, known>>
    <3>1. CASE SendStatus
      BY <1>3, <3>1 DEF SendStatus, Sends
    <3>2. CASE Locked
      BY <3>2, LockedKeeps
    <3>3. CASE Greet
      BY <3>3, Channels DEF Greet, Sends, DispatchInv, LinkInv
    <3> QED BY <3>1, <3>2, <3>3
            DEF CarLinks, Link, Connect, Top, TopEnds, PollTimeout, PollReady, PollEnds, Join
  <2> QED BY <1>1, <2>1, WatchedVisits
<1> QED BY <1>2, <1>3

LEMMA ReadVisits ==
    ASSUME DispatchInv, ReportsAreVisits, ReadReport
    PROVE  ReportsAreVisits'
<1> DEFINE n == Len(outbox)
           t == Tail(outbox)
<1>1. /\ outbox \in Seq(StatusLine) /\ outbox # <<>> /\ outbox' = t /\ known' = Head(outbox)
      /\ UNCHANGED <<shm, rested>>
  BY DEF DispatchInv, LinkInv, LinkTypeOK, ReadReport, ControllerReads, vars, history
<1>2. /\ n \in Nat \ {0} /\ Len(t) = n - 1 /\ Head(outbox) = outbox[1]
      /\ \A i \in 1 .. Len(t) : t[i] = outbox[i + 1]
  BY <1>1, EmptySeq, LenProperties, HeadTailProperties
<1> HIDE DEF t
<1>3. ASSUME NEW i \in 1 .. Len(t) PROVE OfAVisit(t[i])
  <2>1. i + 1 \in 1 .. n
    BY <1>2
  <2> QED BY <1>2, <2>1 DEF ReportsAreVisits
<1>4. 1 \in 1 .. n
  BY <1>2
<1>5. OfAVisit(Head(outbox))
  BY <1>2, <1>4 DEF ReportsAreVisits
<1> QED BY <1>1, <1>3, <1>5 DEF ReportsAreVisits, OfAVisit, Standing, AtFloor

LEMMA VisitStep ==
    ASSUME DispatchInv, ReportsAreVisits, [DispatchNext]_dispatchVars
    PROVE  ReportsAreVisits'
<1>1. CASE CarLoops \/ CarPressed
  <2>1. Watched /\ UNCHANGED <<outbox, known>>
    BY <1>1 DEF CarLoops, CarPressed, LoopWakes, LoopTimesOut, LoopFollows, OthersAct, linkVars
  <2> QED BY <2>1, WatchedVisits
<1>2. CASE CarLinks
  BY <1>2, SentVisits
<1>3. CASE ReadReport
  BY <1>3, ReadVisits
<1>4. CASE LosesCar
  <2>1. UNCHANGED shm /\ outbox' = <<>> /\ known' = NoStatus /\ rested' = Standing
    BY <1>4 DEF LosesCar, Lost, vars
  <2> QED BY <2>1, EmptySeq DEF ReportsAreVisits, Listed, Standing, AtFloor
<1>5. CASE CarWaits \/ Assign \/ Refuse \/ (\E trip \in Trips : PlaceCall(trip)) \/ Pop
           \/ UNCHANGED dispatchVars
  <2>1. UNCHANGED <<shm, outbox, known, rested>>
    BY <1>5 DEF CarWaits, TimerElapses, Elapse, Assign, Refuse, PlaceCall, Pop, dispatchVars,
                allVars, linkVars, vars, history
  <2> QED BY <2>1 DEF ReportsAreVisits, OfAVisit, Listed, Standing, AtFloor
<1> QED BY <1>1, <1>2, <1>3, <1>4, <1>5 DEF DispatchNext

\* Dispatch's DoneWhereTheCarWas: however late, however often and however torn the reports
\* of the car are read, a floor is taken out of the queue as done only if the car has been
\* there, as its destination, since the controller came up; for any number of calls, floors
\* and messages under way (controller.c:534-543, car.c:807-819).
THEOREM DoneAfterVisit == DispatchSafety => DoneWhereTheCarWas
<1>1. DispatchInit => ReportsAreVisits
  BY EmptySeq DEF DispatchInit, LinkInit, Init, ReportsAreVisits, Listed, Standing, AtFloor
<1>2. DispatchInv /\ ReportsAreVisits /\ [DispatchNext]_dispatchVars => ReportsAreVisits'
  BY VisitStep
<1>3. DispatchInv /\ ReportsAreVisits /\ [DispatchNext]_dispatchVars
        => [Pop /\ queue' # queue => queue[1].floor \in rested]_dispatchVars
  <2> SUFFICES ASSUME DispatchInv, ReportsAreVisits, Pop, queue' # queue
               PROVE  queue[1].floor \in rested
    OBVIOUS
  <2>1. Arrived(known, queue)
    BY DEF Pop
  <2>2. Listed
    BY <2>1 DEF Arrived, DispatchInv, DispatchTypeOK, Listed
  <2> QED BY <2>1, <2>2 DEF Arrived, ReportsAreVisits, OfAVisit
<1> QED BY <1>1, <1>2, <1>3, DispatchInvariance, PTL DEF DispatchSafety, DoneWhereTheCarWas
=============================================================================
