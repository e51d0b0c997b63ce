------------------------------- MODULE CarLink -------------------------------
(***************************************************************************)
(* The connection thread of a car (car.c, controller_connection) added to  *)
(* the car of ElevatorCar: it connects to the controller, reports the      *)
(* status whenever the loop wrote a byte into the pipe and otherwise every *)
(* `delay', keeps the last floor the controller sent in a pending buffer   *)
(* until the car is not between floors, and hangs up in emergency and      *)
(* service mode.  A monitor thread watches the socket beside it, and has   *)
(* to be joined before the next attempt to connect.  The controller is the *)
(* other end of the two channels; it may go away at any time.              *)
(***************************************************************************)
EXTENDS ElevatorCar, Sequences

CONSTANTS
    NoFloor,     \* the empty pending buffer
    NoStatus,    \* nothing reported yet on this connection
    MaxInbox,    \* bound: FLOOR messages the car has not read
    MaxOutbox    \* bound: STATUS messages the controller has not read

StatusLine == [status : Statuses, current_floor : FloorText, destination_floor : FloorText]

ASSUME CarLinkAssumption ==
    /\ NoFloor \notin FloorText
    /\ NoStatus \notin StatusLine
    /\ MaxInbox \in Nat \ {0} /\ MaxOutbox \in Nat \ {0}

VARIABLES
    link,       \* where the thread is: "down", "greeting", "status" (in send_status),
                \* "top" of its loop, at the "lock", in "poll", "closing" (joining the
                \* monitor), or "exited" with the whole program
    peer,       \* the other end: "none", "up", "closed" (it sent its FIN), "reset"
    pending,    \* pending_destination
    captured,   \* the status text send_status has read before the floors, "none" outside
    inbox,      \* FLOOR messages in flight, or in the car's receive buffer
    outbox,     \* STATUS messages in flight
    known       \* the last STATUS the controller read on this connection

linkVars == <<link, peer, pending, captured, inbox, outbox, known>>
allVars  == <<shm, timer, loopWake, following, safety, pipe,
              link, peer, pending, captured, inbox, outbox, known>>

LinkTypeOK ==
    /\ link \in {"down", "greeting", "status", "top", "lock", "poll", "closing", "exited"}
    /\ peer \in {"none", "up", "closed", "reset"}
    /\ pending \in CallFloors \cup {NoFloor}
    /\ captured \in Statuses \cup {"none"}
    /\ inbox \in Seq(CallFloors)
    /\ outbox \in Seq(StatusLine)
    /\ known \in StatusLine \cup {NoStatus}
    /\ link = "down" <=> peer = "none"
    /\ link = "down" => inbox = <<>>
    /\ link = "status" => captured # "none"
    /\ peer # "up" => outbox = <<>> /\ known = NoStatus
    /\ link = "exited" => peer # "up"

LinkInit ==
    /\ Init
    /\ link = "down" /\ peer = "none"
    /\ pending = NoFloor
    /\ captured = "none"
    /\ inbox = <<>> /\ outbox = <<>>
    /\ known = NoStatus

-----------------------------------------------------------------------------
(* The socket.                                                             *)

\* One message.  A peer that has closed answers it with a reset, which may arrive
\* between the two writes of a message or after them; a write after the reset fails,
\* and that ends the program.
Sends(line, next) ==
    \/ peer = "up" /\ outbox' = outbox \o line /\ link' = next /\ UNCHANGED peer
    \/ peer = "closed" /\ peer' = "reset" /\ link' = next /\ UNCHANGED outbox
    \/ peer # "up" /\ link' = "exited" /\ UNCHANGED <<peer, outbox>>

\* What POLLIN says: bytes to read, or the end of the stream.
AtEnd    == inbox = <<>> /\ peer # "up"
Readable == inbox # <<>> \/ AtEnd

\* The monitor peeks one byte: as long as there is an unread floor it does not see
\* the end of the stream behind it.  A reset it sees at once.
HangUpSeen == peer = "reset" \/ (peer = "closed" /\ inbox = <<>>)

-----------------------------------------------------------------------------
(* controller_connection.                                                  *)

Connect ==
    /\ link = "down"
    /\ link' = "greeting" /\ peer' = "up"
    /\ UNCHANGED <<vars, pending, captured, inbox, outbox, known>>

\* send_status reads the segment without the mutex: first the status, then the
\* two floors, and the loop may run in between.
CaptureStatus(next) == captured' = shm.status /\ link' = next

SendStatus ==
    /\ link = "status" /\ Len(outbox) < MaxOutbox
    /\ Sends(<<[status |-> captured, current_floor |-> shm.current_floor,
                destination_floor |-> shm.destination_floor]>>, "top")
    /\ captured' = "none"
    /\ UNCHANGED <<vars, pending, inbox, known>>

\* "CAR {name} {lowest} {highest}"; the status report follows.
Greet ==
    /\ link = "greeting"
    /\ Sends(<<>>, "status")
    /\ captured' = shm.status
    /\ UNCHANGED <<vars, pending, inbox, known>>

HandOver_AnyTime ==
    IF pending # NoFloor
    THEN Write([shm EXCEPT !.destination_floor = pending]) /\ pending' = NoFloor
    ELSE UNCHANGED <<vars, pending>>

HandOver_Forgets ==
    /\ pending' = NoFloor
    /\ IF pending # NoFloor /\ shm.status # "Between"
       THEN ApplyDestination(pending)
       ELSE UNCHANGED vars

\* The pending floor goes to the segment unless the car is between floors, in
\* every mode.
HandOver ==
    IF pending # NoFloor /\ shm.status # "Between"
    THEN ApplyDestination(pending) /\ pending' = NoFloor
    ELSE UNCHANGED <<vars, pending>>

\* Still connected as far as the monitor has said so far.
Top ==
    /\ link = "top"
    /\ link' = "lock"
    /\ UNCHANGED <<vars, peer, pending, captured, inbox, outbox, known>>

\* The monitor has cleared connection_alive.
TopEnds ==
    /\ link = "top" /\ HangUpSeen
    /\ link' = "closing"
    /\ UNCHANGED <<vars, peer, pending, captured, inbox, outbox, known>>

\* One locked section: hand over, then look at the modes.  In emergency or service
\* mode the thread says so to the controller and reads no more floors.
Locked ==
    /\ link = "lock" /\ MutexFree
    /\ HandOver
    /\ IF Emergency \/ Service
       THEN Sends(<<>>, "closing")
       ELSE link' = "poll" /\ UNCHANGED <<peer, outbox>>
    /\ UNCHANGED <<captured, inbox, known>>

PollTimeout ==
    /\ link = "poll" /\ ~Readable /\ pipe = 0
    /\ CaptureStatus("status")
    /\ UNCHANGED <<vars, peer, pending, inbox, outbox, known>>

PollReady_NoReport ==
    /\ link = "poll"
    /\ Readable \/ pipe > 0
    /\ IF inbox # <<>> THEN pending' = Head(inbox) /\ inbox' = Tail(inbox)
       ELSE UNCHANGED <<pending, inbox>>
    /\ IF pipe > 0 THEN ReadPipe ELSE UNCHANGED vars
    /\ link' = "top"
    /\ UNCHANGED <<peer, captured, outbox, known>>

\* A message overwrites the pending floor; at the end of the stream it may be an empty
\* one, which is ignored.  A byte is read and answered with the status of now.
PollReady ==
    /\ link = "poll"
    /\ Readable \/ pipe > 0
    /\ IF inbox # <<>> THEN pending' = Head(inbox) /\ inbox' = Tail(inbox)
       ELSE UNCHANGED <<pending, inbox>>
    /\ IF pipe > 0 THEN ReadPipe /\ CaptureStatus("status")
       ELSE UNCHANGED <<vars, captured>> /\ link' = "top"
    /\ UNCHANGED <<peer, outbox, known>>

\* The other outcomes of receive_msg at the end of the stream, where the length of the
\* message is whatever the variable held: no message, or the end of the program.
PollEnds ==
    /\ link = "poll" /\ AtEnd
    /\ link' \in {"closing", "exited"}
    /\ UNCHANGED <<vars, peer, pending, captured, inbox, outbox, known>>

Join_Leaves ==
    /\ link = "closing" /\ HangUpSeen
    /\ link' = "down" /\ peer' = "none"
    /\ UNCHANGED <<vars, pending, captured, inbox, outbox, known>>

\* pthread_join returns when the monitor has seen the connection end: it looks at
\* nothing else.  A socket that is closed takes what nobody read with it; the pending
\* buffer and the bytes in the pipe stay.
Join ==
    /\ link = "closing" /\ HangUpSeen
    /\ link' = "down" /\ peer' = "none"
    /\ inbox' = <<>>
    /\ UNCHANGED <<vars, pending, captured, outbox, known>>

Link ==
    \/ Connect \/ Greet \/ SendStatus
    \/ Top \/ TopEnds \/ Locked \/ PollTimeout \/ PollReady \/ PollEnds
    \/ Join

-----------------------------------------------------------------------------
(* The controller, as the car sees it.                                     *)

\* The controller goes away.  What it sent can still be read; what it did not read,
\* part of a message included, makes its end a reset.
Lost ==
    /\ peer = "up"
    /\ peer' \in (IF outbox = <<>> THEN {"closed", "reset"} ELSE {"reset"})
    /\ outbox' = <<>> /\ known' = NoStatus
    /\ UNCHANGED <<vars, link, pending, captured, inbox>>

\* Told of the other mode the controller, having read everything, closes.
PeerCloses ==
    /\ link = "closing" /\ peer = "up" /\ outbox = <<>>
    /\ peer' = "closed" /\ known' = NoStatus
    /\ UNCHANGED <<vars, link, pending, captured, inbox, outbox>>

ControllerSends(floor) ==
    /\ peer = "up" /\ link # "greeting" /\ Len(inbox) < MaxInbox
    /\ inbox' = Append(inbox, floor)
    /\ UNCHANGED <<vars, link, peer, pending, captured, outbox, known>>

ControllerReads ==
    /\ outbox # <<>>
    /\ known' = Head(outbox) /\ outbox' = Tail(outbox)
    /\ UNCHANGED <<vars, link, peer, pending, captured, inbox>>

-----------------------------------------------------------------------------
\* The loop is a thread of the same program and ends with it.
Running == link # "exited"

LoopWakes     == Running /\ LoopWake /\ UNCHANGED linkVars
LoopTimesOut  == Running /\ LoopTimeout /\ UNCHANGED linkVars
LoopFollows   == Running /\ LoopGoesOn /\ UNCHANGED linkVars
TimerElapses  == Running /\ Elapse /\ UNCHANGED linkVars

\* The other programs and the sensors go on without it.
OthersAct ==
    /\ \/ SafetyWait \/ SafetyCheck
       \/ Technician
       \/ \E field \in Sensors, value \in SensorValues : Sensor(field, value)
    /\ UNCHANGED linkVars

Controller ==
    \/ Lost \/ PeerCloses
    \/ \E floor \in CallFloors : ControllerSends(floor)
    \/ ControllerReads

LinkNext ==
    \/ LoopWakes \/ LoopTimesOut \/ LoopFollows \/ TimerElapses
    \/ OthersAct
    \/ Link
    \/ Controller

\* The loop's wait times out again and again, with strong fairness because the room
\* in the pipe and the mutex come and go; the connection thread and its monitor are
\* threads like the others, and the controller reads what it is sent.
\* What happens here needs neither a wake-up nor the safety process.
LinkFairness ==
    /\ WF_allVars(TimerElapses)
    /\ SF_allVars(LoopTimesOut)
    /\ WF_allVars(LoopFollows)
    /\ SF_allVars(Link)
    /\ SF_allVars(TopEnds)
    /\ WF_allVars(PeerCloses)
    /\ WF_allVars(ControllerReads)

LinkSpec == LinkInit /\ [][LinkNext]_allVars /\ LinkFairness

-----------------------------------------------------------------------------
\* With its connection thread in place of the arbitrary one the car is still a
\* car: everything proved of ElevatorCar holds here.
IsElevatorCar == Init /\ [][Next]_vars

\* What the controller knows, or is about to read.
Reported == IF outbox = <<>> THEN known ELSE outbox[Len(outbox)]

\* No status is forgotten: once greeted, and while the controller is there, the last
\* STATUS sent shows the phase and the floor of now, or a byte is still to come
\* (car.c:839, car.c:722).  Only the safety process changes the status without a byte,
\* from Closing back to Opening.
NothingForgotten ==
    link \in {"top", "lock", "poll"} /\ peer = "up" =>
        \/ pipe > 0 \/ following # "none"
        \/ /\ Reported # NoStatus
           /\ Reported.current_floor = shm.current_floor
           /\ \/ Reported.status = shm.status
              \/ SafetyRuns /\ Reported.status = "Closing" /\ shm.status = "Opening"

\* The three ways the thread comes to a stand for good: the loop inside write() with the
\* mutex the thread waits for, the monitor at a floor nobody will read, a failed write.
Jammed == link = "lock" /\ Writing
Hung   == link = "closing" /\ peer = "closed" /\ inbox # <<>>
Stands == Jammed \/ Hung \/ link = "exited"

\* A floor the thread has read ends up as the destination, unless a later one replaces
\* it, the connection ends, or the thread has come to a stand.
FloorHandedOver ==
    \A floor \in CallFloors :
        (pending = floor) ~>
            \/ shm.destination_floor = floor
            \/ pending \notin {floor, NoFloor}
            \/ link = "down"
            \/ Stands

\* car.c:560: the connection thread constantly loops.
KeepsLooping == (link = "lock") ~> (link # "lock")

\* car.c:669: in the other modes it quits the connection and goes back to retrying.
BackToRetrying == (link = "closing") ~> (link = "down")
=============================================================================
