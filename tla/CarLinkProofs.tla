---------------------------- MODULE CarLinkProofs ----------------------------
(***************************************************************************)
(* Proofs about CarLink for every choice of its constants: the variables   *)
(* keep their types, and a car with its connection thread is still the car *)
(* of ElevatorCar, so that all that is proved of the one holds of the      *)
(* other.                                                                  *)
(***************************************************************************)
EXTENDS CarLink, ElevatorCarProofs, DataLemmas

\* The thread's own part of a step that leaves the channels alone.
LEMMA Handing ==
    ASSUME LinkTypeOK, HandOver
    PROVE  /\ pending' \in CallFloors \cup {NoFloor}
           /\ UNCHANGED vars \/ \E floor \in CallFloors : ApplyDestination(floor)
BY DEF HandOver, LinkTypeOK

\* Every step of the connected car is a step of the car or leaves it alone.
LEMMA LinkStepIsCarStep ==
    ASSUME LinkTypeOK, [LinkNext]_allVars
    PROVE  [Next]_vars
<1>1. CASE LoopWakes \/ LoopTimesOut \/ LoopFollows \/ TimerElapses \/ OthersAct
  BY <1>1 DEF LoopWakes, LoopTimesOut, LoopFollows, TimerElapses, OthersAct, Next
<1>2. CASE Link
  <2>1. CASE Locked
    BY <2>1, Handing DEF Locked, Next
  <2>2. CASE PollReady
    BY <2>2 DEF PollReady, Next
  <2>3. CASE Connect \/ Greet \/ SendStatus \/ Top \/ TopEnds \/ PollTimeout \/ PollEnds \/ Join
    BY <2>3 DEF Connect, Greet, SendStatus, Top, TopEnds, PollTimeout, PollEnds, Join
  <2> QED BY <1>2, <2>1, <2>2, <2>3 DEF Link
<1>3. CASE Controller
  BY <1>3 DEF Controller, Lost, PeerCloses, ControllerReads, ControllerSends
<1>4. CASE UNCHANGED allVars
  BY <1>4 DEF allVars, vars
<1> QED BY <1>1, <1>2, <1>3, <1>4 DEF LinkNext

-----------------------------------------------------------------------------
(* The types of the connection thread's variables.                         *)

LEMMA Channels ==
    ASSUME LinkTypeOK
    PROVE  /\ inbox # <<>> => Head(inbox) \in CallFloors /\ Tail(inbox) \in Seq(CallFloors)
           /\ outbox # <<>> => Head(outbox) \in StatusLine /\ Tail(outbox) \in Seq(StatusLine)
           /\ \A f \in CallFloors : Append(inbox, f) \in Seq(CallFloors)
           /\ \A s \in StatusLine : outbox \o <<s>> \in Seq(StatusLine)
           /\ outbox \o <<>> = outbox
           /\ <<>> \in Seq(CallFloors) /\ <<>> \in Seq(StatusLine)
BY HeadTailProperties, EmptySeq, ConcatEmptySeq, AppendIsConcat, AppendProperties DEF LinkTypeOK

\* One message, a report or another: the program lives on only if it was sent.
LEMMA SendingType ==
    ASSUME LinkTypeOK, link # "down", NEW line, NEW next, Sends(line, next),
           line = <<>> \/ \E s \in StatusLine : line = <<s>>
    PROVE  /\ link' \in {next, "exited"}
           /\ peer' \in {"up", "closed", "reset"}
           /\ outbox' \in Seq(StatusLine)
           /\ peer' = "up" <=> peer = "up"
           /\ peer # "up" => outbox' = <<>>
           /\ link' = "exited" => next = "exited" \/ peer' # "up"
           /\ line = <<>> => outbox' = outbox
BY Channels DEF Sends, LinkTypeOK

LEMMA StatusKinds ==
    TypeOK => /\ shm.status \in Statuses /\ shm.current_floor \in FloorText
              /\ shm.destination_floor \in FloorText /\ pipe \in Nat
BY DEF TypeOK, CarSharedMem

LEMMA LinkActionType ==
    ASSUME TypeOK, LinkTypeOK, Link
    PROVE  LinkTypeOK'
<1> shm.status \in Statuses /\ shm.status # "none"
  BY StatusKinds DEF Statuses
<1>1. CASE Connect \/ Top
  BY <1>1 DEF Connect, Top, LinkTypeOK
<1>7. CASE TopEnds \/ PollEnds
  BY <1>7 DEF TopEnds, PollEnds, AtEnd, LinkTypeOK
<1>8. CASE Join
  BY <1>8, Channels DEF Join, HangUpSeen, LinkTypeOK
<1>2. CASE PollTimeout
  BY <1>2 DEF PollTimeout, CaptureStatus, LinkTypeOK
<1>3. CASE Greet
  BY <1>3, SendingType DEF Greet, LinkTypeOK
<1>4. CASE SendStatus
  <2>1. [status |-> captured, current_floor |-> shm.current_floor,
         destination_floor |-> shm.destination_floor] \in StatusLine
    BY <1>4, StatusKinds DEF SendStatus, StatusLine, LinkTypeOK
  <2> QED BY <1>4, <2>1, SendingType DEF SendStatus, LinkTypeOK
<1>5. CASE Locked
  <2>1. CASE Emergency \/ Service
    <3>1. link = "lock" /\ Sends(<<>>, "closing")
      BY <1>5, <2>1 DEF Locked
    <3> QED BY <1>5, <3>1, Handing, SendingType DEF Locked, LinkTypeOK
  <2>2. CASE ~(Emergency \/ Service)
    BY <1>5, <2>2, Handing DEF Locked, LinkTypeOK
  <2> QED BY <2>1, <2>2
<1>6. CASE PollReady
  <2>1. pending' \in CallFloors \cup {NoFloor} /\ inbox' \in Seq(CallFloors)
    BY <1>6, Channels DEF PollReady, LinkTypeOK
  <2> QED BY <1>6, <2>1 DEF PollReady, CaptureStatus, LinkTypeOK
<1> QED BY <1>1, <1>2, <1>3, <1>4, <1>5, <1>6, <1>7, <1>8 DEF Link

LEMMA LinkNextType ==
    ASSUME TypeOK, LinkTypeOK, [LinkNext]_allVars
    PROVE  LinkTypeOK'
<1>1. CASE LoopWakes \/ LoopTimesOut \/ LoopFollows \/ TimerElapses \/ OthersAct
           \/ UNCHANGED allVars
  BY <1>1 DEF LoopWakes, LoopTimesOut, LoopFollows, TimerElapses, OthersAct, allVars,
              linkVars, LinkTypeOK
<1>2. CASE Link
  BY <1>2, LinkActionType
<1>3. CASE Lost \/ PeerCloses
  BY <1>3, Channels DEF Lost, PeerCloses, LinkTypeOK
<1>4. CASE \E floor \in CallFloors : ControllerSends(floor)
  BY <1>4, Channels DEF ControllerSends, LinkTypeOK
<1>5. CASE ControllerReads
  BY <1>5, Channels DEF ControllerReads, LinkTypeOK
<1> QED BY <1>1, <1>2, <1>3, <1>4, <1>5 DEF LinkNext, Controller

LEMMA LinkInitType == LinkInit => LinkTypeOK /\ Inv
BY InitInv, EmptySeq DEF LinkInit, LinkTypeOK

LinkInv == LinkTypeOK /\ Inv

LEMMA LinkNextInv == LinkInv /\ [LinkNext]_allVars => LinkInv'
BY LinkStepIsCarStep, LinkNextType, NextInv DEF LinkInv, Inv

\* The types of the connection, together with the car's invariant.
THEOREM LinkInvariance == LinkSpec => []LinkInv
BY LinkInitType, LinkNextInv, PTL DEF LinkSpec, LinkInv

\* The pending floor and the messages under way are always floors the controller may
\* send, and nothing is under way while there is no connection (car.c:567-609).
THEOREM LinkTypeCorrect == LinkSpec => []LinkTypeOK
BY LinkInvariance, PTL DEF LinkInv

\* The connection thread adds no behaviour to the car: what it writes is what anybody
\* may write at that moment (car.c:660-666).
THEOREM LinkImplementsCar == LinkSpec => IsElevatorCar
<1>1. LinkInit => Init
  BY DEF LinkInit
<1>2. LinkTypeOK /\ [LinkNext]_allVars => [Next]_vars
  BY LinkStepIsCarStep
<1> QED BY <1>1, <1>2, LinkTypeCorrect, PTL DEF LinkSpec, IsElevatorCar

-----------------------------------------------------------------------------
(* No status is forgotten.                                                 *)

\* The status line shows the phase of now, or the one the safety process turned back.
Shows(text) ==
    \/ text = shm.status
    \/ SafetyRuns /\ text = "Closing" /\ shm.status = "Opening"

\* A byte is there, or the loop has yet to write it.
Told == pipe > 0 \/ following # "none"

\* send_status works with the text it has read: while it is under way that text is the
\* phase of now, or else a byte written since then will have it sent again.
CaptureHolds == link = "status" => Told \/ Shows(captured)

\* The safety process is there from the start or not at all.
SafetyThere == safety # "off" => SafetyRuns

ReportInv == CaptureHolds /\ NothingForgotten /\ SafetyThere

\* Nothing but SafetyCheck looks at a woken safety process, and it was started.
LEMMA SafetyStays ==
    ASSUME TypeOK, SafetyThere, [Next]_vars
    PROVE  SafetyThere'
<1>1. safety' = safety \/ safety' = Signalled(safety) \/ safety # "off"
  <2>1. CASE LoopWake \/ LoopTimeout \/ LoopGoesOn
    BY <2>1 DEF LoopWake, LoopTimeout, LoopGoesOn, EmergencyWake, EmergencyTimeout, ServiceWake,
                ServiceTimeout, NormalWake, NormalTimeout, NormalMove, NormalRest, NormalDoors,
                HeldDoorsWake, HeldDoorsTimeout, StopAtNextFloor, Report, Rearm, Ignore, Iterate
  <2>2. CASE Elapse \/ ReadPipe \/ SafetyWait \/ SafetyCheck \/ UNCHANGED vars
    BY <2>2 DEF Elapse, ReadPipe, SafetyWait, SafetyCheck, vars
  <2>3. CASE \/ \E floor \in CallFloors : ApplyDestination(floor)
             \/ Technician
             \/ \E field \in Sensors, value \in SensorValues : Sensor(field, value)
    BY <2>3 DEF ApplyDestination, Technician, TechnicianSet, TechnicianMove, Sensor, Write,
                Broadcast
  <2> QED BY <2>1, <2>2, <2>3 DEF Next
<1> QED BY <1>1 DEF SafetyThere, Signalled

\* Whoever had seen the phase, or will be told, still has or will be after a step of the
\* car that is not the connection taking a byte.
LEMMA StillShown ==
    ASSUME TypeOK, TypeOK', SafetyThere, [Next]_vars, ~ReadPipe, NEW text,
           Told \/ Shows(text)
    PROVE  Told' \/ (~Told /\ Shows(text)' /\ shm'.current_floor = shm.current_floor)
<1>1. StepShown /\ pipe \in Nat /\ pipe' \in Nat
  BY NextShown, StatusKinds DEF TypeOK
<1>2. CASE Told \/ pipe' > pipe
  BY <1>1, <1>2 DEF StepShown, Told
<1>3. CASE ~Told /\ ~(pipe' > pipe) /\ following' = "none"
  <2>1. shm'.current_floor = shm.current_floor
    BY <1>1, <1>3 DEF StepShown
  <2>2. \/ shm'.status = shm.status
        \/ SafetyRuns /\ shm.status = "Closing" /\ shm'.status = "Opening"
    BY <1>1, <1>3 DEF StepShown, SafetyThere
  <2>3. Shows(text)
    BY <1>3
  <2> QED BY <1>3, <2>1, <2>2, <2>3 DEF Shows
<1>4. CASE following' # "none"
  BY <1>4 DEF Told
<1> QED BY <1>2, <1>3, <1>4

\* Reading the oldest message does not change what the controller is told last.
LEMMA ReadingReports ==
    ASSUME LinkTypeOK, ControllerReads
    PROVE  Reported' = Reported
BY LastOfTail DEF LinkTypeOK, ControllerReads, Reported

\* What send_status appends is what a controller that is there is told last.
LEMMA SendingReports ==
    ASSUME TypeOK, LinkTypeOK, SendStatus, peer' = "up"
    PROVE  /\ Reported' # NoStatus
           /\ Reported'.status = captured
           /\ Reported'.current_floor = shm.current_floor
<1> DEFINE line == [status |-> captured, current_floor |-> shm.current_floor,
                    destination_floor |-> shm.destination_floor]
<1>1. line \in StatusLine
  BY StatusKinds DEF SendStatus, LinkTypeOK, StatusLine
<1>2. /\ outbox' = outbox \o <<line>> /\ outbox \in Seq(StatusLine)
  BY DEF SendStatus, Sends, LinkTypeOK
<1>3. outbox' = Append(outbox, line)
  BY <1>1, <1>2, AppendIsConcat
<1>4. /\ Len(outbox') = Len(outbox) + 1 /\ outbox'[Len(outbox) + 1] = line
      /\ outbox' # <<>>
  BY <1>1, <1>2, <1>3, AppendProperties
<1>5. Reported' = line
  BY <1>4 DEF Reported
<1> QED BY <1>1, <1>5, CarLinkAssumption

\* A step of the car itself: what is under way or was sent stays good, or a byte follows.
LEMMA CarStepReports ==
    ASSUME TypeOK, TypeOK', ReportInv, [Next]_vars, ~ReadPipe, UNCHANGED linkVars
    PROVE  ReportInv'
<1> USE DEF ReportInv
<1>1. SafetyThere'
  BY SafetyStays
<1>2. CaptureHolds'
  BY StillShown DEF CaptureHolds, linkVars, Shows
<1>3. NothingForgotten'
  <2> SUFFICES ASSUME link' \in {"top", "lock", "poll"}, peer' = "up", ~Told'
               PROVE  /\ Reported' # NoStatus
                      /\ Reported'.current_floor = shm'.current_floor
                      /\ Shows(Reported.status)'
    BY DEF NothingForgotten, Shows, Told
  <2>1. Reported' = Reported /\ link' = link /\ peer' = peer
    BY DEF linkVars, Reported
  <2>2. PICK text : text = Reported.status
    OBVIOUS
  <2>3. Told \/ Shows(text)
    BY <2>1, <2>2 DEF NothingForgotten, Shows, Told
  <2>4. ~Told /\ Shows(text)' /\ shm'.current_floor = shm.current_floor
    BY <2>3, StillShown
  <2>5. Reported # NoStatus /\ Reported.current_floor = shm.current_floor
    BY <2>1, <2>4 DEF NothingForgotten, Told
  <2> QED BY <2>1, <2>2, <2>4, <2>5 DEF Shows
<1> QED BY <1>1, <1>2, <1>3

\* Only the connection takes bytes: with StepShown this is all the proof needs to know
\* of the loop, the technician, the sensors and the safety process.
LEMMA CarStepsWrite ==
    ASSUME TypeOK, LoopWake \/ LoopTimeout \/ LoopGoesOn \/ Elapse \/ SafetyWait \/ SafetyCheck \/ Technician
                   \/ \E field \in Sensors, value \in SensorValues : Sensor(field, value)
    PROVE  ~ReadPipe
<1>1. pipe \in Nat
  BY DEF TypeOK
<1>2. CASE LoopWake \/ LoopTimeout \/ LoopGoesOn
  BY <1>1, <1>2 DEF LoopWake, LoopTimeout, LoopGoesOn, EmergencyWake, EmergencyTimeout, ServiceWake,
                ServiceTimeout, NormalWake, NormalTimeout, NormalMove, NormalRest, NormalDoors,
                HeldDoorsWake, HeldDoorsTimeout, StopAtNextFloor, Report, Rearm, Ignore, Iterate,
                ReadPipe
<1>3. CASE \/ Elapse \/ SafetyWait \/ SafetyCheck \/ Technician
           \/ \E field \in Sensors, value \in SensorValues : Sensor(field, value)
  BY <1>1, <1>3 DEF Elapse, SafetyWait, SafetyCheck, Technician, TechnicianSet, TechnicianMove,
                    Sensor, Write, ReadPipe
<1> QED BY <1>2, <1>3

\* A step of the connection: what it reads from the segment is what is there.
LEMMA LinkReports ==
    ASSUME TypeOK, LinkTypeOK, ReportInv, Link
    PROVE  CaptureHolds' /\ NothingForgotten'
<1> USE DEF ReportInv
<1>1. CASE Connect \/ TopEnds \/ PollEnds \/ Join
  BY <1>1 DEF Connect, TopEnds, PollEnds, Join, CaptureHolds, NothingForgotten
<1>2. CASE Greet \/ PollTimeout
  BY <1>2 DEF Greet, Sends, PollTimeout, CaptureStatus, CaptureHolds, NothingForgotten, Shows,
              vars
<1>3. CASE SendStatus
  <2>1. /\ link' \in {"top", "exited"} /\ UNCHANGED <<pipe, following, shm>>
        /\ Told \/ Shows(captured)
    BY <1>3 DEF SendStatus, Sends, CaptureHolds, vars
  <2> QED BY <1>3, <2>1, SendingReports DEF CaptureHolds, NothingForgotten, Shows, Told
<1>4. CASE Top
  BY <1>4 DEF Top, CaptureHolds, NothingForgotten, Reported, vars
<1>5. CASE Locked
  <2>1. /\ pipe' = pipe /\ following' = following /\ shm'.status = shm.status
        /\ shm'.current_floor = shm.current_floor
    BY <1>5 DEF Locked, HandOver, ApplyDestination, Write, TypeOK, CarSharedMem, vars
  <2>2. CASE Emergency \/ Service
    BY <1>5, <2>2 DEF Locked, Sends, CaptureHolds, NothingForgotten
  <2>3. CASE ~(Emergency \/ Service)
    <3>1. link' = "poll" /\ link = "lock" /\ peer' = peer /\ Reported' = Reported
      BY <1>5, <2>3 DEF Locked, Reported
    <3> QED BY <2>1, <3>1 DEF CaptureHolds, NothingForgotten
  <2> QED BY <2>2, <2>3
<1>6. CASE PollReady
  <2>1. CASE pipe > 0
    BY <1>6, <2>1 DEF PollReady, ReadPipe, CaptureStatus, CaptureHolds, NothingForgotten, Shows
  <2>2. CASE ~(pipe > 0)
    BY <1>6, <2>2 DEF PollReady, CaptureHolds, NothingForgotten, Reported, vars
  <2> QED BY <2>1, <2>2
<1> QED BY <1>1, <1>2, <1>3, <1>4, <1>5, <1>6 DEF Link

LEMMA ReportNextInv == LinkInv /\ ReportInv /\ [LinkNext]_allVars => ReportInv'
<1> SUFFICES ASSUME LinkInv, ReportInv, [LinkNext]_allVars
             PROVE  ReportInv'
  OBVIOUS
<1>1. /\ TypeOK /\ LinkTypeOK /\ TypeOK' /\ [Next]_vars
      /\ SafetyThere'
  BY LinkNextInv, LinkStepIsCarStep, SafetyStays DEF LinkInv, Inv, ReportInv
<1>2. CASE LoopWakes \/ LoopTimesOut \/ LoopFollows \/ TimerElapses \/ OthersAct
  <2>1. ~ReadPipe
    BY <1>1, <1>2, CarStepsWrite
       DEF LoopWakes, LoopTimesOut, LoopFollows, TimerElapses, OthersAct
  <2>2. UNCHANGED linkVars
    BY <1>2 DEF LoopWakes, LoopTimesOut, LoopFollows, TimerElapses, OthersAct
  <2> QED BY <1>1, <2>1, <2>2, CarStepReports
<1>3. CASE Link
  BY <1>1, <1>3, LinkReports DEF ReportInv
<1>4. CASE Lost \/ PeerCloses
  BY <1>1, <1>4 DEF Lost, PeerCloses, ReportInv, CaptureHolds, NothingForgotten, Shows, Told, vars
<1>5. CASE \E floor \in CallFloors : ControllerSends(floor)
  BY <1>1, <1>5 DEF ControllerSends, ReportInv, CaptureHolds, NothingForgotten, Shows, Reported,
                    Told, vars
<1>6. CASE ControllerReads
  <2>1. Reported' = Reported /\ UNCHANGED <<link, peer, captured, vars>>
    BY <1>1, <1>6, ReadingReports DEF ControllerReads
  <2> QED BY <1>1, <2>1 DEF ReportInv, CaptureHolds, NothingForgotten, Shows, Told, vars
<1>7. CASE UNCHANGED allVars
  BY <1>1, <1>7 DEF allVars, ReportInv, CaptureHolds, NothingForgotten, Shows, Reported, Told
<1> QED BY <1>2, <1>3, <1>4, <1>5, <1>6, <1>7 DEF LinkNext, Controller

\* The controller is never left with an old phase or floor: the loop's byte (car.c:839)
\* comes after every change, and send_status reads after it has taken one (car.c:722).
THEOREM ReportsReach == LinkSpec => []NothingForgotten
<1>1. LinkInit => ReportInv
  BY DEF LinkInit, Init, ReportInv, CaptureHolds, NothingForgotten, SafetyThere
<1> QED BY <1>1, ReportNextInv, LinkInvariance, PTL DEF LinkSpec, ReportInv
=============================================================================
