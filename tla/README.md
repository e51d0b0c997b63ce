# Verification of the CAB403 elevator system and exercises

The repository is course work in operating systems. One part, `src/assignment2/`, is
a system: elevator cars, a controller, a call program, a technician's program and a
safety monitor, which talk over shared memory, a pipe and TCP sockets. The rest is
exercises, a dozen of which have threads, processes or data structures that are hard
to get right. This directory holds TLA+ models of the system and of these
exercises, TLC configurations that check them on small instances, and proofs that
hold for instances of every size.

Line numbers refer to the files under `src/assignment2/` unless a path says
otherwise.

## 1. Inventory

### The elevator system

| Part | State it keeps | Operations | Talks to |
|---|---|---|---|
| Car: segment and loop (`car.c` `elevator_loop`, `shared.h`) | the shared memory segment (floors, status, buttons, modes, mutex, condition variable), the absolute timeout, the write end of the status pipe | one iteration per broadcast or timeout, in normal, service and emergency mode | everybody, through the segment; the connection thread, through the pipe |
| Car: connection thread (`car.c` `controller_connection`, `monitor_connection`, `send_status`) | the socket, `pending_destination`, the flag `connected` | connect, greet, report the status, take a FLOOR message, hand the floor over, hang up, reconnect | segment, pipe, controller |
| Technician (`internal.c`) | none | `open close stop service_on service_off up down` | segment |
| Safety process (`safety.c`) | none | wait for a broadcast, then check the segment | segment |
| Controller (`controller.c`) | call queue, list of cars; per car its last status and its floor queue; one mutex each; threads for accepting, for each connection, for watching each car, and the dispatcher | accept, enqueue a call, select a car, insert two floors into its queue, read a status, remove a floor on arrival, drop a car, end on SIGINT | cars and call programs over TCP |
| Call program (`call.c`) | none | validate two floors, send CALL, print the answer | controller |
| Messages (`shared.h` `send_message`, `receive_msg`) | none | length-prefixed text | all sockets |

What makes it hard:

* Three kinds of process and two threads of the car write to one segment. The
  mutex makes each section atomic, but what one section saw may be gone in the
  next, and a broadcast is heard only by those already waiting.
* `pthread_cond_timedwait` may return `ETIMEDOUT` for a wait that was broadcast to.
* The loop writes to the pipe while it holds the mutex that its only reader needs.
* `send_status` reads the segment without the mutex, so a report may mix two moments, and
  may show a status that the loop replaces in the same iteration.
* The connection thread has to join a monitor that only the end of the connection ends.
* The controller decides from reports that are late, repeated or mixed, changes
  the queue from two threads, and tells the car only the head of the queue.
* A connection may end at any moment, from either side, and takes the queue with it.
* The controller's threads share the list of cars and the table of descriptors: an
  entry may be freed, and its address or a descriptor given out again, while another
  thread still has it.
* Floors are texts that some places compare as texts and others as numbers, with no
  floor 0 for the technician and a floor 0 for the motor.

What correctness means, part by part:

* Car: the doors never skip a phase and the car never leaves a floor with open
  doors, whoever looks and whenever (`KeepsDoorCycle`); its trip is not changed under way
  (`BetweenMeansElsewhere`); every change of status gets its full delay and is
  reported (`ChangesAreTimedAndReported`); a call elsewhere is served
  (`CallServed`) and doors close again (`DoorsCloseAgain`).
* Emergency mode: no trip begins (`EmergencyNeverTravels`), a moving car comes
  to rest (`EmergencyStopsCar`), a passenger can get out
  (`TrappedPassengerCanLeave`).
* Safety process: a pass leaves the car in emergency mode unless all is well
  (`SafetyLeavesSafeState`); a stop is acted on (`StopEngages`; refuted).
* Connection: no change stays unreported (`NothingForgotten`); a floor received
  becomes the destination (`FloorHandedOver`); the thread adds no behaviour to the
  car (`IsElevatorCar`); it keeps looping (`KeepsLooping`; refuted), and in the other modes
  goes back to retrying (`BackToRetrying`; refuted).
* Controller: the last instruction to the car is the head of its queue
  (`HeadIsTarget`); a floor is ticked off only if the car has been there
  (`DoneWhereTheCarWas`); who called is picked up and brought to where he wants to go
  (`CallCarried`); no queued floor is lost (`FloorsAreAdded`; refuted).
* Controller's threads: a caller gets an answer (`CallAnswered`); a car that goes is
  taken off the list (`CarLeaves`), which ends and is made of the entries of the cars that
  are there (`ListSound`) as long as one thread at a time is in it; a walk along it always
  ends (`ListUnbroken`; refuted).
* Messages: what is received is what was sent, in order and once (`ArriveInOrder`); neither
  side waits for bytes the other does not send (`Delivered`); the end of the connection is
  told (`NullOnDisconnect`; refuted).
* Floor arithmetic: trips stay in range (`StaysInRange`) and end (`TripArrives`).

### The exercises

| Program | Its state and what is hard about it | What makes it correct |
|---|---|---|
| `assignment1/sharedMemory/shm_ipc.c` | a worker and a controller alternate over two process-shared semaphores; start-up by sleeping, tear-down while the other still uses the segment | `ResultsMatch`, `WorkGetsDone` |
| `assignment1/vector/dbl_vector.c` | a growing array; size and capacity are updated in several steps | `IsSequence` |
| `week5/.../msgq.c` | producers and consumers on a buffer with no lock at all | `NeverUnderruns`, `EnterStops` |
| `week6/.../buffer.c` | a ring between two semaphores and a mutex | `IsSemaphoreBuffer`, `RemovalsGoOn` |
| `week6/.../condition.c` | a ring, a mutex and two condition variables | `IsConditionBuffer`, `SomebodyAwake` |
| `week8/chatapp/server.c` | a table of clients, one thread each; a descriptor may be reused between `close` and the removal from the table | `NoStaleRows`, `ThreadsEnd` |
| `week5/.../hashtable_search.c` | a chained hash table searched by several threads | `SearchComplete` |
| `exam/week9/roundRobinScheduling_Skeleton.c` | a job queue and a ready queue threaded through one link field | `IsRoundRobin` |
| `week4/.../print_pid.c` | children that print from one shared buffer under a semaphore | `LinesAreWhole` |
| the rest | straight-line I/O and first steps in C | not modelled (section 7) |

## 2. Modules

    Floors ── FloorTrip
      │  └─── DoorCycle                      (abstract: what a car promises)
      │          ▲ implements
      ├── ElevatorCar ── ElevatorCarProofs
      │          ▲ implements
      │       CarLink ── CarLinkProofs
      │          ▲ implements
      └── FloorQueue ── Dispatch ── DispatchProofs    (Dispatch extends CarLink and
                                                       FloorQueue)

    ControllerThreads ── ControllerThreadsProofs      (the controller's threads)
    Messages                                 (the framing all sockets use)

    BoundedBuffer  ▲ SemaphoreBuffer, ConditionBuffer     ── BufferProofs
    DoubleSequence ▲ DoubleVector
    RunQueue       ▲ RoundRobin                           (▲: abstract, implemented by)
    MessageQueue   SharedWorker   ChatServer   HashSearch   PidPrinter

    StandAloneProofs   about FloorTrip, Messages, MessageQueue, SharedWorker,
                       ChatServer and PidPrinter
    CollectionProofs   about DoubleVector, HashSearch and RoundRobin
    DataLemmas         facts on numbers, sequences, rings and recursive functions that
                       the proofs of several parts rest on

`MC<module>` gives the constants of `<module>` the values a `.cfg` file cannot
spell. A definition called `Name_Variant`, placed before `Name`, is a plausible
bug in `Name` (a dropped guard, a missing reset); every property of a passing
run is violated when one of them takes the place of `Name`.

**Floors.** A floor text is a record of what the comparisons in the code tell
apart: the `B`, the number, and whether it has leading zeros. Texts of four or
more characters, which `%3s` would cut, are left out. The operators bear the
names of the C functions.

**FloorTrip.** One trip after another, `move_floor` after `move_floor`, between two floors for
which `can_access_floors` said yes.

**DoorCycle.** The abstract car: the visible status, floor and destination, and
the steps between them that anybody watching the STATUS lines may count on. A phase may be
passed through (`passing`): a car on its way is Closed for a moment at every floor, and one
with closed doors may be told to open them and leave instead.

**ElevatorCar.** `shm` is `car_shared_mem` without its mutex and condition
variable. `elevator_loop` holds the mutex except inside its timed wait, so an
iteration is one step, or two; `LoopWake` is an iteration after a return of 0,
`LoopTimeout` one after `ETIMEDOUT`, and each of the three modes has one
action for either, with a disjunct per branch. An iteration that stores two statuses
one after the other (`car.c:465-472`, `483-489`, `536-540`, and `232-235` in the other
modes) is two steps: `following` is the status still to be stored, `LoopGoesOn` stores it,
and the mutex is held in between, which does not keep `send_status` from reading. `Iterate` is
what all branches end with: the bytes `notify_status_change` writes, whether the timer is set again,
whether others are woken. `timer` is the deadline, passed or not; it is not
rearmed by branches that do not call `calculate_absolute_timeout`, so a loop that
is woken again and again still times out. `loopWake` says whether the present wait
was broadcast to: once the deadline has passed, such a wait may return either
way. `pipe` counts bytes; the loop that has filled it keeps the mutex (`Writing`,
`MutexFree`), and only `send_status` sees what it changed. The safety process
is outside its wait, waiting, or woken. `ApplyDestination` stands for the
connection thread and receives any floor at any time.

The shortcut at line 181 of `car.c` never applies: it compares a
`CLOCK_MONOTONIC` reading with a `CLOCK_REALTIME` deadline. Spurious wake-ups of
the condition variable are left out, as is the moment between the creation of
the segment and the loop's first wait.

**CarLink.** The connection thread in place of the arbitrary one. `link` is its
program counter, `peer` the other end: up, closed (its FIN has come) or reset. `Locked` is
the one critical section: hand over the pending floor, then look at the modes.
`send_status` is two steps, `CaptureStatus` and `SendStatus`, because it reads the status
before the two floors and holds no lock. `Sends` is one message: to a peer that has closed
it may still go through, and provokes the reset; after that a write fails and `exit` ends
the program (`shared.h:74`; `Running`). What the controller sent before it closed stays in
`inbox` and can be read. The monitor sees the end only behind the last byte
(`HangUpSeen`), tells the thread at the top of its loop (`TopEnds`), and is joined before
anything else happens (`Join`): with a floor in `inbox` that the thread will not read any
more it never returns. `PollEnds` has the other outcomes of `receive_msg` at the end of the
stream. The bytes in the pipe and the pending floor survive a connection, as in the code.

**FloorQueue.** The queue of one car as a sequence. The pointer surgery of
`insert_floors_into_queue` is given by what it leaves reachable from the head,
what it forgets included: `Block` is the run of nodes at the head that go in
the call's direction, `FirstReaching` the node either loop stops at.

**Dispatch.** The controller with one car: `calls` is the call queue, `known` and
`queue` the car's entry, `handler` tells whether the handler thread is between
its update of the entry and its look at the queue (two critical sections). A report is read
whenever the handler comes to it, however many timeouts later.
`Assign` is one iteration of `elevator_control_loop` and holds the queue's mutex
throughout. With one car its selection is the range test. The car carries
passengers only (`DispatchAssumption`): other modes hang up, which is CarLink's
matter. `LosesCar` is the controller stopped and started again: all it knew is gone at once,
and the car finds out later, by its own steps. Three history variables serve the
properties: `riders` are the people who were told that a car is arriving, who get in where
they called and out where they wanted to go, when the doors open there; `rested` is
the set of floors the car has been at as its destination since the controller came up; `hasty`
says that a floor was ticked off which somebody still needed.

**ControllerThreads.** The same controller seen as threads: `place` says where each
thread is, and what a call does to a floor queue is left to Dispatch. The critical
sections on the list of cars are several steps, because the mutex does not always
protect them: `locked` is the mutex, and `UnlockAgain` (`controller.c:177`) opens it
whoever holds it, and notes in `broken` whether it was held. Entries are addresses: `next` and
`head` are the real links, `entry` is a handler's `new_car`, `allocated` what `malloc` has
given out and not had back. `Malloc` may give out a freed address again, whoever still
points to it; a freed entry keeps its content, as it usually does, but `Crash` may end the
process whenever one is used. `Join` and `Publish` are the two assignments of
lines 473-474. `Unlink` looks for the entry along the links as they are, and in a
circle that does not have it, for ever. `fds` is the
kernel's table, which gives out the lowest free number: `Close` and `Shutdown` hit
whatever connection has the number now, and a handler may read what another connection
sent (`ReceiveOther`). A failed receive has the three outcomes of `receive_msg`, whose
length is then uninitialised. A failed send ends the process, be it the dispatcher's answer
or FLOOR message (`SendFails`) or the handler's own (`TellsNext`, `TellFails`), which may
also reach a connection that has been given the descriptor meanwhile. `Monitors` may find
anything in the flag of a handler that has returned. The signal interrupts the main
thread, which is the dispatcher's. A mutex that `sigint_handler` has destroyed still
counts as a mutex. Reports that come as they should change nothing here and are no steps.

**Messages.** A message travels as units, a header and then a body; `read` and `write`
take any number of them, so either may stop inside a header. `Begin` has the mutex of
the car's queue, which is what keeps the frames of the controller's two threads apart.
A header whose units do not belong together decodes to any length. `Disconnected` gives
the three outcomes of `receive_msg` when the failed read of the length is not looked at.

**BoundedBuffer, SemaphoreBuffer, ConditionBuffer.** The abstract buffer is a sequence
with `Put` and `Get`. In `buffer.c` the items of the ring are counted by `Stored`:
posted, copied but not yet posted, and claimed but not yet taken; the sections under the
mutex are one step each. Its `main` joins with an index that was never set, so it may wait,
crash or end at any time (`SemJoins`). In `condition.c` a thread has the mutex except
inside its wait; a signal wakes one waiter, a wait may end for no reason, and an awake
thread may take what the woken one was woken for. There items are all alike.

**MessageQueue.** Every access to a shared field is a step; the consumer's two stores
happen in either order. Overrunning the buffer is possible, even with one producer and one
consumer (`is_room` set late undoes `is_room` cleared), and so is a producer without room
beside a consumer without messages: the program has no lock and promises no better.
What it does promise is in `NeverUnderruns` and `EnterStops`.

**SharedWorker.** Both processes step by step, over a segment that an earlier run may have
left behind. A worker that finds the old segment, or the new one before it is
initialised, is `stranded`, and the controller then waits for ever; `WorkGetsDone`
assumes that the second it sleeps was enough.

**ChatServer.** As in ControllerThreads `fds` gives out the lowest free number. `hears`
is the connection a blocked `recv` keeps although its descriptor was closed by a
broadcast and given out again. `send` may block on a client that is there and does not read
(`Block`, `stuck`), with the mutex held, until it reads or leaves (`Unblock`); nothing
makes it do either.

**RunQueue, RoundRobin.** The abstract scheduler serves the head of a sequence for one
quantum and puts it back at the end. The program's two queues link the same nodes by the
same field; `JobQueue` reads the job queue from head to tail along the links (`Along`). After
the last turn the ready queue is a circle, and `printReadyQueue` would not end, against
`roundRobinScheduling_Skeleton.c:8-14`; the models stop there.

**DoubleSequence, DoubleVector.** A vector is its `data`, `size` and `capacity`; what an
operation leaves behind the end stays in `data`. `Items` gives what a vector holds, or
`Junk` where it claims more than it has memory for, so that the refinement also says
there is room for every item. Failed allocations end the program (in `dv_init` the
result of `malloc` is not looked at).

**HashSearch.** The chains, with the search as one step per item and thread. `entered` is
a history variable: what `SearchComplete` compares the screen with.

**PidPrinter.** The critical section one character at a time, and the parent's waits.

**MCStandAlone.** The parts that share nothing (FloorTrip, Messages and the exercises)
side by side, so that one run and one state graph serve them all: `AllNext` lets one of
them run while the others are in their initial states and stay there (`Alone`,
`OthersStay`). Each module's own specification, fairness included, is what a behaviour of
`AllSpec` shows of the part that runs; no step combines two.

## 3. What is checked

Passing runs (TLC explores all reachable states):

| Run | Question | Bounds and why they are enough |
|---|---|---|
| `StandAlone` | Do the floor arithmetic, the framing of messages and the exercises keep what they promise? | see below |
| `CarModes` | Does the car keep its promises with everybody writing to the segment at once? Is every destination reached, do the doors close again, does emergency mode stop the car and let people out? | calls to B1 and 2, a trip of three steps (B1, 0, 1, 2) that crosses zero and has floors to stop short at; all seven commands at any time, `up` and `down` at B1; an obstruction byte of 0, 1 and the corrupt 2; the safety process; a pipe of one byte, so it fills at every report. The overload byte, which has the effect of the stop byte, is left to the proofs |
| `LinkFloors` | Is a floor that was received handed over, is every change reported, and is the car still a car? | two floors, one message in flight each way, a pipe of one byte, service mode, a peer that closes or resets at any moment, and reconnections. The safety process is left to the proofs |
| `DispatchTarget` | Do car and controller agree on where the car is to go? Is a floor ticked off only where the car has been? | two calls the same way, of which one may begin where the other ends, so they are inserted before, into and behind each other; one report in flight, which may be read at any later time; the close button at will; a controller that is restarted |
| `DispatchCalls` | Is everybody who was told of a car brought to where he wants to go? | two calls in opposite directions or alike over three floors, which interrupt each other and which no insertion cuts off; two instructions in flight |
| `ControllerCalls` | Do callers get an answer, and does the list of cars stay sound, while cars come and go and the program may be interrupted? | two cars, so two handlers can be in the list at once, one of which hangs up, and a call that one of them can take, so the walk passes over the other; three connections share three descriptors, and one is reused; two addresses, of which one may be given out twice |

Bounds of `StandAlone`: padded and plain texts from B4 to 5 and a car that runs from B3 to 4,
so trips cross zero in both directions and are refused outside; two writers, a header of two
units and bodies of one and three in a socket with room for three, so every frame is cut; two
producers and two consumers on two slots, or three of which one stays free; two producers and
one consumer without a lock, of which main joins one producer; three requests; three clients,
any of which may stop reading, for two descriptors and a table of one row, so the table is full
and numbers are reused while a broadcast runs; four jobs whose bursts are shorter than, equal
to, and longer than one and two quanta; vectors of up to three items that start with room for
one; three keys, two of which collide, in five buckets for two threads, which five does not
divide by; three children with lines of two characters.

What the properties of the controller leave out is named in them. `CallCarried` lets three
things end a call without success: `hasty`, a late or repeated report of an `Opening`, by which
the handler ticks off a floor of a newer call before the car is sent there again;
`RestsAtHead`, a car that stands for ever at the head of its queue, whose instruction
came while its wait timed out or its doors were open and is forgotten; and `Stands`, a
connection thread that has come to a stand. Whatever else happens, whoever was told of a car
rides in it: a floor that an insertion dropped would leave him waiting. `SafeTrips` are
trips for which no insertion drops one, which is the matter of `DispatchLostFloor`, and a
controller that goes away (`Restarts`) is left to `DispatchTarget`, as those it has answered
then wait in vain. `FloorHandedOver` likewise excepts the three ways in which the thread
comes to a stand (`Jammed`, `Hung`, the end of the program), each of which is a finding below
or plain in the code. `ThreadsEnd` is about behaviours in which every client that is there
reads in the end; one that never does stops all the others.

`Interrupted` bounds where the SIGINT of `ControllerCalls` may find the dispatcher: with the
list's mutex (`walking`), without any, and with a car in hand. With the call queue's mutex in
hand the SIGINT handler waits at the second mutex instead of the first.
`CHECK_DEADLOCK FALSE` appears where the system may
stop: the loop may block on the pipe, programs come to their end, and bounded channels
and a bounded number of calls do.

Violated runs, each a disagreement between the code and what it says of itself:

| Run | What TLC shows |
|---|---|
| `CarStop` | the safety process waits for the *next* broadcast; a `stop` pressed while it is outside its wait is not acted on until something else happens (`safety.c:213`, against `safety.c:220`). |
| `LinkStuck` | a full pipe blocks the loop inside `write` with the mutex held, and the reader waits for the mutex (`car.c:839`, against `car.c:560`). Reports pile up while no controller is there to connect to. |
| `DispatchLostFloor` | a call whose destination lies beyond the run of queued floors cuts off what follows its source, or is not linked itself (`controller.c:269`, against `controller.c:132`). |
| `LinkJoin` | after a change of mode the thread joins its monitor, which waits for the end of the connection behind a FLOOR message that nobody will read (`car.c:743`, against `car.c:669`). |
| `ListBroken` | the second unlock lets a car join the list while another leaves it: the newcomer is linked to the entry that is freed next, `malloc` gives that address to a third car, and its link closes a circle (`controller.c:170` and `177`, `582`, `447`, against `controller.c:66`). Three cars are needed for it; nobody is interrupted in this run. With one unlock the list stays sound. |
| `MessageCut` | when the connection ends in or before a header, the length is what was in the variable: an empty message, a failed allocation that is written through, or by luck NULL (`shared.h:119`, against `shared.h:112`). |

Other disagreements met while modelling, visible in the modules but not among the runs:

* `up` at B1 in service mode: the technician's arithmetic skips 0, the motor's does not,
  and service mode stops at the next floor. The car rests at the floor 0, which
  `shared.h:29` excludes.
* When a car hangs up, monitor and handler may both close its descriptor, and the
  second may hit a call program that was given the number meanwhile, which then waits
  for an answer in vain; a FLOOR message for the car that has gone may reach it as one.
  Either way one car that leaves at the wrong moment can end the controller, since a
  failed send exits.
* A floor typed as `01` passes both validators and is never reached: `move_floor`
  stops at the text `1`, the loop compares texts, and the car is Between for
  ever (`car.c:466`; `FloorTrip` states `TripArrives` for unpadded floors).
* A report read late may tick off a floor of a newer call, whose caller the car then passes
  by (`controller.c:534`; `hasty` in Dispatch).
* A write to a controller that has gone may end the car (`shared.h:74`) in place of a
  reconnection.
* Any broadcast that comes to a car at rest opens its doors, although `car.c:447`
  takes it for a destination equal to the current floor.
* A destination equal to the current floor, written while the wait times out, is
  forgotten (`car.c:189`); the head of the controller's queue is then never
  ticked off. `CallCarried` allows for it (`RestsAtHead`).
* A timeout in normal mode does not reset both buttons, as `car.c:165` says.
* A closed car with the open button pressed and a destination elsewhere reports
  Opening and leaves in the same iteration (`car.c:478-492`).
* `msgq.c` can overrun its buffer or wait for ever after the enter key; `buffer.c` joins
  threads by an index it never set; `shm_ipc.c` waits for ever for a worker that
  came too early; `server.c` serves a client it has no row for, who then hears nobody.

## 4. Fairness

`ElevatorCar`: the loop and its timer are weakly fair, for a thread inside a timed wait is
woken and the deadline comes; the reader of the pipe is weakly fair. The safety process is
strongly fair, because the mutex it needs is taken and released all the time and a waiter gets
it in the end. Technician, sensors and controller are not fair: nobody has to press anything.
`CarLink` asks for less of the loop (its timeouts only) and for strong fairness of the
connection thread and of the timeouts, because the mutex and the room in the pipe come and go,
weak fairness of the rest of an iteration and of the controller's reading, and strong fairness
of the monitor's message to the thread. `Dispatch` adds weak fairness of the controller's two
threads. `ControllerThreads` is strongly fair to every thread that takes a mutex and weakly to
the accept loop; its monitors owe nothing, for the handlers notice the end of a connection by
themselves. `CarLeaves` and `ListSound` except what follows once the second unlock has opened
the mutex under another thread, since after that nothing is certain about the list.

In the stand-alone parts every thread or process that can go on does (weak fairness per
thread), for nothing takes turns with it but the scheduler. The exceptions: in `ChatServer`
a thread at the end of its client's connection is strongly fair, since the mutex comes and
goes, a `send` is fair unless it is blocked on a client that is there, and clients owe
nothing, neither a name nor a message, nor that they read; in `SharedWorker` the two
processes alternate, so weak fairness of each is enough; in `SemaphoreBuffer` a
semaphore that is available to a thread may be taken by another, and weak fairness lets
that happen for ever, which `RemovalsGoOn` survives because it counts all threads' removals.
The user's keys, the calls and the ends of connections are never fair.
`ConditionBuffer`, `RoundRobin`, `DoubleVector`, `HashSearch` and `PidPrinter` have safety
properties only.

## 5. What is proved

For every value of the constants that the modules' assumptions allow: every range of
floors, set of call floors and trips, sensors, pipe capacity and bound on messages; every
set of cars, callers and descriptors; every number of producers, consumers, slots, clients,
children, threads, buckets and jobs.

Every safety property of the passing runs, refinements and action properties included, is
stated by one of these theorems:

| Module | Theorem | States |
|---|---|---|
| `ElevatorCarProofs` | `TypeCorrect` | `Spec => []TypeOK` |
| | `BetweenIsElsewhere` | `Spec => []BetweenMeansElsewhere` |
| | `EmergencyTravel` | `Spec => EmergencyNeverTravels` |
| | `TimedAndReported` | `Spec => ChangesAreTimedAndReported` |
| | `SafetyAnswers` | `Spec => SafetyLeavesSafeState` |
| | `ImplementsDoorCycle` | `Spec => KeepsDoorCycle` |
| `CarLinkProofs` | `LinkTypeCorrect` | `LinkSpec => []LinkTypeOK` |
| | `LinkImplementsCar` | `LinkSpec => IsElevatorCar` |
| | `ReportsReach` | `LinkSpec => []NothingForgotten` |
| `DispatchProofs` | `InsertType` | an insertion yields a well-formed queue that is not empty |
| | `DispatchTypeCorrect` | `DispatchSafety => []DispatchTypeOK` |
| | `AgreeOnTarget` | `DispatchSafety => []HeadIsTarget` |
| | `DispatchImplementsLink` | `DispatchSafety => IsCarLink` |
| | `DoneAfterVisit` | `DispatchSafety => DoneWhereTheCarWas` |
| `ControllerThreadsProofs` | `ThreadsTypeCorrect` | `Spec => []ThreadsTypeOK` |
| | `ListStaysSound` | `Spec => []ListSound` |
| `BufferProofs` | `NoSlotLost` | `SemSpec => []SlotsAccounted` |
| | `ImplementsBoundedBuffer` | `SemSpec => IsSemaphoreBuffer` |
| | `NeverAllAsleep` | `CondSpec => []SomebodyAwake` |
| | `ConditionBufferImplements` | `CondSpec => IsConditionBuffer` |
| `StandAloneProofs` | `NeverOutOfRange` | `TripSpec => []StaysInRange`, if the car's range is one |
| | `WholeAndInOrder` | `MessagesSpec => []ArriveInOrder` |
| | `SingleConsumer` | `MqSpec => []NeverUnderruns` |
| | `ResultsAreAnswers` | `WorkerSpec => []ResultsMatch` |
| | `RowsAreCleared` | `ChatSpec => []NoStaleRows` |
| | `LinesStayWhole` | `PrinterSpec => []LinesAreWhole` |
| `CollectionProofs` | `VectorsAreSequences` | `VectorsSpec => IsSequence` |
| | `SearchFindsAll` | `HashSpec => []SearchComplete` |
| | `TakesTurns` | `RoundRobinSpec => IsRoundRobin` |

**The car.** The inductive invariant adds to `TypeOK /\ BetweenMeansElsewhere` what is known
inside an iteration (`PassingOK`): a car that will leave has its doors closed or just told to
open, one that will open them has arrived. The refinement needs both: a step out of Between
must be the move of a car that has somewhere to go, or `Stop` would be a stutter in place, and
a phase that is passed through must lead to the next. One lemma per handler
(`HeldDoorsWakeStep`, `NormalTimeoutStep`, ...) shows that the handler preserves it;
`Invariance` puts them together. What a step does to status, timer and pipe is `StepShown`,
again shown branch by branch: a new status starts the timer and adds a byte, unless it is
replaced in the same iteration or it is the safety process that turns Closing into Opening, a
new floor adds a byte, the latest with the status that follows in the same iteration, and only
the connection thread takes bytes out.

**The connection.** Each step of CarLink is a step of the car or leaves the car's
variables alone. This needs the types, since the floor that is handed over
must be one the car may be called to. With `LinkImplementsCar` the theorems about the
car hold for the car with its connection, and with `DispatchImplementsLink` for the car
under its controller.

**Reports.** `NothingForgotten` speaks of the top of the connection's loop, but
`send_status` reads the status one step and sends it another. `ReportInv` adds
`CaptureHolds`: the text captured is the phase of now, or a byte that was written since
will have it sent again. Of the car the proof uses only `StepShown`.

**The controller.** `AgreeOnTarget` is the argument that matters most. The inductive
invariant is `DispatchInv`: the invariants of the car and its connection, the types,
`CarriesPassengers` (the modes stay off, so that a floor received is a floor handed over),
`EntryIsOnline` (an entry exists only while the thread is connected, so that a message to
the car does not end in the void) and `HeadIsTarget`. The steps that can disturb it
are an insertion, which sends the new head unless it is the old one, an arrival, which
sends the next floor, the reading of a message, the hand-over, and the loop, which
moves the destination in no mode but the others. The operators of FloorQueue choose the
*first* node with some property; by `LeastNat` there is a first one, `BlockRange` and
`FirstReachingRange` say where it lies, and from there `InsertType` what an insertion
returns.

**Arrivals.** `DoneAfterVisit` assumes nothing of when reports are read. `ReportsAreVisits`:
every report, sent or read, that shows the same floor twice shows a floor the car has rested at
as its destination. The model's `send_status` reads the two floors in one step; while the car
carries passengers only the thread that runs it writes the destination, so nothing could come
between. However late, torn in its status, or often it is read, a report of an arrival is
therefore one of a visit, and the controller that reads it is the one that was up at the time.

**The list of cars.** `ListStaysSound` has two inductive parts. `TypesHold` says that pointers
lead to addresses that were used, and a handler between joining and leaving has one. `SoundInv` is
about the time before the mutex was opened under somebody and before the SIGINT handler frees
everything (`Safe`): every handler's entry is allocated and nobody else's (`Own`), so that
`malloc` cannot give it out again; one thread at a time is in the list (`Exclusive`), which
the second unlock preserves just when nobody is; there is a sequence of different entries along
which the links run, and these are the entries of the cars that have joined and not left
(`Chain`); and a handler that is about to publish its entry has linked it to the
head (`Ready`). An entry that is published becomes the first of the sequence, one that is unlinked
is taken out of it, and nobody changes the links in between. The walk `Nth` of the
model is this sequence (the least counterexample), so it ends and meets just these entries.

**The trips.** `TripInv` adds to `StaysInRange` that the destination is in the car's range,
which is what `can_access_floors` has tested; `OneFloor` says what `move_floor` does.

**The messages.** `MessagesInv` says that there is one stream of units, the frames of `msgs`
one behind the other, of which `written` units have been written: what the sender still has
to write, what is in flight and what the receiver holds are pieces of it that follow one
another, and what was received are its first messages. The header the receiver
completes is therefore the header of the next message, and what it then collects that
message's body. `MessagesAssumption` asks for a header of at least one unit and for at
most one empty text, since an empty body does not tell whose it is. When the connection
ends the receiver ends with it; what was received stays as it is.

**The rings.** Both buffers share the arithmetic of DataLemmas: a ring whose one index is
`n` places ahead of the other holds a sequence of `n` items, a write at the one appends to
it (`RingPuts`), a step of the other takes its head (`RingGets`). For `buffer.c` the
invariant is `SemInv`: the types, `SlotsAccounted` (free, claimed, stored and given-back slots
add up to the size of the ring) and `PointersApart`. A producer that is about to copy is
itself counted, so there is a free slot for its copy, and `PointersApart` says that this is
the slot the pointer shows; likewise for a consumer. For `condition.c` the indices alone
tell how full it is, as one slot is always left free.

**The condition variables.** That not all threads sleep is not inductive: one must know who
is awake when. `CondInv` says that while there is room some producer is awake, and while
there is an item some consumer is. A thread that lies down does so when there is
nothing for its kind, and whoever changes that signals one of the kind; with more than one
slot one of the two conditions always holds.

**No lock at all.** `MqInv`: a single consumer that has seen `position > 0`, or loaded it, still
finds it so, for only consumers count down. With two consumers this fails, and
`NeverUnderruns` promises nothing then.

**The shared worker.** `WorkerInv` lists the four situations of a request that is waited for:
posted, in work, worked out, answered. In each the two semaphores and the worker's place are
determined; the result is the request's from the third on.

**The chat server.** `NoStaleRows` is inductive by itself once it is read as counting
(`NoStale`): for every descriptor there are at least as many threads that will clear a row
with this number as there are such rows. A thread clears one row of its number or finds
none; a client that gets no row still gets a thread.

**The printers.** `PrinterInv`: whoever prints has the semaphore, the buffer shows his name, and
the screen ends in what he has printed of his line, behind whole lines. When the semaphore
is free there are only whole lines.

**The vectors.** `VectorsInv`: the memory is as long as `capacity` says and `size` is not more.
Each operation then does to `Items` what the abstract one does to its sequence.

**The hash table.** `HashInv` has three parts: the chains hold the entries, each once and in
the bucket of its key; the threads' shares are intervals that cover the buckets and do not
overlap, and each cursor is in its share; on the screen is what some cursor has passed,
once (`SharesApart`, `SharesCover`). A search that is over has passed everything.

**The scheduler.** The job queue and the ready queue use one link per node, and `RRInv` says
why this does no harm to the first: there is a list of different nodes along which the job
queue's links run, and the ready queue's tail, whose link an insertion overwrites, is none of
its nodes but perhaps the last, whose link the job queue does not use. That such a list is what
`JobQueue` reads is `WalkGivesList`.

**Recursive functions.** The induction theorems of the library cannot be instantiated by
the provers here, as they take an operator. Where an induction over numbers is needed
(that a function defined by recursion exists and keeps its equations, that walks and
streams agree) it is done by the least counterexample (`LeastNat`); `BeginningsAgree` and
`IterationExists` are the cases used.

Only model-checked, as liveness is out of the prover's reach: `CallServed`, `DoorsCloseAgain`,
`EmergencyStopsCar`, `TrappedPassengerCanLeave`, `FloorHandedOver`, `CallCarried`,
`CallAnswered`, `CarLeaves`, `TripArrives`, `Delivered`, `RemovalsGoOn`, `EnterStops`,
`WorkGetsDone` and `ThreadsEnd`; and the properties that are refuted.

## 6. How to run

    tlc -workers 2 -config CarModes.cfg MCElevatorCar
    tlc -workers 2 -config ControllerCalls.cfg MCControllerThreads
    tlc -workers 2 -config StandAlone.cfg MCStandAlone
    tlapm ElevatorCarProofs.tla         (likewise the other modules of section 5)

The largest, `DispatchTarget`, has 1.7 million states. `DispatchCalls`, `StandAlone`,
`LinkFloors`, `CarModes` and `ControllerCalls`, which check liveness, take two to three minutes
each.

## 7. What is not modelled

* Threads and queues at once: `Dispatch` has one car and the threads' sections atomic,
  `ControllerThreads` has the threads without the queues.
* A failed `malloc` or `pthread_create` in the elevator system, and running out of
  descriptors there. A worker of `shm_ipc.c` whose own mapping fails.
* A text that is read while it is written: `send_status` reads the status, and then the floors,
  whole.
* A message cut in two and the controller that gets it at once: `Messages` has the framing,
  `ControllerThreads` the three outcomes of a failed receive.
* `init_shm`, `mmap`, argument parsing, `printf`, and `test.py`, which runs the programs.
* Floor texts longer than three characters.
* `week4/.../shm_reverse_array.c`: the child fills the array, the parent waits for it and
  then reads; no two steps can swap.
* The chat client, the small socket servers of week 8, the pipe and PIN programs of
  weeks 3 and 12 and the first steps in C: input, output and an end, with no state to
  get wrong.

## 8. Plan

1. *Several cars with queues*: Dispatch with a set of cars and the choice of the newest
   entry that reaches both floors.
2. *What carries over*: the theorems about one car for each of several.
3. *One unlock*: that without the second unlock `broken` stays false, and with it `ListSound`
   without its exception, as a theorem about the variant of the program.
