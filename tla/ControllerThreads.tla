------------------------- MODULE ControllerThreads -------------------------
(***************************************************************************)
(* The controller as a process of many threads: the accept loop, a handler *)
(* per connection, a monitor per car, the dispatcher in the main thread    *)
(* and the SIGINT handler that interrupts it.  They share the list of      *)
(* cars, the call queue and the table of descriptors.                      *)
(*                                                                         *)
(* What a call does to a car's floor queue is Dispatch's matter; here a    *)
(* message is sent or not, and a report is read or not.  The entries of    *)
(* the list are addresses, which malloc may hand out again once they are   *)
(* freed, whoever still points to them.                                    *)
(***************************************************************************)
EXTENDS Naturals, Sequences, FiniteSets

CONSTANTS
    Cars,       \* the connections of cars; a car that reconnects is another one
    Callers,    \* the connections of call programs
    Reaches,    \* the <<car, caller>> for which can_access_floors holds
    Leavers,    \* the peers that may hang up
    Interrupted,    \* bound: where the signal may find the main thread
    Nobody      \* the owner of a free descriptor, and of an address never used

Peers == Cars \cup Callers
Descriptors == 1 .. Cardinality(Peers)     \* enough: each peer connects once
Entries == 1 .. Cardinality(Cars)          \* addresses of entries: each car takes one
NULL    == 0

ASSUME ThreadsAssumption ==
    /\ IsFiniteSet(Peers) /\ Cars \cap Callers = {}
    /\ Reaches \subseteq Cars \X Callers /\ Leavers \subseteq Peers
    /\ Nobody \notin Peers
    /\ Peers \cap ({<<"main">>, <<"signal">>} \cup {<<"monitor", c>> : c \in Cars}) = {}

VARIABLES
    peer,       \* the other end: "up", "gone" (it hung up) or "cut" (it was cut off)
    answer,     \* what a call program was told
    fds,        \* the kernel's table of descriptors
    fd,         \* the conn_fd that the threads of a connection keep, 0 at first
    place,      \* where each thread is
    connected,  \* the flag on the stack of a car's handler
    entry,      \* new_car of a car's handler
    holds,      \* the car whose name, floors and conn_fd an entry was filled with last
    allocated,  \* the entries that malloc gave out and free() did not take back
    queued,     \* the entries whose floor queue may have a floor
    head, next, \* car_list_head and the links of the entries
    locked,     \* car_list_mutex
    broken,     \* history: the mutex was opened while another thread held it
    calls,      \* call_queue_head
    call, at,   \* current_call of the dispatcher and current_car of select_best_car
    fate        \* "running", "exited" or "crashed"

netVars  == <<peer, answer, fds, fd>>
memVars  == <<entry, holds, allocated, queued>>
listVars == <<head, next, locked, broken>>
callVars == <<calls, call, at>>
vars == <<netVars, place, connected, memVars, listVars, callVars, fate>>

Monitor(c) == <<"monitor", c>>
Threads == Peers \cup {Monitor(c) : c \in Cars} \cup {<<"main">>, <<"signal">>}
Main    == <<"main">>       \* elevator_control_loop
Signal  == <<"signal">>     \* sigint_handler

Places == {"none", "over"}
    \cup {"greeting", "robbed", "entering", "joining", "receiving", "leaving", "unlinking", "closing"}
    \cup {"watching"}
    \cup {"locking", "looking", "waiting", "selecting", "walking", "unlocking",
          "assigning", "answering", "refusing"}
    \cup {"cars", "calls"}

At(thread, here) == place[thread] = here
To(thread, there) == place' = [place EXCEPT ![thread] = there]
GoesOn(thread, here, there) == At(thread, here) /\ To(thread, there)

\* The main thread stands still once the signal has interrupted it.
Dispatches(here, there) == At(Signal, "none") /\ GoesOn(Main, here, there)

ThreadsTypeOK ==
    /\ peer \in [Peers -> {"up", "gone", "cut"}]
    /\ answer \in [Callers -> {"none", "CAR", "UNAVAILABLE"}]
    /\ fds \in [Descriptors -> Peers \cup {Nobody}]
    /\ fd \in [Peers -> Descriptors \cup {0}]
    /\ place \in [Threads -> Places]
    /\ connected \in [Cars -> BOOLEAN]
    /\ entry \in [Cars -> Entries \cup {NULL}] /\ holds \in [Entries -> Cars \cup {Nobody}]
    /\ allocated \subseteq Entries /\ queued \subseteq Entries
    /\ head \in Entries \cup {NULL} /\ next \in [Entries -> Entries \cup {NULL}]
    /\ locked \in BOOLEAN /\ broken \in BOOLEAN
    /\ calls \in Seq(Callers) /\ call \in Callers \cup {Nobody} /\ at \in Entries \cup {NULL}
    /\ fate \in {"running", "exited", "crashed"}
    /\ place[Main] \in {"unlocking", "assigning", "answering"} => at # NULL     \* a car was found
    /\ at # NULL => holds[at] # Nobody

Init ==
    /\ peer = [p \in Peers |-> "up"] /\ answer = [p \in Callers |-> "none"]
    /\ fds = [f \in Descriptors |-> Nobody] /\ fd = [p \in Peers |-> 0]
    /\ place = [t \in Threads |-> IF t = Main THEN "locking" ELSE "none"]
    /\ connected = [c \in Cars |-> FALSE]
    /\ entry = [c \in Cars |-> NULL] /\ holds = [e \in Entries |-> Nobody]
    /\ allocated = {} /\ queued = {}
    /\ head = NULL /\ next = [e \in Entries |-> NULL] /\ locked = FALSE /\ broken = FALSE
    /\ calls = <<>> /\ call = Nobody /\ at = NULL
    /\ fate = "running"

-----------------------------------------------------------------------------
(* Connections, descriptors and messages.                                  *)

Ended(p) == p \in Peers /\ peer[p] \in {"gone", "cut"}

\* A connection that is shut down from this side is over for the other.
Shutdown(f) ==
    peer' = IF fds[f] # Nobody /\ peer[fds[f]] = "up" THEN [peer EXCEPT ![fds[f]] = "cut"] ELSE peer

Close(f) == Shutdown(f) /\ fds' = [fds EXCEPT ![f] = Nobody]

\* A call program takes the first message for the answer, whatever it is (call.c:72).
Send(f, text) ==
    /\ fds[f] # Nobody
    /\ answer' = IF fds[f] \in Callers /\ peer[fds[f]] = "up" /\ answer[fds[f]] = "none"
                 THEN [answer EXCEPT ![fds[f]] = text] ELSE answer

HangUp(p) ==
    /\ peer[p] = "up" /\ peer' = [peer EXCEPT ![p] = "gone"]
    /\ UNCHANGED <<answer, fds, fd, place, connected, memVars, listVars, callVars, fate>>

\* A peer connects and is accepted; it may have hung up in between.  The kernel gives
\* out the lowest free descriptor.
Accept(p) ==
    /\ At(Signal, "none")
    /\ GoesOn(p, "none", "greeting")
    /\ \E f \in Descriptors :
          /\ fds[f] = Nobody /\ \A g \in 1 .. f - 1 : fds[g] # Nobody
          /\ fds' = [fds EXCEPT ![f] = p]
          /\ fd' = [fd EXCEPT ![p] = f]
    /\ UNCHANGED <<peer, answer, connected, memVars, listVars, callVars, fate>>

-----------------------------------------------------------------------------
(* The end of the process, which takes everything with it.                 *)

Ends(how) ==
    /\ fate' = how
    /\ peer' = [p \in Peers |-> IF peer[p] = "up" THEN "cut" ELSE peer[p]]
    /\ place' = [t \in Threads |-> "over"]
    /\ fds' = [f \in Descriptors |-> Nobody] /\ fd' = [p \in Peers |-> 0]
    /\ connected' = [c \in Cars |-> FALSE]
    /\ entry' = [c \in Cars |-> NULL] /\ holds' = [e \in Entries |-> Nobody]
    /\ allocated' = {} /\ queued' = {}
    /\ head' = NULL /\ next' = [e \in Entries |-> NULL] /\ locked' = FALSE /\ broken' = FALSE
    /\ calls' = <<>> /\ call' = Nobody /\ at' = NULL
    /\ UNCHANGED answer

AcceptFails_Returns == FALSE

\* accept() fails once the SIGINT handler has shut the listening socket.
AcceptFails == place[Signal] \in {"cars", "calls"} /\ Ends("exited")

\* send_message exits when write() fails: on a free descriptor always, on a connection
\* that has ended as soon as the network has noticed.
Unsendable(f) == fds[f] = Nobody \/ Ended(fds[f])

SendFails ==
    /\ At(Signal, "none")
    /\ \E p \in Peers :
          /\ \/ At(Main, "assigning") /\ p = holds[at]
             \/ place[Main] \in {"answering", "refusing"} /\ p = call
          /\ Unsendable(fd[p])
    /\ Ends("exited")

\* receive_msg goes on with a length it never read, and gives NULL to strncmp.
ReceiveCrashes ==
    \E p \in Peers : place[p] \in {"greeting", "robbed", "receiving"} /\ Ended(p)

-----------------------------------------------------------------------------
(* The handler of a connection.                                            *)

GreetCaller_Quietly(p) ==
    /\ GoesOn(p, "greeting", "over") /\ fds[fd[p]] = p /\ ~At(Main, "looking")
    /\ calls' = Append(calls, p)
    /\ UNCHANGED <<netVars, connected, memVars, listVars, call, at, fate>>

\* The call is queued and the dispatcher, if it waits, is signalled.  Only the
\* dispatcher holds call_queue_mutex from one step to the next.
GreetCaller(p) ==
    /\ At(p, "greeting") /\ fds[fd[p]] = p /\ ~At(Main, "looking")
    /\ place' = [place EXCEPT ![p] = "over", ![Main] = IF @ = "waiting" THEN "locking" ELSE @]
    /\ calls' = Append(calls, p)
    /\ UNCHANGED <<netVars, connected, memVars, listVars, call, at, fate>>

\* The connection ended before its greeting was read.
GreetFails(p) ==
    /\ place[p] \in {"greeting", "robbed"} /\ Ended(p)
    /\ Close(fd[p]) /\ To(p, "over")
    /\ UNCHANGED <<answer, fd, connected, memVars, listVars, callVars, fate>>

\* malloc() may hand out an address it has had back; those it never had are alike.
Malloc == {e \in Entries \ allocated :
              holds[e] # Nobody \/ \A d \in 1 .. e - 1 : holds[d] # Nobody}

\* A car's greeting and first report are read and its entry is filled in.
Allocate(c) ==
    /\ GoesOn(c, "greeting", "entering") /\ fds[fd[c]] = c
    /\ \E e \in Malloc :
          /\ entry' = [entry EXCEPT ![c] = e] /\ holds' = [holds EXCEPT ![e] = c]
          /\ allocated' = allocated \cup {e} /\ UNCHANGED queued
          /\ next' = [next EXCEPT ![e] = NULL]
    /\ UNCHANGED <<netVars, connected, head, locked, broken, callVars, fate>>

Join_HeadFirst(c) ==
    /\ GoesOn(c, "entering", "joining") /\ ~locked
    /\ locked' = TRUE
    /\ head' = entry[c] /\ next' = [next EXCEPT ![entry[c]] = head']
    /\ UNCHANGED <<netVars, connected, memVars, broken, callVars, fate>>

\* The two assignments that put the entry in front of the list are two steps.
Join(c) ==
    /\ GoesOn(c, "entering", "joining") /\ ~locked
    /\ locked' = TRUE
    /\ next' = [next EXCEPT ![entry[c]] = head]
    /\ UNCHANGED <<netVars, connected, memVars, head, broken, callVars, fate>>

Publish(c) ==
    /\ At(c, "joining")
    /\ place' = [place EXCEPT ![c] = "receiving", ![Monitor(c)] = "watching"]
    /\ head' = entry[c] /\ locked' = FALSE
    /\ connected' = [connected EXCEPT ![c] = TRUE]
    /\ UNCHANGED <<netVars, memVars, next, broken, callVars, fate>>

\* Reports are read as long as they come.  Then receive_msg returns NULL, and the
\* descriptor is closed whatever `connected' says; or it returns a text that is no
\* report, or `connected' is found cleared.
ReceiveFails(c) ==
    /\ Ended(c) /\ GoesOn(c, "receiving", "leaving")
    /\ \/ Close(fd[c]) /\ connected' = [connected EXCEPT ![c] = FALSE]
       \/ UNCHANGED <<peer, fds, connected>>
    /\ UNCHANGED <<answer, fd, memVars, listVars, callVars, fate>>

\* The monitor closed the descriptor and it was given to another connection: the
\* handler takes that one's report for its car's, or swallows its greeting.
ReceiveOther(c) ==
    /\ At(c, "receiving")
    /\ \E other \in Peers \ {c} :
          /\ fds[fd[c]] = other /\ peer[other] = "up"
          /\ \/ /\ At(other, "greeting")
                /\ place' = [place EXCEPT ![c] = "leaving", ![other] = "robbed"]
             \/ other \in Cars /\ ~At(other, "greeting") /\ To(c, "leaving")
    /\ UNCHANGED <<netVars, connected, memVars, listVars, callVars, fate>>

\* A report that ticks a floor off is answered with the next one, on whatever the
\* descriptor stands for by then.
TellsNext(c) ==
    /\ At(c, "receiving") /\ entry[c] \in queued
    /\ Send(fd[c], "UNAVAILABLE")
    /\ UNCHANGED <<peer, fds, fd, place, connected, memVars, listVars, callVars, fate>>

TellFails(c) ==
    /\ At(c, "receiving") /\ entry[c] \in queued
    /\ Unsendable(fd[c])
    /\ Ends("exited")

Leave(c) ==
    /\ ~locked /\ locked' = TRUE
    /\ GoesOn(c, "leaving", "unlinking")
    /\ UNCHANGED <<netVars, connected, memVars, head, next, broken, callVars, fate>>

\* The list as a walk from its head meets it.
Nth[n \in Nat] == IF n = 0 THEN head ELSE IF Nth[n - 1] = NULL THEN NULL ELSE next[Nth[n - 1]]
Listed   == {Nth[n] : n \in 0 .. Cardinality(Cars)} \ {NULL}
WalkEnds == Nth[Cardinality(Cars)] = NULL

Unlink_HeadOnly(c) ==
    /\ GoesOn(c, "unlinking", "closing")
    /\ head' = IF head = entry[c] THEN next[entry[c]] ELSE head
    /\ locked' = FALSE
    /\ UNCHANGED <<netVars, connected, memVars, next, broken, callVars, fate>>

\* The first pointer to the entry skips it.  An entry that is not found is left alone;
\* in a list without an end it is sought for ever.
Unlink(c) ==
    /\ GoesOn(c, "unlinking", "closing")
    /\ entry[c] \in Listed \/ WalkEnds
    /\ head' = IF head = entry[c] THEN next[entry[c]] ELSE head
    /\ next' = [d \in Entries |->
                   IF \E n \in 1 .. Cardinality(Cars) :
                         /\ Nth[n] = entry[c] /\ Nth[n - 1] = d
                         /\ \A k \in 0 .. n - 1 : Nth[k] # entry[c]
                   THEN next[entry[c]] ELSE next[d]]
    /\ locked' = FALSE
    /\ UNCHANGED <<netVars, connected, memVars, broken, callVars, fate>>

\* The connection is closed if it still counts as connected, and the entry freed.
CleanUp(c) ==
    /\ GoesOn(c, "closing", "over")
    /\ IF connected[c] THEN Close(fd[c]) ELSE UNCHANGED <<peer, fds>>
    /\ connected' = [connected EXCEPT ![c] = FALSE]
    /\ allocated' = allocated \ {entry[c]} /\ queued' = queued \ {entry[c]}
    /\ entry' = [entry EXCEPT ![c] = NULL]
    /\ UNCHANGED <<answer, fd, holds, listVars, callVars, fate>>

-----------------------------------------------------------------------------
(* The monitor of a car's connection.                                      *)

\* What it finds in `connected', whose stack may have gone with the handler.
Flag(c) == IF At(c, "over") THEN BOOLEAN ELSE {connected[c]}

\* poll() and recv() tell a connection that was reset, or is shut on both sides or closed,
\* from one that only the car has closed; only the latter's descriptor is closed.
Monitors(c) ==
    /\ Ended(c) /\ GoesOn(Monitor(c), "watching", "over")
    /\ \E flag \in Flag(c) :
          \/ ~flag /\ UNCHANGED <<peer, fds>>
          \/ flag /\ peer[c] = "gone" /\ Close(fd[c])
          \/ flag /\ Shutdown(fd[c]) /\ UNCHANGED fds
    /\ connected' = [connected EXCEPT ![c] = FALSE]
    /\ UNCHANGED <<answer, fd, memVars, listVars, callVars, fate>>

-----------------------------------------------------------------------------
(* elevator_control_loop and select_best_car.                              *)

LockCalls ==
    /\ Dispatches("locking", "looking")
    /\ UNCHANGED <<netVars, connected, memVars, listVars, callVars, fate>>

TakeCall ==
    /\ IF calls = <<>>
       THEN Dispatches("looking", "waiting") /\ UNCHANGED <<calls, call>>
       ELSE Dispatches("looking", "selecting") /\ call' = Head(calls) /\ calls' = Tail(calls)
    /\ UNCHANGED <<netVars, connected, memVars, listVars, at, fate>>

LockList ==
    /\ ~locked /\ locked' = TRUE
    /\ Dispatches("selecting", "walking") /\ at' = head
    /\ UNCHANGED <<netVars, connected, memVars, head, next, broken, calls, call, fate>>

\* One round of the loop in select_best_car, or its end.
Walk ==
    /\ \/ /\ at # NULL /\ <<holds[at], call>> \notin Reaches
          /\ Dispatches("walking", "walking") /\ at' = next[at] /\ UNCHANGED locked
       \/ /\ at # NULL /\ <<holds[at], call>> \in Reaches
          /\ Dispatches("walking", "unlocking") /\ locked' = FALSE /\ UNCHANGED at
       \/ /\ at = NULL
          /\ Dispatches("walking", "refusing") /\ locked' = FALSE /\ UNCHANGED at
    /\ UNCHANGED <<netVars, connected, memVars, head, next, broken, calls, call, fate>>

\* The second unlock, after the loop: it opens the mutex whoever holds it.
UnlockAgain ==
    /\ Dispatches("unlocking", "assigning")
    /\ locked' = FALSE /\ broken' = (broken \/ locked)
    /\ UNCHANGED <<netVars, connected, memVars, head, next, callVars, fate>>

\* The floors are inserted, and the car is told if its next floor has changed.
Assign ==
    /\ Dispatches("assigning", "answering")
    /\ queued' = queued \cup {at}
    /\ UNCHANGED answer \/ Send(fd[holds[at]], "UNAVAILABLE")
    /\ UNCHANGED <<peer, fds, fd, connected, entry, holds, allocated, listVars, callVars, fate>>

Answer ==
    /\ \/ Dispatches("answering", "locking") /\ Send(fd[call], "CAR")
       \/ Dispatches("refusing", "locking") /\ Send(fd[call], "UNAVAILABLE")
    /\ Close(fd[call])
    /\ call' = Nobody /\ at' = NULL
    /\ UNCHANGED <<fd, connected, memVars, listVars, calls, fate>>

-----------------------------------------------------------------------------
(* sigint_handler.  The signal goes to the main thread.                    *)

Interrupt ==
    /\ place[Main] \in Interrupted
    /\ GoesOn(Signal, "none", "cars")
    /\ UNCHANGED <<netVars, connected, memVars, listVars, callVars, fate>>

\* Every entry is closed and freed, whatever its handler is doing.
InterruptCars ==
    /\ ~locked /\ WalkEnds
    /\ GoesOn(Signal, "cars", "calls")
    /\ LET closed == {fd[holds[e]] : e \in Listed} IN
          /\ fds' = [f \in Descriptors |-> IF f \in closed THEN Nobody ELSE fds[f]]
          /\ peer' = [p \in Peers |-> IF peer[p] = "up" /\ \E f \in closed : fds[f] = p
                                      THEN "cut" ELSE peer[p]]
    /\ allocated' = allocated \ Listed /\ head' = NULL
    /\ UNCHANGED <<answer, fd, connected, entry, holds, queued, next, locked, broken, callVars, fate>>

InterruptCalls == At(Signal, "calls") /\ ~At(Main, "looking") /\ Ends("exited")

\* A thread reads, writes or frees an entry that was freed.  It may go unnoticed.
UsesFreed ==
    \/ place[Main] \in {"walking", "assigning"} /\ at \notin allocated \cup {NULL}
    \/ \E c \in Cars :
          \/ /\ place[c] \in {"entering", "joining", "receiving", "unlinking", "closing"}
             /\ entry[c] \notin allocated
          \/ At(c, "unlinking") /\ ~(Listed \subseteq allocated)
    \/ At(Signal, "cars") /\ ~(WalkEnds /\ Listed \subseteq allocated)

Crash == (UsesFreed \/ ReceiveCrashes) /\ Ends("crashed")

-----------------------------------------------------------------------------
Outside    == (\E p \in Leavers : HangUp(p)) \/ Interrupt
Accepts    == (\E p \in Peers : Accept(p)) \/ AcceptFails
HandlesCar(c) ==
    \/ GreetFails(c) \/ Allocate(c) \/ Join(c) \/ Publish(c)
    \/ ReceiveFails(c) \/ ReceiveOther(c) \/ TellsNext(c) \/ TellFails(c)
    \/ Leave(c) \/ Unlink(c) \/ CleanUp(c)
HandlesCall(p) == GreetCaller(p) \/ GreetFails(p)
DispatcherRuns ==
    LockCalls \/ TakeCall \/ LockList \/ Walk \/ UnlockAgain \/ Assign \/ Answer \/ SendFails
CleansUp  == InterruptCars \/ InterruptCalls

\* A process that has ended has no thread left to take a step.
Next ==
    \/ Outside \/ Accepts \/ DispatcherRuns \/ CleansUp \/ Crash
    \/ \E c \in Cars : HandlesCar(c) \/ Monitors(c)
    \/ \E p \in Callers : HandlesCall(p)

\* Every thread runs, and gets a mutex that is free again and again; monitors need not.
Spec ==
    /\ Init /\ [][Next]_vars
    /\ WF_vars(Accepts)
    /\ SF_vars(DispatcherRuns)
    /\ \A c \in Cars : SF_vars(HandlesCar(c))
    /\ \A p \in Callers : SF_vars(HandlesCall(p))

-----------------------------------------------------------------------------
\* The threads that hold the mutex of the list, or believe they do, have it in order: as
\* long as the second unlock has not opened it under one of them, and the SIGINT handler
\* has not freed everything, the list has an end, and consists of the entries of the cars
\* whose handlers are between joining and leaving (controller.c:66, 166, 473, 556).
Joined    == {c \in Cars : place[c] \in {"receiving", "leaving", "unlinking"}}
ListSound ==
    ~broken /\ ~At(Signal, "calls") =>
        /\ WalkEnds
        /\ Listed = {entry[c] : c \in Joined}
        /\ Listed \subseteq allocated

\* While nobody hangs up, everybody who calls is answered or sees the process end: no
\* signal is lost between handler and dispatcher (controller.c:115, 419), and an
\* interrupt ends the process even where the SIGINT handler waits for a mutex that its
\* own thread holds, because the accept loop exits (controller.c:341-344, 653).
CallAnswered ==
    \A p \in Callers :
        (peer[p] = "up") ~>
            (answer[p] # "none" \/ (\E q \in Peers : peer[q] = "gone") \/ fate # "running")

\* A car that hangs up leaves the list, unless the second unlock has opened the mutex
\* under another thread (controller.c:556-565).
CarLeaves ==
    \A c \in Cars \cap Leavers :
        (peer[c] = "gone" /\ c \in Joined) ~>
            ((\A e \in Listed : holds[e] # c) \/ broken \/ fate # "running")

\* controller.c:66: the mutexes are there "so the linked lists can't be broken".
ListUnbroken == At(Signal, "none") => WalkEnds
=============================================================================
