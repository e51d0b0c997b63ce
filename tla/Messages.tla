------------------------------ MODULE Messages ------------------------------
(***************************************************************************)
(* Length-prefixed messages over a stream socket: send_message and         *)
(* receive_msg of shared.h, with two threads of the controller that send   *)
(* to the same car (elevator_control_loop and handle_car_connection) and   *)
(* the car's thread that receives.                                         *)
(*                                                                         *)
(* A message travels as units: a header of HeaderSize of them, then its    *)
(* body.  A unit is a pair <<message, place in its frame>>.  write() takes *)
(* and read() gives any number of units but zero, so a call may stop in    *)
(* the middle of a header or body.                                         *)
(***************************************************************************)
EXTENDS Naturals, Sequences, SequencesExt

CONSTANTS
    Writers,        \* the threads that send
    Contents,         \* the messages
    BodySize,       \* [Contents -> Nat], strlen of each
    HeaderSize,     \* sizeof(uint32_t)
    SocketRoom,     \* bound: units in flight
    MaxMessages     \* bound: messages sent

ASSUME MessagesAssumption ==
    /\ BodySize \in [Contents -> Nat]
    /\ \A s, t \in Contents : BodySize[s] = 0 /\ BodySize[t] = 0 => s = t    \* one text is empty
    /\ HeaderSize \in Nat \ {0} /\ SocketRoom \in Nat \ {0} /\ MaxMessages \in Nat

VARIABLES
    connection,     \* "off", "up", "down"; "exited": and the sending program too
    toWrite,        \* per writer, the units it has still to write
    wire,           \* the units in flight
    receiver,       \* "header", "body" or "ended"
    got,            \* the units read of the present header or body
    length,         \* of the present message
    sent, received, \* history: what was sent and what receive_msg returned
    ending          \* what receive_msg returned at the end of the connection

senderVars   == <<toWrite, sent>>
receiverVars == <<receiver, got, length, received, ending>>
messageVars  == <<connection, wire, senderVars, receiverVars>>

Body(text)  == [i \in 1 .. BodySize[text] |-> <<text, HeaderSize + i>>]
Frame(text) == [i \in 1 .. HeaderSize |-> <<text, i>>] \o Body(text)

MessagesInit ==
    /\ connection = "off"
    /\ toWrite = [w \in Writers |-> <<>>]
    /\ wire = <<>>
    /\ receiver = "header" /\ got = <<>> /\ length = 0
    /\ sent = <<>> /\ received = <<>> /\ ending = "none"

Connects == connection = "off" /\ connection' = "up" /\ UNCHANGED <<wire, senderVars, receiverVars>>

\* Either side closes or dies; what is in flight may or may not be lost with it.
Breaks ==
    /\ connection = "up" /\ connection' = "down"
    /\ wire' \in {wire, <<>>}
    /\ UNCHANGED <<senderVars, receiverVars>>

-----------------------------------------------------------------------------
(* send_message, by a thread that holds the queue_mutex of the car.        *)

Sending == {w \in Writers : toWrite[w] # <<>>}

Begin_Unlocked(w, text) ==
    /\ connection \in {"up", "down"} /\ toWrite[w] = <<>>
    /\ Len(sent) + Cardinality(Sending) < MaxMessages
    /\ toWrite' = [toWrite EXCEPT ![w] = Frame(text)]
    /\ UNCHANGED <<connection, wire, sent, receiverVars>>

Begin(w, text) ==
    /\ connection \in {"up", "down"} /\ Sending = {}
    /\ Len(sent) < MaxMessages
    /\ toWrite' = [toWrite EXCEPT ![w] = Frame(text)]
    /\ UNCHANGED <<connection, wire, sent, receiverVars>>

\* The header or the body of the frame that units are the rest of.
Part(units) ==
    LET body == BodySize[units[1][1]]
    IN  IF Len(units) > body THEN Len(units) - body ELSE Len(units)

\* One turn of send_looped: a call of write().
Write(w, n) ==
    /\ connection = "up" /\ w \in Sending
    /\ n <= Part(toWrite[w]) /\ Len(wire) + n <= SocketRoom
    /\ wire' = wire \o SubSeq(toWrite[w], 1, n)
    /\ toWrite' = [toWrite EXCEPT ![w] = SubSeq(@, n + 1, Len(@))]
    /\ sent' = IF toWrite'[w] = <<>> THEN Append(sent, toWrite[w][1][1]) ELSE sent
    /\ UNCHANGED <<connection, receiverVars>>

\* A failed write ends the program.
WriteFails(w) ==
    /\ connection = "down" /\ w \in Sending
    /\ connection' = "exited"
    /\ toWrite' = [v \in Writers |-> <<>>]
    /\ UNCHANGED <<wire, sent, receiverVars>>

-----------------------------------------------------------------------------
(* receive_msg.                                                            *)

\* A receiver that waits for the zero behind the text, which nobody sends.
Wanted_Terminated == (IF receiver = "header" THEN HeaderSize ELSE length + 1) - Len(got)

\* How much the present header or body still lacks.
Wanted == (IF receiver = "header" THEN HeaderSize ELSE length) - Len(got)

\* A header whose units belong together holds the length; any other means anything.
Lengths(header) ==
    {BodySize[t] : t \in {u \in Contents : header = SubSeq(Frame(u), 1, HeaderSize)}}

Decoded(header) == IF Lengths(header) # {} THEN Lengths(header) ELSE 0 .. SocketRoom

\* The text of a body, or what no sender ever wrote.
TextOf(body) == LET texts == {t \in Contents : body = Body(t)}
                IN  IF texts # {} THEN CHOOSE t \in texts : TRUE ELSE "garbled"

\* What a complete header or body leads to.
TakeHeader(header) ==
    /\ receiver' = "body" /\ got' = <<>>
    /\ length' \in Decoded(header)
    /\ UNCHANGED <<received, ending>>

TakeBody(body) ==
    /\ receiver' = "header" /\ got' = <<>> /\ length' = 0
    /\ received' = Append(received, TextOf(body))
    /\ UNCHANGED ending

\* A read that is taken for all of the header or body.
Read_Once(n) ==
    /\ receiver # "ended"
    /\ n <= Wanted /\ n <= Len(wire)
    /\ wire' = SubSeq(wire, n + 1, Len(wire))
    /\ LET units == got \o SubSeq(wire, 1, n)
       IN  IF receiver = "header" THEN TakeHeader(units) ELSE TakeBody(units)
    /\ UNCHANGED <<connection, senderVars>>

\* One turn of recv_looped: a call of read().  (An empty body needs none.)
Read(n) ==
    /\ receiver # "ended"
    /\ n <= Wanted /\ n <= Len(wire)
    /\ wire' = SubSeq(wire, n + 1, Len(wire))
    /\ LET units == got \o SubSeq(wire, 1, n)
       IN  IF n < Wanted
           THEN got' = units /\ UNCHANGED <<receiver, length, received, ending>>
           ELSE IF receiver = "header" THEN TakeHeader(units) ELSE TakeBody(units)
    /\ UNCHANGED <<connection, senderVars>>

\* The failure of a header is not looked at: whatever the variable holds is taken for
\* the length, which may be zero, or more than malloc gives.
Disconnected ==
    /\ receiver # "ended" /\ connection \in {"down", "exited"} /\ wire = <<>> /\ Wanted > 0
    /\ receiver' = "ended"
    /\ ending' \in IF receiver = "header" THEN {"NULL", "empty", "crash"} ELSE {"NULL"}
    /\ UNCHANGED <<connection, wire, senderVars, got, length, received>>

-----------------------------------------------------------------------------
WriterStep(w) == WriteFails(w) \/ \E n \in 1 .. SocketRoom : Write(w, n)
ReaderStep    == Disconnected \/ \E n \in 0 .. SocketRoom : (n = 0 <=> Wanted = 0) /\ Read(n)

MessagesNext ==
    \/ Connects \/ Breaks \/ ReaderStep
    \/ \E w \in Writers : WriterStep(w) \/ \E text \in Contents : Begin(w, text)

\* Both programs go on as long as the socket lets them.
MessagesFairness == WF_messageVars(ReaderStep) /\ \A w \in Writers : WF_messageVars(WriterStep(w))

MessagesSpec == MessagesInit /\ [][MessagesNext]_messageVars /\ MessagesFairness

-----------------------------------------------------------------------------
\* What is received is what was sent, whole, in order and once, wherever the calls of
\* read and write cut it and although two threads send (shared.h:71, 97;
\* controller.c:134, 545).
ArriveInOrder == IsPrefix(received, sent)

\* A message that was sent is received, or the receiver learns that the connection is
\* over; neither waits for bytes the other does not send.
Delivered == (received # sent) ~> (received = sent \/ receiver = "ended")

\* shared.h:112, "If the socket disconnects returns NULL".
NullOnDisconnect == ending \in {"none", "NULL"}
=============================================================================
