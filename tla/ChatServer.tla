----------------------------- MODULE ChatServer -----------------------------
(***************************************************************************)
(* week8/chatapp/server.c: a thread per client, and a table of clients     *)
(* that every message is sent to.                                          *)
(*                                                                         *)
(* `fds' is the kernel's table of descriptors, which gives out the lowest  *)
(* free number.  A thread blocked in recv() keeps the connection it called *)
(* it for, whatever happens to the descriptor.  What the messages say is   *)
(* left out.                                                               *)
(***************************************************************************)
EXTENDS Naturals, FiniteSets, FiniteSetsExt

CONSTANTS
    MaxClients,        \* bound: how many clients come; they are numbered as they come
    Descriptors,       \* the numbers there are, positive
    TableSize,         \* MAX_CLIENTS
    None

ASSUME ChatAssumption ==
    /\ Descriptors \subseteq Nat \ {0}
    /\ TableSize \in Nat
    /\ MaxClients \in Nat /\ None \notin Nat

VARIABLES
    server,            \* "off", "running" or "dead"
    fds,               \* the connection behind each descriptor
    gone,              \* the clients that have closed their end
    handler,           \* where the thread of each client is
    fd,                \* client->fd, 0 before there is a client
    hears,             \* the connection its recv() waits for
    client_sockets,    \* the table: a descriptor, or 0
    sender, cursor,    \* the thread inside broadcast_msg, and the entry it is at
    stuck              \* the client that does not read what it is being sent

kernelVars  == <<fds, gone>>
threadVars  == <<handler, fd, hears>>
tableVars   == <<client_sockets, sender, cursor, stuck>>
chatVars    == <<server, kernelVars, threadVars, tableVars>>

ChatClients == 1 .. MaxClients
Rows        == 1 .. TableSize

ChatInit ==
    /\ server = "off"
    /\ fds = [d \in Descriptors |-> None] /\ gone = {}
    /\ handler = [c \in ChatClients |-> "absent"]
    /\ fd = [c \in ChatClients |-> 0]
    /\ hears = [c \in ChatClients |-> None]
    /\ client_sockets = [r \in Rows |-> 0]
    /\ sender = None /\ cursor = 1 /\ stuck = None

ChatLaunch == server = "off" /\ server' = "running" /\ UNCHANGED <<kernelVars, threadVars, tableVars>>

\* Outside recv() the thread waits for no connection.
Goes(c, here, there) ==
    /\ server = "running" /\ handler[c] = here
    /\ handler' = [handler EXCEPT ![c] = there]
    /\ hears' = [hears EXCEPT ![c] = IF there \in {"naming", "receiving"} THEN fds[fd[c]] ELSE None]

MutexFree == sender = None

\* A read or write on k finds the other end closed.
Ended(k) == k = None \/ k \in gone

-----------------------------------------------------------------------------
(* main, and the clients.                                                  *)

\* With no number left accept fails, and the server exits.
Accept(c) ==
    LET free == {d \in Descriptors : fds[d] = None}
    IN  /\ server = "running" /\ handler[c] = "absent"
        /\ \A d \in 1 .. c - 1 : handler[d] # "absent"
        /\ IF free = {} THEN server' = "dead" /\ UNCHANGED <<fds, handler, fd, hears>>
           ELSE /\ fds' = [fds EXCEPT ![Min(free)] = c]
                /\ fd' = [fd EXCEPT ![c] = Min(free)]
                /\ handler' = [handler EXCEPT ![c] = "calling"]
                /\ UNCHANGED <<server, hears>>
        /\ UNCHANGED <<gone, tableVars>>

\* The server can tell only as long as it has the connection.
Leaves(c) ==
    /\ server = "running" /\ c \notin gone
    /\ c \in {fds[d] : d \in Descriptors} \cup {hears[d] : d \in ChatClients} \cup {stuck}
    /\ gone' = gone \cup {c}
    /\ UNCHANGED <<server, fds, threadVars, tableVars>>

-----------------------------------------------------------------------------
(* handle_client.                                                          *)

\* The call of recv, for the name or for the next message.
CallRecv(c, here, there) ==
    /\ Goes(c, here, there)
    /\ UNCHANGED <<server, kernelVars, fd, tableVars>>

\* A name that is too long is answered; the client may have left before.
RejectName(c) ==
    /\ Goes(c, "naming", "over") /\ hears[c] # None
    /\ fds' = [fds EXCEPT ![fd[c]] = None]
    /\ \/ UNCHANGED server
       \/ fds[fd[c]] \in gone /\ server' = "dead"
    /\ UNCHANGED <<gone, fd, tableVars>>

FreeRows == {r \in Rows : client_sockets[r] = 0}

\* The first free row.  With none the client is served all the same; and so is one
\* that gave no name because it has gone.
Register(c) ==
    /\ MutexFree
    /\ Goes(c, "naming", "serving")
    /\ IF FreeRows = {} THEN UNCHANGED client_sockets
       ELSE client_sockets' = [client_sockets EXCEPT ![Min(FreeRows)] = fd[c]]
    /\ UNCHANGED <<server, kernelVars, fd, sender, cursor, stuck>>

\* A handler to which an end is not an error.
Close_OnError(c) ==
    /\ Goes(c, "receiving", "clearing") /\ hears[c] \notin gone
    /\ fds' = [fds EXCEPT ![fd[c]] = None]
    /\ UNCHANGED <<server, gone, fd, tableVars>>

\* recv fails, or says that the client has left, or the client types \quit.
Close(c) ==
    /\ Goes(c, "receiving", "clearing")
    /\ fds' = [fds EXCEPT ![fd[c]] = None]
    /\ UNCHANGED <<server, gone, fd, tableVars>>

Clear_Never(c) ==
    /\ MutexFree
    /\ Goes(c, "clearing", "over")
    /\ UNCHANGED <<server, kernelVars, fd, tableVars>>

\* The first row with the descriptor of the client, whosever row it is.
Clear(c) ==
    LET rows == {r \in Rows : client_sockets[r] = fd[c]}
    IN  /\ MutexFree
        /\ Goes(c, "clearing", "over")
        /\ IF rows = {} THEN UNCHANGED client_sockets
           ELSE client_sockets' = [client_sockets EXCEPT ![Min(rows)] = 0]
        /\ UNCHANGED <<server, kernelVars, fd, sender, cursor, stuck>>

\* A message comes: broadcast_msg takes the mutex.
Broadcast(c) ==
    /\ MutexFree
    /\ Goes(c, "receiving", "sending") /\ hears[c] # None
    /\ sender' = c /\ cursor' = 1
    /\ UNCHANGED <<server, kernelVars, fd, client_sockets, stuck>>

\* A failed send: the descriptor is closed and the row cleared.  The handler of that
\* client is not told.
DropRow ==
    /\ fds' = [fds EXCEPT ![client_sockets[cursor]] = None]
    /\ client_sockets' = [client_sockets EXCEPT ![cursor] = 0]

\* One row.  A send to a client that has left may still succeed, fail, or raise
\* SIGPIPE, which nobody ignores; one on a closed descriptor fails.
SendRow ==
    /\ server = "running" /\ sender # None /\ cursor \in Rows /\ stuck = None
    /\ cursor' = cursor + 1
    /\ LET d == client_sockets[cursor]
       IN  \/ d = 0 /\ UNCHANGED <<server, fds, client_sockets>>
           \/ d # 0 /\ fds[d] # None /\ UNCHANGED <<server, fds, client_sockets>>
           \/ d # 0 /\ Ended(fds[d]) /\ DropRow /\ UNCHANGED server
           \/ d # 0 /\ fds[d] \in gone /\ server' = "dead" /\ UNCHANGED <<fds, client_sockets>>
    /\ UNCHANGED <<gone, threadVars, sender, stuck>>

\* A client that is there but does not read: send() waits, and the mutex with it.
Block ==
    /\ server = "running" /\ sender # None /\ cursor \in Rows /\ stuck = None
    /\ LET d == client_sockets[cursor]
       IN  d # 0 /\ ~Ended(fds[d]) /\ stuck' = fds[d]
    /\ UNCHANGED <<server, kernelVars, threadVars, client_sockets, sender, cursor>>

\* It reads, or it leaves and the send fails.  The descriptor may be another's by then.
Unblock ==
    /\ server = "running" /\ stuck # None
    /\ stuck' = None /\ cursor' = cursor + 1
    /\ \/ UNCHANGED <<server, fds, client_sockets>>
       \/ stuck \in gone /\ DropRow /\ UNCHANGED server
       \/ stuck \in gone /\ server' = "dead" /\ UNCHANGED <<fds, client_sockets>>
    /\ UNCHANGED <<gone, threadVars, sender>>

EndBroadcast ==
    /\ server = "running" /\ sender # None /\ cursor \notin Rows
    /\ handler' = [handler EXCEPT ![sender] = "serving"]
    /\ sender' = None /\ cursor' = 1
    /\ UNCHANGED <<server, kernelVars, fd, hears, client_sockets, stuck>>

-----------------------------------------------------------------------------
Listens(c) == CallRecv(c, "calling", "naming") \/ CallRecv(c, "serving", "receiving")

\* What a handler does without its client: nobody has to name himself or to speak.
Finishes(c) == (Ended(hears[c]) /\ (Register(c) \/ Close(c))) \/ Clear(c)

ClientStep(c) == Accept(c) \/ Leaves(c) \/ RejectName(c) \/ Register(c) \/ Close(c) \/ Broadcast(c)

ChatNext ==
    \/ ChatLaunch \/ SendRow \/ Block \/ Unblock \/ EndBroadcast
    \/ \E c \in ChatClients : Listens(c) \/ Finishes(c) \/ ClientStep(c)

\* The threads run, and get the mutex again and again if it is free again and again; a
\* client that has left has said only so much before.  Nobody has to read.
ChatFairness ==
    /\ WF_chatVars(SendRow \/ EndBroadcast \/ (stuck \in gone /\ Unblock))
    /\ \A c \in ChatClients : WF_chatVars(Listens(c)) /\ SF_chatVars(Finishes(c))

ChatSpec == ChatInit /\ [][ChatNext]_chatVars /\ ChatFairness

-----------------------------------------------------------------------------
\* No row outlives its client: a descriptor is in the table at most as often as there
\* are threads that will clear it, although a thread closes its descriptor before it
\* clears its row, the number is given out again in between and a thread without a row
\* clears by number (server.c:74, 91-98).
NoStaleRows ==
    \A d \in Descriptors :
        Cardinality({r \in Rows : client_sockets[r] = d})
            <= Cardinality({c \in ChatClients : fd[c] = d
                                /\ handler[c] \in {"serving", "receiving", "sending", "clearing"}})

\* If every client that is there reads in the end, a client that leaves takes its thread
\* with it, unless a broadcast closed its descriptor and the thread now listens to the
\* next client with that number (server.c:50-52, 88).
ThreadsEnd ==
    []<>(stuck = None) =>
        \A c \in ChatClients :
            (c \in gone) ~> (handler[c] = "over" \/ server = "dead" \/ hears[c] \notin {c, None})
=============================================================================
