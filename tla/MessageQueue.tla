---------------------------- MODULE MessageQueue ----------------------------
(***************************************************************************)
(* week5/workshop5/threads/msgq.c: producers and consumers on a stack of   *)
(* messages without any lock.                                              *)
(*                                                                         *)
(* Every access to a shared field is a step of its own; `position++' is a  *)
(* load and a store.  Between two of them there is a call the compiler     *)
(* cannot look into, which keeps them apart and in order, except between   *)
(* the two stores of the consumer: these happen in either order.  The      *)
(* messages themselves (times of day) are left out.                        *)
(***************************************************************************)
EXTENDS Naturals

CONSTANTS
    MqProducers, MqConsumers,        \* the threads
    LastProducer, LastConsumer,      \* the only ones main joins
    QueueSize                        \* BUFFER_SIZE

ASSUME MessageQueueAssumption ==
    /\ MqProducers \cap MqConsumers = {}
    /\ LastProducer \in MqProducers /\ LastConsumer \in MqConsumers
    /\ QueueSize \in Nat \ {0}

VARIABLES
    mqProcess,                       \* "off", "running", "over"; "broken": memory overwritten
    keep_running, position, is_room,
    mqThread,                        \* where each thread is
    register                         \* the value of position it has loaded

fieldVars == <<keep_running, position, is_room>>
mqVars == <<mqProcess, fieldVars, mqThread, register>>

MqThreads == MqProducers \cup MqConsumers

MqInit ==
    /\ mqProcess = "off"
    /\ keep_running = TRUE /\ position = 0 /\ is_room = TRUE
    /\ mqThread = [t \in MqThreads |-> "checking"]
    /\ register = [t \in MqThreads |-> 0]

MqMoves(t, here, there) ==
    /\ mqProcess = "running" /\ mqThread[t] = here
    /\ mqThread' = [mqThread EXCEPT ![t] = there]

\* The condition of the outer loop.
Checks_Never(t, there) ==
    /\ MqMoves(t, "checking", there)
    /\ UNCHANGED <<mqProcess, fieldVars, register>>

Checks(t, there) ==
    /\ MqMoves(t, "checking", IF keep_running THEN there ELSE "done")
    /\ UNCHANGED <<mqProcess, fieldVars, register>>

Loads(t) ==
    /\ MqMoves(t, "loading", "storing")
    /\ register' = [register EXCEPT ![t] = position]
    /\ UNCHANGED <<mqProcess, fieldVars>>

-----------------------------------------------------------------------------
(* producer_function.                                                      *)

FindsRoom(t) ==
    /\ is_room
    /\ MqMoves(t, "sending", "loading")
    /\ UNCHANGED <<mqProcess, fieldVars, register>>

\* Behind the buffer lie the other fields.
StoresUp(t) ==
    /\ MqMoves(t, "storing", "counting")
    /\ position' = register[t] + 1
    /\ mqProcess' = IF register[t] < QueueSize THEN "running" ELSE "broken"
    /\ register' = [register EXCEPT ![t] = 0]
    /\ UNCHANGED <<keep_running, is_room>>

Counts(t) ==
    /\ MqMoves(t, "counting", IF position = QueueSize THEN "closing" ELSE "checking")
    /\ UNCHANGED <<mqProcess, fieldVars, register>>

Closes(t) ==
    /\ MqMoves(t, "closing", "checking")
    /\ is_room' = FALSE
    /\ UNCHANGED <<mqProcess, keep_running, position, register>>

-----------------------------------------------------------------------------
(* consumer_function.                                                      *)

FindsMessage_Any(t) ==
    /\ MqMoves(t, "receiving", "loading")
    /\ UNCHANGED <<mqProcess, fieldVars, register>>

FindsMessage(t) ==
    /\ position # 0
    /\ MqMoves(t, "receiving", "loading")
    /\ UNCHANGED <<mqProcess, fieldVars, register>>

StoresDown(t) ==
    /\ MqMoves(t, "storing", "opening") \/ MqMoves(t, "late", "checking")
    /\ IF register[t] > 0
       THEN position' = register[t] - 1 /\ UNCHANGED mqProcess
       ELSE mqProcess' = "broken" /\ UNCHANGED position
    /\ register' = [register EXCEPT ![t] = 0]
    /\ UNCHANGED <<keep_running, is_room>>

Opens(t) ==
    /\ MqMoves(t, "opening", "checking") \/ MqMoves(t, "storing", "late")
    /\ is_room' = TRUE
    /\ UNCHANGED <<mqProcess, keep_running, position, register>>

-----------------------------------------------------------------------------
(* main.                                                                   *)

MqLaunch == mqProcess = "off" /\ mqProcess' = "running" /\ UNCHANGED <<fieldVars, mqThread, register>>

HitEnter ==
    /\ mqProcess = "running" /\ keep_running
    /\ keep_running' = FALSE
    /\ UNCHANGED <<mqProcess, position, is_room, mqThread, register>>

MqJoins ==
    /\ mqProcess = "running" /\ ~keep_running
    /\ mqThread[LastProducer] = "done" /\ mqThread[LastConsumer] = "done"
    /\ mqProcess' = "over"
    /\ UNCHANGED <<fieldVars, mqThread, register>>

MqStep(t) ==
    \/ Loads(t)
    \/ t \in MqProducers /\ (Checks(t, "sending") \/ FindsRoom(t) \/ StoresUp(t) \/ Counts(t) \/ Closes(t))
    \/ t \in MqConsumers /\ (Checks(t, "receiving") \/ FindsMessage(t) \/ StoresDown(t) \/ Opens(t))

MqNext == MqLaunch \/ HitEnter \/ MqJoins \/ \E t \in MqThreads : MqStep(t)

MqFairness == WF_mqVars(MqJoins) /\ \A t \in MqThreads : WF_mqVars(MqStep(t))

MqSpec == MqInit /\ [][MqNext]_mqVars /\ MqFairness

-----------------------------------------------------------------------------
\* A single consumer never reads in front of the buffer, whatever updates the
\* producers lose or undo (msgq.c:90-101).
NeverUnderruns ==
    \A c \in MqConsumers : MqConsumers = {c} /\ mqThread[c] \in {"storing", "late"} => register[c] > 0

Stuck(t) ==
    \/ mqThread[t] = "sending" /\ ~is_room
    \/ mqThread[t] = "receiving" /\ position = 0

\* msgq.c:122, "Hit the enter key to stop the threads executing": once the key is hit
\* the program ends, or one of the two threads that main joins waits for room or for a
\* message that may never come, or the buffer was overrun.
EnterStops ==
    (mqProcess = "running" /\ ~keep_running) ~>
        (mqProcess \in {"over", "broken"} \/ Stuck(LastProducer) \/ Stuck(LastConsumer))
=============================================================================
