---------------------------- MODULE MCStandAlone ----------------------------
(***************************************************************************)
(* The programs that have nothing to do with each other, side by side, so  *)
(* that one run checks them all: one of them runs, and the others are not  *)
(* started.  Once a program runs the others stay as they are.              *)
(***************************************************************************)
EXTENDS FloorTrip, Messages, SemaphoreBuffer, ConditionBuffer, MessageQueue,
        SharedWorker, ChatServer, RoundRobin, DoubleVector, HashSearch, PidPrinter

CONSTANTS p1, p2, q1, q2, short, long, k1, k2, k3

MCLowest  == Basement(3)
MCHighest == Storey(4)
Plain     == {Basement(n) : n \in 1 .. 4} \cup {Storey(n) : n \in 1 .. 5}
MCTexts   == Plain \cup {Padded(f) : f \in Plain}

MCBodySize == [m \in {short, long} |-> IF m = short THEN 1 ELSE 3]

MCHash == [k \in {k1, k2, k3} |-> IF k = k1 THEN 4 ELSE 9]    \* k2 and k3 collide

\* The parts but the one named have not begun, and do not.
Alone(part) ==
    /\ part # "trip"      => TripInit
    /\ part # "messages"  => MessagesInit
    /\ part # "semaphore" => SemInit
    /\ part # "condition" => CondInit
    /\ part # "mq"        => MqInit
    /\ part # "worker"    => WorkerInit
    /\ part # "chat"      => ChatInit
    /\ part # "rr"        => RoundRobinInit
    /\ part # "vector"    => VectorsInit
    /\ part # "hash"      => HashInit
    /\ part # "printer"   => PrinterInit

OthersStay(part) ==
    /\ part # "trip"      => UNCHANGED tripVars
    /\ part # "messages"  => UNCHANGED messageVars
    /\ part # "semaphore" => UNCHANGED semVars
    /\ part # "condition" => UNCHANGED condVars
    /\ part # "mq"        => UNCHANGED mqVars
    /\ part # "worker"    => UNCHANGED workerVars
    /\ part # "chat"      => UNCHANGED chatVars
    /\ part # "rr"        => UNCHANGED rrVars
    /\ part # "vector"    => UNCHANGED vectorVars
    /\ part # "hash"      => UNCHANGED hashVars
    /\ part # "printer"   => UNCHANGED printerVars

AllInit ==
    /\ TripInit /\ MessagesInit /\ SemInit /\ CondInit /\ MqInit /\ WorkerInit
    /\ ChatInit /\ RoundRobinInit /\ VectorsInit /\ HashInit /\ PrinterInit

AllNext ==
    \/ Alone("trip")        /\ TripNext       /\ OthersStay("trip")
    \/ Alone("messages")    /\ MessagesNext   /\ OthersStay("messages")
    \/ Alone("semaphore")   /\ SemNext        /\ OthersStay("semaphore")
    \/ Alone("condition")   /\ CondNext       /\ OthersStay("condition")
    \/ Alone("mq")          /\ MqNext         /\ OthersStay("mq")
    \/ Alone("worker")      /\ WorkerNext     /\ OthersStay("worker")
    \/ Alone("chat")        /\ ChatNext       /\ OthersStay("chat")
    \/ Alone("rr")          /\ RoundRobinNext /\ OthersStay("rr")
    \/ Alone("vector")      /\ VectorsNext    /\ OthersStay("vector")
    \/ Alone("hash")        /\ HashNext       /\ OthersStay("hash")
    \/ Alone("printer")     /\ PrinterNext    /\ OthersStay("printer")

allVars ==
    <<tripVars, messageVars, semVars, condVars, mqVars, workerVars, chatVars, rrVars,
      vectorVars, hashVars, printerVars>>

\* A part that does not run has nothing to do.
AllSpec ==
    /\ AllInit /\ [][AllNext]_allVars
    /\ TripFairness /\ MessagesFairness /\ SemFairness /\ MqFairness
    /\ WorkerFairness /\ ChatFairness
=============================================================================
