----------------------------- MODULE RoundRobin -----------------------------
(***************************************************************************)
(* exam/week9/roundRobinScheduling_Skeleton.c: a job queue and a ready     *)
(* queue whose nodes are the same and are linked by the same field.        *)
(***************************************************************************)
EXTENDS Integers, Sequences, FiniteSets

CONSTANTS
    JobCount,      \* how many processes (5)
    BurstTimes,    \* what the generator yields
    TimeSlice,     \* quantum
    Null

ASSUME RoundRobinAssumption ==
    /\ JobCount \in Nat
    /\ BurstTimes \subseteq Int /\ TimeSlice \in Nat \ {0}
    /\ Null \notin 1 .. JobCount

VARIABLES
    stage,         \* "off", "filling", "serving" or "printing"
    made,          \* how many nodes there are
    jobQueueHead, jobQueueTail, readyQueueHead, readyQueueTail,
    nextNode, burstTime

queueVars == <<jobQueueHead, jobQueueTail, readyQueueHead, readyQueueTail, nextNode>>
rrVars    == <<stage, made, queueVars, burstTime>>

Nodes == 1 .. JobCount

RoundRobinInit ==
    /\ stage = "off" /\ made = 0
    /\ jobQueueHead = Null /\ jobQueueTail = Null
    /\ readyQueueHead = Null /\ readyQueueTail = Null
    /\ nextNode = [n \in Nodes |-> Null]
    /\ burstTime = [n \in Nodes |-> 0]

-----------------------------------------------------------------------------
(* The queues.  An operator returns the queue, or the links, it leaves.    *)

Linked(links, tail, node) == IF tail = Null THEN links ELSE [links EXCEPT ![tail] = node]

\* insertNodeJobQueue and insertNodeToReadyQueue.
Inserted(head, tail, node) == [head |-> IF tail = Null THEN node ELSE head, tail |-> node]

Removed_Always(head, tail) == [head |-> nextNode[head], tail |-> tail]

\* removeJobQueueHeadNode.
Removed(head, tail) ==
    IF head = tail THEN [head |-> Null, tail |-> Null]
    ELSE [head |-> nextNode[head], tail |-> tail]

SetJobQueue(q)   == jobQueueHead' = q.head /\ jobQueueTail' = q.tail
SetReadyQueue(q) == readyQueueHead' = q.head /\ readyQueueTail' = q.tail

-----------------------------------------------------------------------------
(* main.                                                                   *)

StartFilling == stage = "off" /\ stage' = "filling" /\ UNCHANGED <<made, queueVars, burstTime>>

Fill(time) ==
    /\ stage = "filling" /\ made < JobCount
    /\ made' = made + 1
    /\ burstTime' = [burstTime EXCEPT ![made + 1] = time]
    /\ SetJobQueue(Inserted(jobQueueHead, jobQueueTail, made + 1))
    /\ nextNode' = Linked(nextNode, jobQueueTail, made + 1)
    /\ UNCHANGED <<stage, readyQueueHead, readyQueueTail>>

Filled ==
    /\ stage = "filling" /\ made = JobCount
    /\ stage' = "serving"
    /\ UNCHANGED <<made, queueVars, burstTime>>

Left(job) == burstTime[job] - TimeSlice

\* One turn of the loop.
Serve ==
    LET job  == jobQueueHead
        rest == Removed(jobQueueHead, jobQueueTail)
    IN  /\ stage = "serving" /\ job # Null
        /\ burstTime' = [burstTime EXCEPT ![job] = Left(job)]
        /\ IF Left(job) > 0
           THEN /\ SetJobQueue(Inserted(rest.head, rest.tail, job))
                /\ SetReadyQueue(Inserted(readyQueueHead, readyQueueTail, job))
                /\ nextNode' = Linked(Linked(nextNode, rest.tail, job), readyQueueTail, job)
           ELSE SetJobQueue(rest) /\ UNCHANGED <<readyQueueHead, readyQueueTail, nextNode>>
        /\ UNCHANGED <<stage, made>>

Served ==
    /\ stage = "serving" /\ jobQueueHead = Null
    /\ stage' = "printing"
    /\ UNCHANGED <<made, queueVars, burstTime>>

RoundRobinNext == StartFilling \/ (\E time \in BurstTimes : Fill(time)) \/ Filled \/ Serve \/ Served

RoundRobinSpec == RoundRobinInit /\ [][RoundRobinNext]_rrVars

-----------------------------------------------------------------------------
\* The job queue runs along the links, from its head to its tail.
Behind == [node \in Nodes \cup {Null} |->
              IF node \in {Null, jobQueueTail} THEN Null ELSE nextNode[node]]

Along[n \in Nat] == IF n = 0 THEN jobQueueHead ELSE Behind[Along[n - 1]]

JobQueue ==
    LET length == Cardinality({n \in 0 .. JobCount : Along[n] # Null})
    IN  [i \in 1 .. length |-> Along[i - 1]]

RunQueueOf == INSTANCE RunQueue
              WITH Jobs <- Nodes, Times <- BurstTimes, Quantum <- TimeSlice,
                   waiting <- JobQueue, remaining <- burstTime

\* The job queue is served in turn, although every insertion in the ready queue
\* writes the link the job queue runs along (roundRobin...c:45, 78, 113).
IsRoundRobin == RunQueueOf!Spec
=============================================================================
