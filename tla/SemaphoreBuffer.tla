--------------------------- MODULE SemaphoreBuffer ---------------------------
(***************************************************************************)
(* The bounded buffer of week6/workshop6/buffer.c: producers and consumers *)
(* share a ring of slots, two counting semaphores and a mutex.             *)
(*                                                                         *)
(* The mutex only guards the copy of an item and the move of a pointer, so *)
(* each of these two sections is one step.                                 *)
(***************************************************************************)
EXTENDS Naturals, Sequences, FiniteSets

CONSTANTS
    SemProducers, SemConsumers,   \* the threads
    SemItems,                     \* what rand() returns
    SlotCount                     \* BUFFER_SIZE

ASSUME SemaphoreAssumption ==
    /\ IsFiniteSet(SemProducers) /\ IsFiniteSet(SemConsumers)
    /\ SemProducers \cap SemConsumers = {}
    /\ SemItems \subseteq Nat
    /\ SlotCount \in Nat \ {0}

VARIABLES
    semProcess,                   \* "off", "running" or "over"
    buffer, insertPointer, removePointer,
    empty, full,                  \* the two semaphores
    semThread                     \* where each thread is

ringVars == <<buffer, insertPointer, removePointer>>
semVars  == <<semProcess, ringVars, empty, full, semThread>>

SemThreads == SemProducers \cup SemConsumers
Slots      == 0 .. SlotCount - 1

SemInit ==
    /\ semProcess = "off"
    /\ buffer = [s \in Slots |-> 0] /\ insertPointer = 0 /\ removePointer = 0
    /\ empty = SlotCount /\ full = 0
    /\ semThread = [t \in SemThreads |-> "outside"]

SemMoves(t, here, there) ==
    /\ semProcess = "running" /\ semThread[t] = here
    /\ semThread' = [semThread EXCEPT ![t] = there]
    /\ UNCHANGED semProcess

-----------------------------------------------------------------------------
(* insert_item.                                                            *)

WaitEmpty_Any(p) == SemMoves(p, "outside", "copying") /\ UNCHANGED <<ringVars, empty, full>>

WaitEmpty(p) ==
    /\ empty > 0 /\ empty' = empty - 1
    /\ SemMoves(p, "outside", "copying")
    /\ UNCHANGED <<ringVars, full>>

\* The section under the mutex.
InsertItem(p, item) ==
    /\ SemMoves(p, "copying", "posting")
    /\ buffer' = [buffer EXCEPT ![insertPointer] = item]
    /\ insertPointer' = (insertPointer + 1) % SlotCount
    /\ UNCHANGED <<removePointer, empty, full>>

PostFull(p) ==
    /\ SemMoves(p, "posting", "outside")
    /\ full' = full + 1
    /\ UNCHANGED <<ringVars, empty>>

-----------------------------------------------------------------------------
(* remove_item.                                                            *)

WaitFull(c) ==
    /\ full > 0 /\ full' = full - 1
    /\ SemMoves(c, "outside", "copying")
    /\ UNCHANGED <<ringVars, empty>>

RemoveItem(c) ==
    /\ SemMoves(c, "copying", "posting")
    /\ removePointer' = (removePointer + 1) % SlotCount
    /\ UNCHANGED <<buffer, insertPointer, empty, full>>

PostEmpty_Never(c) == SemMoves(c, "posting", "outside") /\ UNCHANGED <<ringVars, empty, full>>

PostEmpty(c) ==
    /\ SemMoves(c, "posting", "outside")
    /\ empty' = empty + 1
    /\ UNCHANGED <<ringVars, full>>

-----------------------------------------------------------------------------
(* main.                                                                   *)

SemLaunch ==
    /\ semProcess = "off" /\ semProcess' = "running"
    /\ UNCHANGED <<ringVars, empty, full, semThread>>

\* The first join loop indexes with a variable that was never set, the second runs to
\* the number of the producers: a join may wait for good, fail or crash, and main may
\* come to its end, which ends all threads.
SemJoins ==
    /\ semProcess = "running" /\ semProcess' = "over"
    /\ UNCHANGED <<ringVars, empty, full, semThread>>

SemStep(t) ==
    \/ t \in SemProducers /\ (WaitEmpty(t) \/ PostFull(t) \/ \E item \in SemItems : InsertItem(t, item))
    \/ t \in SemConsumers /\ (WaitFull(t) \/ RemoveItem(t) \/ PostEmpty(t))

SemNext == SemLaunch \/ SemJoins \/ \E t \in SemThreads : SemStep(t)

\* Every thread that can go on does.
SemFairness == \A t \in SemThreads : WF_semVars(SemStep(t))

SemSpec == SemInit /\ [][SemNext]_semVars /\ SemFairness

-----------------------------------------------------------------------------
Number(threads, here) == Cardinality({t \in threads : semThread[t] = here})

\* Items that are in the ring: posted, not yet posted, and claimed but not yet copied.
Stored == full + Number(SemProducers, "posting") + Number(SemConsumers, "copying")

\* No slot is lost or counted twice between the two semaphores (buffer.c:21-40).
SlotsAccounted ==
    empty + Number(SemProducers, "copying") + Stored + Number(SemConsumers, "posting") = SlotCount

SemContent == [i \in 1 .. Stored |-> buffer[(removePointer + i - 1) % SlotCount]]

SemBuffer == INSTANCE BoundedBuffer
             WITH Items <- SemItems, Capacity <- SlotCount, content <- SemContent

\* However the threads interleave between their semaphore operations and their copies,
\* an item is neither overwritten nor read twice, and comes out in its turn
\* (buffer.c:24, 36).
IsSemaphoreBuffer == SemBuffer!Spec

\* Items keep coming out for as long as the process runs: no post is lost and the
\* threads never all wait for each other (buffer.c:21, 33).
RemovalsGoOn ==
    \A s \in Slots : (semProcess = "running") ~> (semProcess = "over" \/ removePointer = s)
=============================================================================
