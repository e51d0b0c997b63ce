--------------------------- MODULE ConditionBuffer ---------------------------
(***************************************************************************)
(* The bounded buffer of week6/workshop6/condition.c: a ring under a mutex *)
(* with one condition variable for the producers and one for the consumers.*)
(*                                                                         *)
(* A thread holds the mutex except inside its wait, so one step runs from  *)
(* the lock, or the end of a wait, to the unlock or the next wait.  The    *)
(* program never ends: main joins a thread that never returns.             *)
(***************************************************************************)
EXTENDS Naturals, Sequences

CONSTANTS
    CondProducers, CondConsumers,   \* the threads
    RingSize                        \* BUFFER_SIZE

ASSUME ConditionAssumption ==
    /\ CondProducers \cap CondConsumers = {}
    /\ CondProducers # {} /\ CondConsumers # {}
    /\ RingSize \in Nat \ {0, 1}

VARIABLES
    condRuns,        \* whether the program was started
    ring, in, out,
    condThread       \* "outside", "waiting" in its wait, or "woken" and after the mutex

condVars == <<condRuns, ring, in, out, condThread>>

CondThreads == CondProducers \cup CondConsumers
Indices     == 0 .. RingSize - 1

CondInit ==
    /\ condRuns = FALSE
    /\ ring = [i \in Indices |-> 0] /\ in = 0 /\ out = 0
    /\ condThread = [t \in CondThreads |-> "outside"]

CondLaunch == ~condRuns /\ condRuns' = TRUE /\ UNCHANGED <<ring, in, out, condThread>>

NextIndex(i) == (i + 1) % RingSize

\* What the places are after t has left the mutex and signalled one of the sleepers.
LeaveAndSignal(t, sleepers) ==
    LET left == [condThread EXCEPT ![t] = "outside"]
        asleep == {s \in sleepers : condThread[s] = "waiting"}
    IN  IF asleep = {} THEN condThread' = left
        ELSE \E s \in asleep : condThread' = [left EXCEPT ![s] = "woken"]

Waits(t) == condThread' = [condThread EXCEPT ![t] = "waiting"] /\ UNCHANGED <<ring, in, out>>

\* `if' in place of `while': a woken producer does not look again.
Producer_If(t) ==
    /\ condRuns /\ condThread[t] # "waiting"
    /\ IF NextIndex(in) = out /\ condThread[t] = "outside"
       THEN Waits(t)
       ELSE /\ ring' = [ring EXCEPT ![in] = 1]
            /\ in' = NextIndex(in)
            /\ LeaveAndSignal(t, CondConsumers)
            /\ UNCHANGED out
    /\ UNCHANGED condRuns

Producer(t) ==
    /\ condRuns /\ condThread[t] # "waiting"
    /\ IF NextIndex(in) = out
       THEN Waits(t)
       ELSE /\ ring' = [ring EXCEPT ![in] = 1]
            /\ in' = NextIndex(in)
            /\ LeaveAndSignal(t, CondConsumers)
            /\ UNCHANGED out
    /\ UNCHANGED condRuns

Consumer_NoSignal(t) ==
    /\ condRuns /\ condThread[t] # "waiting"
    /\ IF in = out
       THEN Waits(t)
       ELSE /\ ring' = [ring EXCEPT ![out] = 0]
            /\ out' = NextIndex(out)
            /\ LeaveAndSignal(t, {})
            /\ UNCHANGED in
    /\ UNCHANGED condRuns

Consumer(t) ==
    /\ condRuns /\ condThread[t] # "waiting"
    /\ IF in = out
       THEN Waits(t)
       ELSE /\ ring' = [ring EXCEPT ![out] = 0]
            /\ out' = NextIndex(out)
            /\ LeaveAndSignal(t, CondProducers)
            /\ UNCHANGED in
    /\ UNCHANGED condRuns

\* pthread_cond_wait may return without a signal.
Spurious(t) ==
    /\ condThread[t] = "waiting"
    /\ condThread' = [condThread EXCEPT ![t] = "woken"]
    /\ UNCHANGED <<condRuns, ring, in, out>>

CondStep(t) == (t \in CondProducers /\ Producer(t)) \/ (t \in CondConsumers /\ Consumer(t))

CondNext == CondLaunch \/ \E t \in CondThreads : CondStep(t) \/ Spurious(t)

CondSpec == CondInit /\ [][CondNext]_condVars

-----------------------------------------------------------------------------
CondContent == [i \in 1 .. (in + RingSize - out) % RingSize |-> ring[(out + i - 1) % RingSize]]

CondBuffer == INSTANCE BoundedBuffer
              WITH Items <- {1}, Capacity <- RingSize - 1, content <- CondContent

\* However wake-ups are stolen, come late or for no reason, the ring behaves like a
\* buffer of one item less than it has slots (condition.c:31, 49).
IsConditionBuffer == CondBuffer!Spec

\* Producers and consumers never all sleep, although each signal wakes one thread only
\* and that thread may find nothing to do (condition.c:39, 57).
SomebodyAwake == \E t \in CondThreads : condThread[t] # "waiting"
=============================================================================
